------------------------- MODULE RateLimiter_proofs -------------------------
(***************************************************************************)
(* Proofs about the rate limiter, for any number of calls and any RL table *)
(* that satisfies the assumptions of RateLimiter.                          *)
(*                                                                         *)
(* A synchronous segment of a queued call (Gate, Slot, Space) ends in one  *)
(* of three ways: the call sleeps, fails or takes off, with some ledger    *)
(* that is still good.  GateEnds, SlotEnds and SpaceEnds say so once; every*)
(* invariant is then checked against the three endings only.               *)
(***************************************************************************)
EXTENDS RateLimiter, FiniteSetTheorems, TLAPS

QueueType  == [waiting : Nat, by : Counters]
FlightType == [total : Nat, by : Counters]

\* A ledger of the right type that dominates the header of its window.
GoodLedger == {l \in LedgerType : l.fresh => l.committed >= l.measured}

Ends(c, q) ==
    \E l \in GoodLedger, p \in Priority :
        \/ \E stage \in Asleep : Sleep(c, stage, p, l, q)
        \/ FailQueued(c, l, q)
        \/ Launch(c, p, l, q)

-----------------------------------------------------------------------------
(* The ledger operators keep a ledger good.                                *)

LEMMA RollIsGood ==
  ASSUME NEW l \in GoodLedger
  PROVE  RollWindowIfNeeded(l) \in GoodLedger
BY DEF RollWindowIfNeeded, GoodLedger, LedgerType

LEMMA CommitIsGood ==
  ASSUME NEW l \in GoodLedger, NEW c \in Call
  PROVE  Commit(l, c) \in GoodLedger
<1>1. Weight[c] \in Nat
  BY CallAssumption
<1>2. RunOf[c] # NoRun => RunOf[c] \in Run
  BY CallAssumption
<1>3. l \in LedgerType /\ (l.fresh => l.committed >= l.measured)
  BY DEF GoodLedger
<1> DEFINE runs == IF RunOf[c] = NoRun THEN l.runs ELSE l.runs \cup {RunOf[c]}
<1>4. runs \in SUBSET Run /\ l.committed + Weight[c] \in Nat
  BY <1>1, <1>2, <1>3 DEF LedgerType
<1>5. Commit(l, c) = [l EXCEPT !.committed = l.committed + Weight[c], !.runs = runs]
  BY DEF Commit
<1> HIDE DEF runs
<1>6. Commit(l, c) \in LedgerType
  BY <1>3, <1>4, <1>5 DEF LedgerType
<1>7. /\ Commit(l, c).committed = l.committed + Weight[c]
      /\ Commit(l, c).measured = l.measured
  BY <1>3, <1>5 DEF LedgerType
<1>8. Commit(l, c).fresh => l.fresh
  BY <1>3, <1>5 DEF LedgerType
<1>9. Commit(l, c).fresh => Commit(l, c).committed >= Commit(l, c).measured
  BY <1>1, <1>3, <1>7, <1>8 DEF LedgerType
<1> QED
  BY <1>6, <1>9 DEF GoodLedger

LEMMA ReconcileIsGood ==
  ASSUME NEW l \in GoodLedger, NEW header \in Nat
  PROVE  Reconcile(l, header) \in GoodLedger
<1> DEFINE r == RollWindowIfNeeded(l)
           m == Larger(r.committed, header)
<1>1. r \in LedgerType
  BY RollIsGood DEF GoodLedger
<1>2. m \in Nat /\ m >= header
  BY <1>1 DEF Larger, LedgerType
<1>3. Reconcile(l, header) = [committed |-> m, measured |-> header, runs |-> r.runs,
                              stale |-> r.stale, fresh |-> TRUE]
  BY DEF Reconcile
<1> QED
  BY <1>1, <1>2, <1>3 DEF GoodLedger, LedgerType

LEMMA EffectivePriorityType ==
  ASSUME NEW c \in Call, NEW l
  PROVE  EffectivePriority(c, l) \in Priority
<1>1. BasePriority[c] \in Priority
  BY CallAssumption
<1> QED
  BY <1>1 DEF EffectivePriority, BumpPriority, Priority

-----------------------------------------------------------------------------
(* The synchronous segments.                                               *)

LEMMA SpaceEnds ==
  ASSUME NEW c \in Call, NEW l \in GoodLedger, NEW q, Space(c, l, q)
  PROVE  Ends(c, q)
<1> DEFINE p  == EffectivePriority(c, l)
           l1 == IF p \in {"NORMAL", "LOW"} THEN RollWindowIfNeeded(l) ELSE l
<1>1. p \in Priority /\ l1 \in GoodLedger
  BY EffectivePriorityType, RollIsGood
<1>2. Launch(c, p, l1, q) \/ Sleep(c, "spacing", p, l1, q)
  BY DEF Space
<1> QED
  BY <1>1, <1>2 DEF Ends, Asleep

LEMMA SlotEnds ==
  ASSUME NEW c \in Call, NEW l \in GoodLedger, NEW q,
         lane \in [Call -> Priority], Slot(c, l, q)
  PROVE  Ends(c, q)
<1> DEFINE l1 == IF banned \/ backoff THEN l ELSE RollWindowIfNeeded(l)
<1>1. l1 \in GoodLedger /\ lane[c] \in Priority
  BY RollIsGood
<1>2. \/ Space(c, l1, q)
      \/ FailQueued(c, l1, q)
      \/ Sleep(c, "slot", lane[c], l1, q)
  BY DEF Slot
<1> QED
  BY <1>1, <1>2, SpaceEnds DEF Ends, Asleep

LEMMA GateEnds ==
  ASSUME NEW c \in Call, NEW l \in GoodLedger, NEW q,
         lane \in [Call -> Priority], Gate(c, l, q)
  PROVE  Ends(c, q)
<1> DEFINE l1 == RollWindowIfNeeded(l)
<1>1. l1 \in GoodLedger /\ lane[c] \in Priority
  BY RollIsGood
<1>2. \/ Slot(c, l1, q)
      \/ FailQueued(c, l, q) \/ FailQueued(c, l1, q)
      \/ Sleep(c, "budget", lane[c], l, q) \/ Sleep(c, "budget", lane[c], l1, q)
  BY DEF Gate
<1> QED
  BY <1>1, <1>2, SlotEnds DEF Ends, Asleep

-----------------------------------------------------------------------------
(* Type correctness, together with LedgerDominatesHeader: the ledger part  *)
(* of both is ledger \in GoodLedger, and it is inductive only as a whole.  *)

Typed == TypeOK /\ LedgerDominatesHeader

LEMMA TypedLedger ==
  /\ Typed => ledger \in GoodLedger
  /\ TypeOK' /\ ledger' \in GoodLedger => Typed'
BY DEF Typed, TypeOK, LedgerDominatesHeader, GoodLedger

LEMMA DecType ==
  ASSUME NEW n \in Nat
  PROVE  Dec(n) \in Nat
BY DEF Dec

LEMMA BumpedCounters ==
  ASSUME NEW by \in Counters, NEW p \in Priority
  PROVE  /\ [by EXCEPT ![p] = @ + 1] \in Counters
         /\ [by EXCEPT ![p] = Dec(@)] \in Counters
BY DecType DEF Counters

LEMMA QueueTypes ==
  ASSUME NEW q \in QueueType, NEW c \in Call
  PROVE  EnterQueue(q, c) \in QueueType /\ LeaveQueue(q, c) \in QueueType
<1>1. BasePriority[c] \in Priority
  BY CallAssumption
<1>2. q.waiting \in Nat /\ q.by \in Counters
  BY DEF QueueType
<1> QED
  BY <1>1, <1>2, DecType, BumpedCounters DEF EnterQueue, LeaveQueue, QueueType

LEMMA FlightTypes ==
  ASSUME flight \in FlightType, NEW p \in Priority, TakeOff(p) \/ FinishInflight(p)
  PROVE  flight' \in FlightType
<1>1. flight.total \in Nat /\ flight.by \in Counters
  BY DEF FlightType
<1>2. /\ [flight.by EXCEPT ![p] = @ + 1] \in Counters
      /\ [flight.by EXCEPT ![p] = Dec(@)] \in Counters
  BY <1>1, BumpedCounters
<1>3. flight.total + 1 \in Nat /\ Dec(flight.total) \in Nat
  BY <1>1, DecType
<1>4. CASE TakeOff(p)
  BY <1>2, <1>3, <1>4 DEF TakeOff, FlightType
<1>5. CASE FinishInflight(p)
  BY <1>2, <1>3, <1>5 DEF FinishInflight, FlightType
<1> QED
  BY <1>4, <1>5

LEMMA EndsTyped ==
  ASSUME Typed, NEW c \in Call, NEW q \in QueueType, Ends(c, q),
         UNCHANGED <<overdue, banned, backoff, outdated, answer, used>>
  PROVE  Typed'
<1> USE DEF GoTo
<1>1. PICK l \in GoodLedger, p \in Priority :
        \/ \E stage \in Asleep : Sleep(c, stage, p, l, q)
        \/ FailQueued(c, l, q)
        \/ Launch(c, p, l, q)
  BY DEF Ends
<1>2. /\ flight \in FlightType
      /\ LeaveQueue(q, c) \in QueueType
      /\ RollWindowIfNeeded(l) \in GoodLedger
      /\ RollWindowIfNeeded(Commit(l, c)) \in GoodLedger
      /\ GoodLedger \subseteq LedgerType
  BY QueueTypes, RollIsGood, CommitIsGood DEF Typed, TypeOK, FlightType, GoodLedger
<1>3. CASE \E stage \in Asleep : Sleep(c, stage, p, l, q)
  <2>1. PICK stage \in Asleep : Sleep(c, stage, p, l, q)
    BY <1>3
  <2>2. ledger' \in GoodLedger /\ queue' \in QueueType /\ flight' \in FlightType
    BY <1>2, <2>1 DEF Sleep
  <2>3. TypeOK'
    BY <1>2, <2>1, <2>2 DEF Sleep, Typed, TypeOK, QueueType, FlightType
  <2> QED
    BY <2>2, <2>3, TypedLedger
<1>4. CASE FailQueued(c, l, q)
  <2>1. ledger' \in GoodLedger /\ queue' \in QueueType /\ flight' \in FlightType
    BY <1>2, <1>4 DEF FailQueued
  <2>2. TypeOK'
    BY <1>2, <1>4, <2>1 DEF FailQueued, Typed, TypeOK, QueueType, FlightType
  <2> QED
    BY <2>1, <2>2, TypedLedger
<1>5. CASE Launch(c, p, l, q)
  <2>1. ledger' \in GoodLedger /\ queue' \in QueueType /\ flight' \in FlightType
    BY <1>2, <1>5, FlightTypes DEF Launch
  <2>2. TypeOK'
    BY <1>2, <1>5, <2>1 DEF Launch, Typed, TypeOK, QueueType, FlightType
  <2> QED
    BY <2>1, <2>2, TypedLedger
<1> QED
  BY <1>1, <1>3, <1>4, <1>5

\* Every waking or entering call runs a segment that Ends describes.
QueueOf(c) == IF pc[c] = "idle" THEN EnterQueue(queue, c) ELSE queue

LEMMA QueuedStepEnds ==
  ASSUME Typed, NEW c \in Call, Enter(c) \/ Wake(c) \/ CancelQueued(c)
  PROVE  /\ Ends(c, QueueOf(c)) /\ QueueOf(c) \in QueueType
         /\ pc[c] \in {"idle"} \cup Asleep
         /\ UNCHANGED <<overdue, banned, backoff, outdated, answer, used>>
<1>1. /\ ledger \in GoodLedger /\ RollWindowIfNeeded(ledger) \in GoodLedger
      /\ lane \in [Call -> Priority] /\ lane[c] \in Priority
      /\ queue \in QueueType /\ EnterQueue(queue, c) \in QueueType
  BY TypedLedger, RollIsGood, QueueTypes DEF Typed, TypeOK, QueueType
<1>2. CASE Enter(c)
  <2>1. \/ FailQueued(c, RollWindowIfNeeded(ledger), EnterQueue(queue, c))
        \/ Gate(c, RollWindowIfNeeded(ledger), EnterQueue(queue, c))
    BY <1>2 DEF Enter
  <2>2. Ends(c, EnterQueue(queue, c))
    BY <1>1, <2>1, GateEnds DEF Ends
  <2> QED
    BY <1>1, <1>2, <2>2 DEF Enter, QueueOf
<1>3. CASE WakeInBudgetLoop(c)
  BY <1>1, <1>3, GateEnds DEF WakeInBudgetLoop, QueueOf, Asleep
<1>4. CASE WakeInConcurrencyLoop(c)
  BY <1>1, <1>4, SlotEnds DEF WakeInConcurrencyLoop, QueueOf, Asleep
<1>5. CASE WakeFromSpacing(c)
  BY <1>1, <1>5 DEF WakeFromSpacing, QueueOf, Asleep, Ends
<1>6. CASE CancelQueued(c)
  BY <1>1, <1>6 DEF CancelQueued, QueueOf, Asleep, Ends
<1> QED
  BY <1>2, <1>3, <1>4, <1>5, <1>6 DEF Wake

\* Leaving the network: an error, a dropped or a handled response.
LEMMA LandingTyped ==
  ASSUME Typed, NEW c \in Call, NetworkError(c) \/ Land(c)
  PROVE  Typed'
<1>1. /\ ledger \in GoodLedger /\ RollWindowIfNeeded(ledger) \in GoodLedger
      /\ flight \in FlightType /\ lane[c] \in Priority
      /\ answer[c].header \in Nat
      /\ GoodLedger \subseteq LedgerType
  BY TypedLedger, RollIsGood DEF Typed, TypeOK, FlightType, GoodLedger
<1>2. Reconcile(ledger, answer[c].header) \in GoodLedger
  BY <1>1, ReconcileIsGood
<1>3. [answer EXCEPT ![c] = NoAnswer]
        \in [Call -> [status : Status \cup {0}, header : Nat]]
  BY DEF Typed, TypeOK, NoAnswer
<1>4. FinishInflight(lane[c]) => flight' \in FlightType
  BY <1>1, FlightTypes
<1>5. CASE NetworkError(c) \/ DropOutdated(c)
  <2>1. ledger' \in GoodLedger /\ flight' \in FlightType
    BY <1>1, <1>4, <1>5 DEF NetworkError, DropOutdated
  <2>2. TypeOK'
    BY <1>1, <1>3, <1>5, <2>1
       DEF NetworkError, DropOutdated, GoTo, Typed, TypeOK, FlightType
  <2> QED
    BY <2>1, <2>2, TypedLedger
<1>6. CASE HandleResponse(c)
  <2>1. ledger' \in GoodLedger /\ flight' \in FlightType
    BY <1>1, <1>2, <1>4, <1>6 DEF HandleResponse
  <2>2. banned' \in BOOLEAN /\ backoff' \in BOOLEAN /\ outdated' \subseteq Call
    BY <1>6, Zenon DEF HandleResponse, Typed, TypeOK
  <2>3. TypeOK'
    BY <1>1, <1>3, <1>6, <2>1, <2>2 DEF HandleResponse, GoTo, Typed, TypeOK, FlightType
  <2> QED
    BY <2>1, <2>3, TypedLedger
<1> QED
  BY <1>5, <1>6 DEF Land

LEMMA ServeTyped ==
  ASSUME Typed, NEW c \in Call, Serve(c)
  PROVE  Typed'
<1>1. PICK reply \in Reply :
        LET total == used + reply.foreign + Weight[c]
        IN  /\ used' = total
            /\ answer' = [answer EXCEPT ![c] =
                 [status |-> reply.status,
                  header |-> IF reply.reported THEN total ELSE 0]]
  BY DEF Serve
<1>2. reply.status \in Status /\ reply.foreign \in Nat /\ Weight[c] \in Nat
  BY CallAssumption
<1>3. used + reply.foreign + Weight[c] \in Nat
  BY <1>2 DEF Typed, TypeOK
<1>4. used' \in Nat /\ answer' \in [Call -> [status : Status \cup {0}, header : Nat]]
  BY <1>1, <1>2, <1>3 DEF Typed, TypeOK
<1>5. TypeOK'
  BY <1>4 DEF Serve, Typed, TypeOK
<1> QED
  BY <1>5, TypedLedger DEF Serve, Typed

LEMMA LedgerOnlyTyped ==
  ASSUME Typed,
         (\E run \in Run : EndRun(run)) \/ Observe \/ MinuteTurns
  PROVE  Typed'
<1>1. ledger \in GoodLedger /\ RollWindowIfNeeded(ledger) \in GoodLedger
      /\ GoodLedger \subseteq LedgerType
  BY TypedLedger, RollIsGood DEF GoodLedger
<1>2. CASE \E run \in Run : EndRun(run)
  <2>1. PICK run \in Run : EndRun(run)
    BY <1>2
  <2>2. ledger' \in GoodLedger
    BY <1>1, <2>1 DEF EndRun, GoodLedger, LedgerType
  <2>3. TypeOK'
    BY <1>1, <2>1, <2>2 DEF EndRun, Typed, TypeOK
  <2> QED
    BY <2>2, <2>3, TypedLedger
<1>3. CASE Observe
  <2>1. ledger' \in GoodLedger
    BY <1>1, <1>3 DEF Observe
  <2>2. TypeOK'
    BY <1>1, <1>3, <2>1 DEF Observe, Typed, TypeOK
  <2> QED
    BY <2>1, <2>2, TypedLedger
<1>4. CASE MinuteTurns
  <2>1. ledger' \in GoodLedger
    BY <1>1, <1>4 DEF MinuteTurns, GoodLedger, LedgerType
  <2>2. TypeOK'
    BY <1>1, <1>4, <2>1 DEF MinuteTurns, Typed, TypeOK
  <2> QED
    BY <2>1, <2>2, TypedLedger
<1> QED
  BY <1>2, <1>3, <1>4

LEMMA FlagsTyped ==
  ASSUME Typed,
         BanEnds \/ BackoffEnds \/ (\E c \in Call : WaitBudgetPasses(c)) \/ UNCHANGED vars
  PROVE  Typed'
<1>1. ledger' = ledger
  BY DEF BanEnds, BackoffEnds, WaitBudgetPasses, vars
<1>2. CASE BanEnds
  BY <1>1, <1>2, TypedLedger DEF BanEnds, Typed, TypeOK
<1>3. CASE BackoffEnds
  BY <1>1, <1>3, TypedLedger DEF BackoffEnds, Typed, TypeOK
<1>4. CASE \E c \in Call : WaitBudgetPasses(c)
  BY <1>1, <1>4, TypedLedger DEF WaitBudgetPasses, Typed, TypeOK
<1>5. CASE UNCHANGED vars
  BY <1>1, <1>5, TypedLedger DEF vars, Typed, TypeOK
<1> QED
  BY <1>2, <1>3, <1>4, <1>5

LEMMA InitTyped == Init => Typed
<1> SUFFICES ASSUME Init PROVE Typed
  OBVIOUS
<1>1. NoneYet \in Counters
  BY DEF NoneYet, Counters
<1>2. ledger \in GoodLedger
  BY DEF Init, GoodLedger, LedgerType
<1>3. TypeOK
  BY <1>1, <1>2, CallAssumption DEF Init, TypeOK, GoodLedger, NoAnswer
<1> QED
  BY <1>3 DEF Typed, LedgerDominatesHeader, Init

LEMMA NextTyped == Typed /\ [Next]_vars => Typed'
<1> SUFFICES ASSUME Typed, [Next]_vars PROVE Typed'
  OBVIOUS
<1>1. ASSUME NEW c \in Call, Enter(c) \/ Wake(c) \/ CancelQueued(c)
      PROVE  Typed'
  BY <1>1, QueuedStepEnds, EndsTyped
<1>2. ASSUME NEW c \in Call, CallStep(c)
      PROVE  Typed'
  BY <1>1, <1>2, LandingTyped, ServeTyped, FlagsTyped DEF CallStep
<1> QED
  BY <1>2, LedgerOnlyTyped, FlagsTyped DEF Next

-----------------------------------------------------------------------------
\* Every variable keeps its type, for any number of calls: apiFetch never
\* drives a counter below zero and never records a weight that is no number.
THEOREM TypeCorrect == Spec => []TypeOK
<1>1. Typed => TypeOK
  BY DEF Typed
<1> QED
  BY <1>1, InitTyped, NextTyped, PTL DEF Spec

\* The ledger dominates every header of the running window, whatever the
\* order in which answers of this minute and of the last are handled.
THEOREM LedgerDominates == Spec => []LedgerDominatesHeader
<1>1. Typed => LedgerDominatesHeader
  BY DEF Typed
<1> QED
  BY <1>1, InitTyped, NextTyped, PTL DEF Spec

-----------------------------------------------------------------------------
(* The counters are exact.  QueueCounts(q, S) says that the counters in q  *)
(* count the calls of S, FlightCounts the same of s.inflight; entering and *)
(* leaving add and remove one call.                                        *)

\* The calls of S that f puts into class p.
Class(S, f, p) == {c \in S : f[c] = p}

QueueCounts(q, S) ==
    /\ q.waiting = Cardinality(S)
    /\ \A p \in Priority : q.by[p] = Cardinality(Class(S, BasePriority, p))

FlightCounts(fl, S, ln) ==
    /\ fl.total = Cardinality(S)
    /\ \A p \in Priority : fl.by[p] = Cardinality(Class(S, ln, p))

\* Adding a call to S, or taking it out, moves the count of one class only.
LEMMA SizeGrows ==
  ASSUME NEW S \in SUBSET Call, NEW c \in Call, c \notin S
  PROVE  Cardinality(S) \in Nat /\ Cardinality(S \cup {c}) = Cardinality(S) + 1
<1>1. IsFiniteSet(S)
  BY CallAssumption, FS_Subset
<1> QED
  BY <1>1, FS_AddElement, FS_CardinalityType

LEMMA SizeShrinks ==
  ASSUME NEW S \in SUBSET Call, NEW c \in S
  PROVE  Cardinality(S \ {c}) = Dec(Cardinality(S))
<1>1. /\ S \ {c} \in SUBSET Call /\ c \in Call /\ c \notin S \ {c}
      /\ (S \ {c}) \cup {c} = S
  OBVIOUS
<1>2. Cardinality(S \ {c}) \in Nat /\ Cardinality(S) = Cardinality(S \ {c}) + 1
  BY <1>1, SizeGrows
<1> QED
  BY <1>2 DEF Dec

LEMMA ClassGrows ==
  ASSUME NEW S \in SUBSET Call, NEW c \in Call, c \notin S,
         NEW f \in [Call -> Priority], NEW p \in Priority, f[c] = p
  PROVE  Cardinality(Class(S \cup {c}, f, p)) = Cardinality(Class(S, f, p)) + 1
<1>1. Class(S \cup {c}, f, p) = Class(S, f, p) \cup {c}
  BY DEF Class
<1>2. Class(S, f, p) \in SUBSET Call /\ c \notin Class(S, f, p)
  BY DEF Class
<1> QED
  BY <1>1, <1>2, SizeGrows

LEMMA ClassShrinks ==
  ASSUME NEW S \in SUBSET Call, NEW c \in S,
         NEW f \in [Call -> Priority], NEW p \in Priority, f[c] = p
  PROVE  Cardinality(Class(S \ {c}, f, p)) = Dec(Cardinality(Class(S, f, p)))
<1>1. Class(S \ {c}, f, p) = Class(S, f, p) \ {c}
  BY DEF Class
<1>2. Class(S, f, p) \in SUBSET Call /\ c \in Class(S, f, p)
  BY DEF Class
<1> QED
  BY <1>1, <1>2, SizeShrinks

LEMMA ClassUntouched ==
  ASSUME NEW S \in SUBSET Call, NEW c \in Call,
         NEW f \in [Call -> Priority], NEW p \in Priority, f[c] # p
  PROVE  Class(S \cup {c}, f, p) = Class(S, f, p) /\ Class(S \ {c}, f, p) = Class(S, f, p)
BY DEF Class

LEMMA EnterCounts ==
  ASSUME NEW q \in QueueType, NEW S \in SUBSET Call, NEW c \in Call, c \notin S,
         QueueCounts(q, S)
  PROVE  QueueCounts(EnterQueue(q, c), S \cup {c})
<1>1. q.by \in [Priority -> Nat] /\ BasePriority \in [Call -> Priority]
  BY CallAssumption DEF QueueType, Counters
<1>2. Cardinality(S \cup {c}) = q.waiting + 1
  BY SizeGrows DEF QueueCounts
<1>3. EnterQueue(q, c).by = [q.by EXCEPT ![BasePriority[c]] = @ + 1]
  BY DEF EnterQueue
<1>4. ASSUME NEW p \in Priority
      PROVE  Cardinality(Class(S \cup {c}, BasePriority, p)) = EnterQueue(q, c).by[p]
  <2>1. Cardinality(Class(S, BasePriority, p)) = q.by[p]
    BY DEF QueueCounts
  <2>2. CASE BasePriority[c] = p
    <3>1. Cardinality(Class(S \cup {c}, BasePriority, p)) = Cardinality(Class(S, BasePriority, p)) + 1
      BY <1>1, <2>2, ClassGrows
    <3> QED
      BY <1>1, <1>3, <2>1, <2>2, <3>1
  <2>3. CASE BasePriority[c] # p
    <3>1. Cardinality(Class(S \cup {c}, BasePriority, p)) = Cardinality(Class(S, BasePriority, p))
      BY <1>1, <2>3, ClassUntouched
    <3> QED
      BY <1>1, <1>3, <2>1, <2>3, <3>1
  <2> QED
    BY <2>2, <2>3
<1> QED
  BY <1>2, <1>4 DEF QueueCounts, EnterQueue

LEMMA LeaveCounts ==
  ASSUME NEW q \in QueueType, NEW S \in SUBSET Call, NEW c \in S, QueueCounts(q, S)
  PROVE  QueueCounts(LeaveQueue(q, c), S \ {c})
<1>1. q.by \in [Priority -> Nat] /\ BasePriority \in [Call -> Priority]
  BY CallAssumption DEF QueueType, Counters
<1>2. Cardinality(S \ {c}) = Dec(q.waiting)
  BY SizeShrinks DEF QueueCounts
<1>3. LeaveQueue(q, c).by = [q.by EXCEPT ![BasePriority[c]] = Dec(@)]
  BY DEF LeaveQueue
<1>4. ASSUME NEW p \in Priority
      PROVE  Cardinality(Class(S \ {c}, BasePriority, p)) = LeaveQueue(q, c).by[p]
  <2>1. Cardinality(Class(S, BasePriority, p)) = q.by[p]
    BY DEF QueueCounts
  <2>2. CASE BasePriority[c] = p
    <3>1. Cardinality(Class(S \ {c}, BasePriority, p)) = Dec(Cardinality(Class(S, BasePriority, p)))
      BY <1>1, <2>2, ClassShrinks
    <3> QED
      BY <1>1, <1>3, <2>1, <2>2, <3>1
  <2>3. CASE BasePriority[c] # p
    <3>1. Cardinality(Class(S \ {c}, BasePriority, p)) = Cardinality(Class(S, BasePriority, p))
      BY <1>1, <2>3, ClassUntouched
    <3> QED
      BY <1>1, <1>3, <2>1, <2>3, <3>1
  <2> QED
    BY <2>2, <2>3
<1> QED
  BY <1>2, <1>4 DEF QueueCounts, LeaveQueue

LEMMA TakeOffCounts ==
  ASSUME flight \in FlightType, NEW S \in SUBSET Call, NEW c \in Call, c \notin S,
         NEW ln \in [Call -> Priority], FlightCounts(flight, S, ln), TakeOff(ln[c])
  PROVE  FlightCounts(flight', S \cup {c}, ln)
<1>1. flight.by \in [Priority -> Nat]
  BY DEF FlightType, Counters
<1>2. Cardinality(S \cup {c}) = flight.total + 1
  BY SizeGrows DEF FlightCounts
<1>3. flight'.by = [flight.by EXCEPT ![ln[c]] = @ + 1] /\ flight'.total = flight.total + 1
  BY DEF TakeOff
<1>4. ASSUME NEW p \in Priority
      PROVE  Cardinality(Class(S \cup {c}, ln, p)) = flight'.by[p]
  <2>1. Cardinality(Class(S, ln, p)) = flight.by[p]
    BY DEF FlightCounts
  <2>2. CASE ln[c] = p
    <3>1. Cardinality(Class(S \cup {c}, ln, p)) = Cardinality(Class(S, ln, p)) + 1
      BY <1>1, <2>2, ClassGrows
    <3> QED
      BY <1>1, <1>3, <2>1, <2>2, <3>1
  <2>3. CASE ln[c] # p
    <3>1. Cardinality(Class(S \cup {c}, ln, p)) = Cardinality(Class(S, ln, p))
      BY <1>1, <2>3, ClassUntouched
    <3> QED
      BY <1>1, <1>3, <2>1, <2>3, <3>1
  <2> QED
    BY <2>2, <2>3
<1> QED
  BY <1>2, <1>3, <1>4 DEF FlightCounts

LEMMA FinishCounts ==
  ASSUME flight \in FlightType, NEW S \in SUBSET Call, NEW c \in S,
         NEW ln \in [Call -> Priority], FlightCounts(flight, S, ln), FinishInflight(ln[c])
  PROVE  FlightCounts(flight', S \ {c}, ln)
<1>1. flight.by \in [Priority -> Nat]
  BY DEF FlightType, Counters
<1>2. Cardinality(S \ {c}) = Dec(flight.total)
  BY SizeShrinks DEF FlightCounts
<1>3. flight'.by = [flight.by EXCEPT ![ln[c]] = Dec(@)] /\ flight'.total = Dec(flight.total)
  BY DEF FinishInflight
<1>4. ASSUME NEW p \in Priority
      PROVE  Cardinality(Class(S \ {c}, ln, p)) = flight'.by[p]
  <2>1. Cardinality(Class(S, ln, p)) = flight.by[p]
    BY DEF FlightCounts
  <2>2. CASE ln[c] = p
    <3>1. Cardinality(Class(S \ {c}, ln, p)) = Dec(Cardinality(Class(S, ln, p)))
      BY <1>1, <2>2, ClassShrinks
    <3> QED
      BY <1>1, <1>3, <2>1, <2>2, <3>1
  <2>3. CASE ln[c] # p
    <3>1. Cardinality(Class(S \ {c}, ln, p)) = Cardinality(Class(S, ln, p))
      BY <1>1, <2>3, ClassUntouched
    <3> QED
      BY <1>1, <1>3, <2>1, <2>3, <3>1
  <2> QED
    BY <2>2, <2>3
<1> QED
  BY <1>2, <1>3, <1>4 DEF FlightCounts

LEMMA CountersAreCounts ==
  /\ CountersExact <=> QueueCounts(queue, Queued) /\ FlightCounts(flight, InFlight, lane)
  /\ CountersExact' <=> QueueCounts(queue', Queued') /\ FlightCounts(flight', InFlight', lane')
BY Zenon DEF CountersExact, QueueCounts, FlightCounts, Class

LEMMA EndsCounted ==
  ASSUME Typed, NEW c \in Call, pc[c] \in {"idle"} \cup Asleep,
         NEW q \in QueueType, Ends(c, q),
         QueueCounts(q, Queued \cup {c}), FlightCounts(flight, InFlight, lane)
  PROVE  CountersExact'
<1> USE DEF GoTo, Asleep
<1>1. PICK l \in GoodLedger, p \in Priority :
        \/ \E stage \in Asleep : Sleep(c, stage, p, l, q)
        \/ FailQueued(c, l, q)
        \/ Launch(c, p, l, q)
  BY DEF Ends
<1>2. /\ pc \in [Call -> {"idle", "inflight", "settled"} \cup Asleep]
      /\ lane \in [Call -> Priority] /\ [lane EXCEPT ![c] = p] \in [Call -> Priority]
  BY DEF Typed, TypeOK
<1>3. c \notin InFlight /\ InFlight \in SUBSET Call /\ Queued \cup {c} \in SUBSET Call
  BY DEF InFlight, Queued
<1>4. ASSUME NEW ln \in [Call -> Priority], \A d \in InFlight : ln[d] = lane[d]
      PROVE  FlightCounts(flight, InFlight, ln)
  <2>1. \A p2 \in Priority : Class(InFlight, ln, p2) = Class(InFlight, lane, p2)
    BY <1>4 DEF Class
  <2> QED
    BY <2>1 DEF FlightCounts
<1>5. CASE \E stage \in Asleep : Sleep(c, stage, p, l, q)
  <2>1. PICK stage \in Asleep : Sleep(c, stage, p, l, q)
    BY <1>5
  <2>2. queue' = q /\ flight' = flight /\ lane' \in [Call -> Priority] /\ (\A d \in InFlight : lane'[d] = lane[d])
    BY <1>2, <1>3, <2>1 DEF Sleep
  <2>3. Queued' = Queued \cup {c} /\ InFlight' = InFlight
    BY <1>2, <2>1 DEF Sleep, Queued, InFlight
  <2> QED
    BY <1>4, <2>2, <2>3, CountersAreCounts
<1>6. CASE FailQueued(c, l, q)
  <2>1. queue' = LeaveQueue(q, c) /\ flight' = flight /\ lane' = lane
    BY <1>6 DEF FailQueued
  <2>2. Queued' = (Queued \cup {c}) \ {c} /\ InFlight' = InFlight
    BY <1>2, <1>6 DEF FailQueued, Queued, InFlight
  <2> QED
    BY <1>3, <2>1, <2>2, LeaveCounts, CountersAreCounts
<1>7. CASE Launch(c, p, l, q)
  <2>1. /\ queue' = LeaveQueue(q, c) /\ lane'[c] = p /\ TakeOff(lane'[c])
        /\ lane' \in [Call -> Priority]
        /\ \A d \in InFlight : lane'[d] = lane[d]
    BY <1>2, <1>3, <1>7 DEF Launch
  <2>2. Queued' = (Queued \cup {c}) \ {c} /\ InFlight' = InFlight \cup {c}
    BY <1>2, <1>7 DEF Launch, Queued, InFlight
  <2>3. FlightCounts(flight', InFlight', lane')
    BY <1>3, <1>4, <2>1, <2>2, TakeOffCounts DEF Typed, TypeOK, FlightType
  <2> QED
    BY <1>3, <2>1, <2>2, <2>3, LeaveCounts, CountersAreCounts
<1> QED
  BY <1>1, <1>5, <1>6, <1>7

LEMMA LandingCounted ==
  ASSUME Typed, CountersExact, NEW c \in Call, NetworkError(c) \/ Land(c)
  PROVE  CountersExact'
<1>1. /\ pc \in [Call -> {"idle", "inflight", "settled"} \cup Asleep]
      /\ lane \in [Call -> Priority] /\ flight \in FlightType
  BY DEF Typed, TypeOK, FlightType
<1>2. /\ pc[c] = "inflight" /\ pc' = [pc EXCEPT ![c] = "settled"]
      /\ queue' = queue /\ lane' = lane /\ FinishInflight(lane[c])
  BY DEF NetworkError, Land, DropOutdated, HandleResponse, GoTo
<1>3. c \in InFlight /\ InFlight \in SUBSET Call
  BY <1>2 DEF InFlight
<1>4. Queued' = Queued /\ InFlight' = InFlight \ {c}
  BY <1>1, <1>2 DEF Queued, InFlight, Asleep
<1>5. FlightCounts(flight', InFlight', lane')
  BY <1>1, <1>2, <1>3, <1>4, FinishCounts, CountersAreCounts
<1> QED
  BY <1>2, <1>4, <1>5, CountersAreCounts

LEMMA NextCounted == Typed /\ CountersExact /\ [Next]_vars => CountersExact'
<1> SUFFICES ASSUME Typed, CountersExact, [Next]_vars PROVE CountersExact'
  OBVIOUS
<1>1. ASSUME NEW c \in Call, Enter(c) \/ Wake(c) \/ CancelQueued(c)
      PROVE  CountersExact'
  <2>1. /\ Ends(c, QueueOf(c)) /\ QueueOf(c) \in QueueType
        /\ pc[c] \in {"idle"} \cup Asleep
    BY <1>1, QueuedStepEnds
  <2>2. queue \in QueueType /\ Queued \in SUBSET Call
    BY DEF Typed, TypeOK, QueueType, Queued
  <2>3. QueueCounts(QueueOf(c), Queued \cup {c})
    <3>1. CASE pc[c] = "idle"
      <4>1. c \notin Queued
        BY <3>1 DEF Queued, Asleep
      <4> QED
        BY <2>2, <3>1, <4>1, EnterCounts, CountersAreCounts DEF QueueOf
    <3>2. CASE pc[c] \in Asleep
      <4>1. Queued \cup {c} = Queued /\ QueueOf(c) = queue
        BY <3>2 DEF Queued, QueueOf, Asleep
      <4> QED
        BY <4>1, CountersAreCounts
    <3> QED
      BY <2>1, <3>1, <3>2
  <2> QED
    BY <2>1, <2>3, EndsCounted, CountersAreCounts
<1>2. CASE UNCHANGED <<pc, lane, queue, flight>>
  BY <1>2 DEF CountersExact, InFlight, Queued
<1>3. ASSUME NEW c \in Call, CallStep(c)
      PROVE  CountersExact'
  BY <1>1, <1>2, <1>3, LandingCounted DEF CallStep, Serve, WaitBudgetPasses
<1>4. CASE \/ \E run \in Run : EndRun(run)
           \/ Observe \/ MinuteTurns \/ BanEnds \/ BackoffEnds \/ UNCHANGED vars
  BY <1>2, <1>4 DEF EndRun, Observe, MinuteTurns, BanEnds, BackoffEnds, vars
<1> QED
  BY <1>3, <1>4 DEF Next

LEMMA InitCounted == Init => CountersExact
<1> SUFFICES ASSUME Init PROVE CountersExact
  OBVIOUS
<1>1. Queued = {} /\ InFlight = {}
  BY DEF Init, Queued, InFlight, Asleep
<1>2. \A f, p : Class({}, f, p) = {}
  BY DEF Class
<1>3. queue.waiting = 0 /\ flight.total = 0
  BY DEF Init
<1>4. \A p \in Priority : queue.by[p] = 0 /\ flight.by[p] = 0
  BY DEF Init, NoneYet
<1> QED
  BY <1>1, <1>2, <1>3, <1>4, FS_EmptySet, CountersAreCounts DEF QueueCounts, FlightCounts

\* No path through apiFetch leaks a slot or a queue entry: the counters that
\* the concurrency ceilings read are always the true numbers of calls.
THEOREM CountersAreExact == Spec => []CountersExact
<1>1. Init => Typed /\ CountersExact
  BY InitTyped, InitCounted
<1>2. (Typed /\ CountersExact) /\ [Next]_vars => (Typed /\ CountersExact)'
  BY NextTyped, NextCounted
<1> QED
  BY <1>1, <1>2, PTL DEF Spec

-----------------------------------------------------------------------------
(* What a launch may rely on.  Prudent(c): c sleeps for spacing only in a *)
(* lane that has spacing, and takes off as CRITICAL only into a free slot; *)
(* the other calls stay where they are.                                    *)

SpacedLanes == \A c \in Call : pc[c] = "spacing" => lane[c] # "CRITICAL"

Prudent(c) ==
    /\ \A d \in Call \ {c} : pc'[d] = pc[d] /\ lane'[d] = lane[d]
    /\ pc'[c] = "spacing" => lane'[c] # "CRITICAL"
    /\ Launches(c) /\ lane'[c] = "CRITICAL" => flight.total < MAX_CONCURRENT

LEMMA SpaceIsPrudent ==
  ASSUME TypeOK, NEW c \in Call, NEW l, NEW q, Space(c, l, q),
         flight.total < MAX_CONCURRENT
  PROVE  Prudent(c)
<1>1. pc \in [Call -> {"idle", "inflight", "settled"} \cup Asleep] /\ lane \in [Call -> Priority]
  BY DEF TypeOK
<1>2. CASE pc'[c] = "spacing" /\ \E l1 : Sleep(c, "spacing", EffectivePriority(c, l), l1, q)
             /\ EffectivePriority(c, l) # "CRITICAL"
  BY <1>1, <1>2 DEF Sleep, GoTo, Prudent, Launches
<1>3. CASE \E l1 : Launch(c, EffectivePriority(c, l), l1, q)
  BY <1>1, <1>3 DEF Launch, GoTo, Prudent, Launches
<1> QED
  BY <1>1, <1>2, <1>3 DEF Space, Sleep, GoTo

LEMMA SlotIsPrudent ==
  ASSUME TypeOK, NEW c \in Call, NEW l, NEW q, Slot(c, l, q)
  PROVE  Prudent(c)
<1> DEFINE l1 == IF banned \/ backoff THEN l ELSE RollWindowIfNeeded(l)
           p  == EffectivePriority(c, l)
<1>1. pc \in [Call -> {"idle", "inflight", "settled"} \cup Asleep] /\ lane \in [Call -> Priority]
  BY DEF TypeOK
<1>2. CASE flight.total < ConcurrencyCeiling(p, l1) /\ Space(c, l1, q)
  <2>1. flight.total \in Nat
    BY DEF TypeOK
  <2>2. ConcurrencyCeiling(p, l1) \in Int /\ ConcurrencyCeiling(p, l1) <= MAX_CONCURRENT
    BY TableAssumption DEF ConcurrencyCeiling
  <2>3. flight.total < MAX_CONCURRENT
    <3> HIDE DEF p, l1
    <3> QED
      BY <1>2, <2>1, <2>2, TableAssumption
  <2> QED
    BY <1>2, <2>3, SpaceIsPrudent
<1>3. CASE FailQueued(c, l1, q)
  BY <1>1, <1>3 DEF FailQueued, GoTo, Prudent, Launches
<1>4. CASE Sleep(c, "slot", lane[c], l1, q)
  BY <1>1, <1>4 DEF Sleep, GoTo, Prudent, Launches
<1> QED
  BY <1>2, <1>3, <1>4 DEF Slot

LEMMA GateIsPrudent ==
  ASSUME TypeOK, NEW c \in Call, NEW l, NEW q, Gate(c, l, q)
  PROVE  Prudent(c)
<1>1. pc \in [Call -> {"idle", "inflight", "settled"} \cup Asleep] /\ lane \in [Call -> Priority]
  BY DEF TypeOK
<1>2. \/ Slot(c, RollWindowIfNeeded(l), q)
      \/ \E l1 : FailQueued(c, l1, q) \/ Sleep(c, "budget", lane[c], l1, q)
  BY DEF Gate
<1>3. CASE \E l1 : FailQueued(c, l1, q)
  BY <1>1, <1>3 DEF FailQueued, GoTo, Prudent, Launches
<1>4. CASE \E l1 : Sleep(c, "budget", lane[c], l1, q)
  BY <1>1, <1>4 DEF Sleep, GoTo, Prudent, Launches
<1> QED
  BY <1>2, <1>3, <1>4, SlotIsPrudent

LEMMA CallIsPrudent ==
  ASSUME TypeOK, SpacedLanes, NEW c \in Call, CallStep(c)
  PROVE  Prudent(c)
<1>1. pc \in [Call -> {"idle", "inflight", "settled"} \cup Asleep] /\ lane \in [Call -> Priority]
  BY DEF TypeOK
<1>2. CASE Enter(c)
  <2>1. \E l, q : FailQueued(c, l, q) \/ Gate(c, l, q)
    BY <1>2 DEF Enter
  <2>2. CASE \E l, q : FailQueued(c, l, q)
    BY <1>1, <2>2 DEF FailQueued, GoTo, Prudent, Launches
  <2> QED
    BY <2>1, <2>2, GateIsPrudent
<1>3. CASE WakeInBudgetLoop(c)
  BY <1>3, GateIsPrudent DEF WakeInBudgetLoop
<1>4. CASE WakeInConcurrencyLoop(c)
  BY <1>4, SlotIsPrudent DEF WakeInConcurrencyLoop
<1>5. CASE WakeFromSpacing(c)
  BY <1>1, <1>5 DEF WakeFromSpacing, Launch, GoTo, Prudent, Launches, SpacedLanes
<1>6. CASE CancelQueued(c)
  BY <1>1, <1>6 DEF CancelQueued, FailQueued, GoTo, Prudent, Launches
<1>7. CASE NetworkError(c) \/ Land(c)
  BY <1>1, <1>7 DEF NetworkError, Land, DropOutdated, HandleResponse, GoTo, Prudent, Launches
<1>8. CASE Serve(c) \/ WaitBudgetPasses(c)
  <2>1. UNCHANGED <<pc, lane>>
    BY <1>8 DEF Serve, WaitBudgetPasses
  <2> QED
    BY <2>1 DEF Prudent, Launches, SpacedLanes
<1> QED
  BY <1>2, <1>3, <1>4, <1>5, <1>6, <1>7, <1>8 DEF CallStep, Wake

LEMMA StepIsPrudent ==
  ASSUME TypeOK, SpacedLanes, [Next]_vars
  PROVE  \/ \E c \in Call : CallStep(c) /\ Prudent(c)
         \/ UNCHANGED <<pc, lane>>
<1>1. CASE \E c \in Call : CallStep(c)
  BY <1>1, CallIsPrudent
<1>2. CASE \E run \in Run : EndRun(run)
  BY <1>2 DEF EndRun
<1>3. CASE Observe \/ MinuteTurns \/ BanEnds \/ BackoffEnds
  BY <1>3 DEF Observe, MinuteTurns, BanEnds, BackoffEnds
<1> QED
  BY <1>1, <1>2, <1>3 DEF Next, vars

LEMMA LanesStaySpaced == TypeOK /\ SpacedLanes /\ [Next]_vars => SpacedLanes'
  BY StepIsPrudent DEF SpacedLanes, Prudent

\* A CRITICAL call takes off only into a free slot, whatever the others have
\* overbooked and however long the others slept for spacing.
THEOREM CriticalFindsASlot == Spec => CriticalTakesAFreeSlot
<1>1. Init => SpacedLanes
  BY CallAssumption DEF Init, SpacedLanes
<1>2. TypeOK /\ SpacedLanes /\ [Next]_vars
      => \A c \in Call : Launches(c) /\ lane'[c] = "CRITICAL" => flight.total < MAX_CONCURRENT
  <2> SUFFICES ASSUME TypeOK, SpacedLanes, [Next]_vars, NEW c \in Call,
                      Launches(c), lane'[c] = "CRITICAL"
               PROVE  flight.total < MAX_CONCURRENT
    OBVIOUS
  <2> QED
    BY StepIsPrudent DEF Prudent, Launches
<1>3. TypeOK /\ SpacedLanes /\ [Next]_vars
      => [\A c \in Call : Launches(c) /\ lane'[c] = "CRITICAL"
            => flight.total < MAX_CONCURRENT]_vars
  BY <1>2
<1> QED
  BY <1>1, <1>3, LanesStaySpaced, TypeCorrect, PTL DEF Spec, CriticalTakesAFreeSlot

-----------------------------------------------------------------------------
(* A launch that overtakes nobody.  The gate, the concurrency loop and the *)
(* spacing compute the lane again, each from the ledger it finds; in one   *)
(* step that is the same rolled ledger.  A wait that lasted into the next  *)
(* minute was counted with its run, and its lane then falls back: there    *)
(* WeightAssumption is needed.                                             *)

Within(c) == pc'[c] = "inflight" => ledger'.committed <= LaneCeiling(lane'[c])

LEMMA CeilingType ==
  ASSUME NEW p
  PROVE  LaneCeiling(p) \in Int
BY TableAssumption DEF LaneCeiling

LEMMA SpaceWithin ==
  ASSUME TypeOK, NEW c \in Call, NEW l \in GoodLedger, ~l.stale, NEW q,
         CanLaunch(EffectivePriority(c, l), c, l), Space(c, l, q)
  PROVE  Within(c)
<1> DEFINE p == EffectivePriority(c, l)
<1>1. pc \in [Call -> {"idle", "inflight", "settled"} \cup Asleep] /\ lane \in [Call -> Priority]
  BY DEF TypeOK
<1>2. Launch(c, p, l, q) \/ Sleep(c, "spacing", p, l, q)
  BY DEF Space, RollWindowIfNeeded
<1>3. CASE Sleep(c, "spacing", p, l, q)
  BY <1>1, <1>3 DEF Sleep, GoTo, Within
<1>4. CASE Launch(c, p, l, q)
  <2>1. l \in LedgerType /\ Weight[c] \in Nat
    BY CallAssumption DEF GoodLedger
  <2>2. Commit(l, c).committed = l.committed + Weight[c] /\ ~Commit(l, c).stale
    BY <2>1 DEF Commit, LedgerType
  <2>3. ledger'.committed = l.committed + Weight[c]
    BY <1>4, <2>2 DEF Launch, RollWindowIfNeeded
  <2>4. lane'[c] = p
    BY <1>1, <1>4 DEF Launch
  <2>5. EffectiveWeight(l) \in Nat /\ l.committed <= EffectiveWeight(l)
    BY <2>1 DEF EffectiveWeight, Larger, LedgerType
  <2>6. EffectiveWeight(l) + Weight[c] <= LaneCeiling(p)
    BY DEF CanLaunch
  <2>7. LaneCeiling(p) \in Int /\ l.committed \in Nat
    BY <2>1, CeilingType DEF LedgerType
  <2> HIDE DEF p
  <2> QED
    BY <2>1, <2>3, <2>4, <2>5, <2>6, <2>7 DEF Within
<1> QED
  BY <1>2, <1>3, <1>4

LEMMA SlotWithin ==
  ASSUME TypeOK, NEW c \in Call, NEW l \in GoodLedger, ~l.stale, NEW q,
         CanLaunch(EffectivePriority(c, l), c, l), Slot(c, l, q)
  PROVE  Within(c)
<1>1. pc \in [Call -> {"idle", "inflight", "settled"} \cup Asleep]
  BY DEF TypeOK
<1>2. \/ Space(c, l, q) \/ FailQueued(c, l, q) \/ Sleep(c, "slot", lane[c], l, q)
  BY DEF Slot, RollWindowIfNeeded
<1>3. CASE FailQueued(c, l, q) \/ Sleep(c, "slot", lane[c], l, q)
  BY <1>1, <1>3 DEF FailQueued, Sleep, GoTo, Within
<1> QED
  BY <1>2, <1>3, SpaceWithin

\* A ledger that was just rolled has room for any call in the lane it was born in.
LEMMA RolledHasRoom ==
  ASSUME NEW c \in Call, NEW l \in GoodLedger, l.stale
  PROVE  LET r == RollWindowIfNeeded(l)
         IN  ~r.stale /\ CanLaunch(EffectivePriority(c, r), c, r)
<1> DEFINE r == RollWindowIfNeeded(l)
<1>1. l \in LedgerType
  BY DEF GoodLedger
<1>2. ~r.stale /\ r.committed = 0 /\ r.runs = {} /\ ~r.fresh
  BY <1>1 DEF RollWindowIfNeeded, LedgerType
<1> HIDE DEF r
<1>3. EffectivePriority(c, r) = BasePriority[c]
  BY <1>2 DEF EffectivePriority
<1>4. EffectiveWeight(r) = 0
  BY <1>2 DEF EffectiveWeight, Larger
<1>5. Weight[c] \in Nat /\ Weight[c] <= LaneCeiling(BasePriority[c])
  BY CallAssumption, WeightAssumption
<1>6. CanLaunch(EffectivePriority(c, r), c, r)
  <2>1. EffectiveWeight(r) + Weight[c] = Weight[c]
    BY <1>4, <1>5
  <2> QED
    BY <1>3, <1>5, <2>1 DEF CanLaunch
<1> QED
  BY <1>2, <1>6 DEF r

LEMMA GateWithin ==
  ASSUME TypeOK, NEW c \in Call, NEW l \in GoodLedger, NEW q, Gate(c, l, q)
  PROVE  Within(c)
<1> DEFINE r == RollWindowIfNeeded(l)
<1>1. pc \in [Call -> {"idle", "inflight", "settled"} \cup Asleep]
  BY DEF TypeOK
<1>2. \/ CanLaunch(EffectivePriority(c, l), c, r) /\ Slot(c, r, q)
      \/ \E l1 : FailQueued(c, l1, q) \/ Sleep(c, "budget", lane[c], l1, q)
  BY DEF Gate
<1>3. CASE \E l1 : FailQueued(c, l1, q) \/ Sleep(c, "budget", lane[c], l1, q)
  BY <1>1, <1>3 DEF FailQueued, Sleep, GoTo, Within
<1>4. CASE CanLaunch(EffectivePriority(c, l), c, r) /\ Slot(c, r, q)
  <2>1. r \in GoodLedger
    BY RollIsGood
  <2>2. ~r.stale /\ CanLaunch(EffectivePriority(c, r), c, r)
    <3>1. CASE l.stale
      BY <3>1, RolledHasRoom
    <3>2. CASE ~l.stale
      BY <1>4, <3>2 DEF RollWindowIfNeeded
    <3> QED
      BY <3>1, <3>2
  <2> HIDE DEF r
  <2> QED
    BY <1>4, <2>1, <2>2, SlotWithin
<1> QED
  BY <1>2, <1>3, <1>4

LEMMA LaunchIsDirect ==
  ASSUME Typed, [Next]_vars, NEW c \in Call, Launches(c), pc[c] \in {"idle", "budget"}
  PROVE  Within(c)
<1>1. TypeOK /\ ledger \in GoodLedger /\ RollWindowIfNeeded(ledger) \in GoodLedger
  BY TypedLedger, RollIsGood DEF Typed
<1>2. pc \in [Call -> {"idle", "inflight", "settled"} \cup Asleep]
  BY <1>1 DEF TypeOK
<1>3. \E d \in Call : CallStep(d)
  BY DEF Next, EndRun, Observe, MinuteTurns, BanEnds, BackoffEnds, Launches, vars
<1>4. PICK d \in Call : CallStep(d)
  BY <1>3
<1>5. CASE Enter(d)
  <2>1. PICK q : \/ FailQueued(d, RollWindowIfNeeded(ledger), q)
                 \/ Gate(d, RollWindowIfNeeded(ledger), q)
    BY <1>5 DEF Enter
  <2>2. CASE FailQueued(d, RollWindowIfNeeded(ledger), q)
    BY <1>2, <2>2 DEF FailQueued, GoTo, Launches
  <2>3. CASE Gate(d, RollWindowIfNeeded(ledger), q)
    <3>1. Within(d) /\ Prudent(d)
      BY <1>1, <2>3, GateWithin, GateIsPrudent
    <3> QED
      BY <3>1 DEF Prudent, Launches
  <2> QED
    BY <2>1, <2>2, <2>3
<1>6. CASE WakeInBudgetLoop(d)
  <2>1. Within(d) /\ Prudent(d)
    BY <1>1, <1>6, GateWithin, GateIsPrudent DEF WakeInBudgetLoop
  <2> QED
    BY <2>1 DEF Prudent, Launches
<1>7. CASE WakeInConcurrencyLoop(d)
  <2>1. d # c /\ Prudent(d)
    BY <1>1, <1>7, SlotIsPrudent DEF WakeInConcurrencyLoop
  <2> QED
    BY <2>1 DEF Prudent, Launches
<1>8. CASE WakeFromSpacing(d)
  BY <1>2, <1>8 DEF WakeFromSpacing, Launch, GoTo, Launches
<1>9. CASE CancelQueued(d)
  BY <1>2, <1>9 DEF CancelQueued, FailQueued, GoTo, Launches
<1>10. CASE NetworkError(d) \/ Land(d)
  BY <1>2, <1>10 DEF NetworkError, Land, DropOutdated, HandleResponse, GoTo, Launches
<1>11. CASE Serve(d) \/ WaitBudgetPasses(d)
  BY <1>11 DEF Serve, WaitBudgetPasses, Launches
<1> QED
  BY <1>4, <1>5, <1>6, <1>7, <1>8, <1>9, <1>10, <1>11 DEF CallStep, Wake

\* A call that passes its gate and takes off without a sleep in between never
\* overspends its lane, whoever else spends and whenever the minute turns.
THEOREM DirectLaunchesFit == Spec => DirectLaunchWithinLane
<1>1. Typed /\ [Next]_vars
      => \A c \in Call : Launches(c) /\ pc[c] \in {"idle", "budget"}
           => ledger'.committed <= LaneCeiling(lane'[c])
  BY LaunchIsDirect DEF Within, Launches
<1>2. Typed /\ [Next]_vars
      => [\A c \in Call : Launches(c) /\ pc[c] \in {"idle", "budget"}
            => ledger'.committed <= LaneCeiling(lane'[c])]_vars
  BY <1>1
<1> QED
  BY <1>2, InitTyped, NextTyped, PTL DEF Spec, DirectLaunchWithinLane

=============================================================================
