-------------------------- MODULE CloseCoordinator --------------------------
(***************************************************************************)
(* createLongLifecycleCloseCoordinator: the paths that watch a trade (REST *)
(* poll, aggTrade and bookTicker streams) submit close candidates; the     *)
(* first one opens an arbitration window, and when its timer fires one of  *)
(* the candidates collected wins and the trade's listener is called.       *)
(*                                                                         *)
(*     OPEN -> ARBITRATION_PENDING -> CLOSE_REQUESTED -> CLOSE_COMMITTED   *)
(*                                                                         *)
(* Every method is one synchronous step.  The callers are not constrained: *)
(* any method may be called at any moment, as the interface allows.  A     *)
(* candidate is one object a caller submits, so it is submitted once.      *)
(***************************************************************************)
EXTENDS Integers, Sequences, Functions

CONSTANTS
    Trade,          \* trade keys, "<canonicalTradeId>:<lifecycleRevision>"
    Candidate,
    TradeOf,        \* [Candidate -> Trade]: candidate.tradeKey
    Current,        \* candidates whose lifecycleRevision is the trade's
    EventTime,      \* [Candidate -> Nat \cup {NoTime}]: exchangeEventTime
    ObservedAt,     \* [Candidate -> Nat]
    TriggerRank,    \* [Candidate -> Nat]: TRIGGER_PRIORITY[triggerReason]
    Tolerance,      \* EQUAL_TIME_TOLERANCE_MS
    NoTime, NoCandidate,
    Undecided, Nobody

ASSUME CandidateAssumption ==
    /\ TradeOf \in [Candidate -> Trade]
    /\ Current \subseteq Candidate
    /\ EventTime \in [Candidate -> Nat \cup {NoTime}]
    /\ ObservedAt \in [Candidate -> Nat]
    /\ TriggerRank \in [Candidate -> Nat]
    /\ Tolerance \in Nat
    /\ NoTime \notin Nat

ASSUME MarkerAssumption ==
    /\ NoCandidate \notin Candidate
    /\ Undecided \notin Candidate /\ Nobody \notin Candidate
    /\ Undecided # Nobody

VARIABLES
    entry,       \* _trades: the entry of each trade, state ABSENT if it has none
    timer,       \* trades whose arbitration timer is scheduled
    told,        \* winners the trade's listener was called with, in this entry
    sent,        \* candidates submitted so far
    destroyed    \* _destroyed

vars == <<entry, timer, told, sent, destroyed>>

Entry(state) == [state |-> state, candidates |-> <<>>, suppressed |-> {},
                 winner |-> NoCandidate, listening |-> FALSE,
                 lastCommitted |-> NoTime]

Absent  == Entry("ABSENT")
Present(t) == entry[t].state # "ABSENT"
Settled(t) == entry[t].state \in {"CLOSE_REQUESTED", "CLOSE_COMMITTED"}

-----------------------------------------------------------------------------
(* selectWinner.  Freshness and source name, the last two tie-breaks, are  *)
(* left out: candidates that differ in nothing else are equal here, and    *)
(* the stable sort leaves them in the order of their submission.           *)

HasTime(c) == EventTime[c] # NoTime

Apart(m, n) == m - n > Tolerance \/ n - m > Tolerance

\* Event times decide between a and b; if they do not, the observation does.
TimesDecide(a, b) ==
    \/ HasTime(a) # HasTime(b)
    \/ HasTime(a) /\ HasTime(b) /\ Apart(EventTime[a], EventTime[b])

\* The comparator returns a negative number.
Before(a, b) ==
    CASE TimesDecide(a, b) -> HasTime(a) /\ (HasTime(b) => EventTime[a] < EventTime[b])
      [] ~TimesDecide(a, b) /\ Apart(ObservedAt[a], ObservedAt[b]) ->
            ObservedAt[a] < ObservedAt[b]
      [] OTHER -> TriggerRank[a] < TriggerRank[b]

\* A comparator sorts only if it is a strict weak order of what it compares.
Consistent(C) ==
    \A a, b, c \in C :
        /\ Before(a, b) /\ Before(b, c) => Before(a, c)
        /\ Before(a, c) => Before(a, b) \/ Before(b, c)

First(s) == {s[i] : i \in {j \in DOMAIN s :
               /\ \A k \in DOMAIN s : ~Before(s[k], s[j])
               /\ \A k \in 1 .. j - 1 : Before(s[j], s[k])}}

\* Mutant of SelectWinner: the first callback wins.
FirstCallback(s) == IF s = <<>> THEN {} ELSE {s[1]}

\* The elements that the sort may put first.  How Array.prototype.sort orders
\* an array is left to the engine if the comparator is not consistent, and then
\* it depends on the order in which the candidates arrived.
SelectWinner(s) == IF Consistent(Range(s)) THEN First(s) ELSE Range(s)

-----------------------------------------------------------------------------
(* The methods.                                                            *)

RegisterTrade(t) ==
    /\ ~destroyed /\ ~Present(t)
    /\ entry' = [entry EXCEPT ![t] = Entry("OPEN")]
    /\ UNCHANGED <<timer, told, sent, destroyed>>

OnCloseRequested(t) ==
    /\ Present(t)
    /\ entry' = [entry EXCEPT ![t].listening = TRUE]
    /\ UNCHANGED <<timer, told, sent, destroyed>>

Suppressed(c, reason) == [entry[TradeOf[c]] EXCEPT !.suppressed = @ \cup {<<c, reason>>}]

Late(c) == LET last == entry[TradeOf[c]].lastCommitted
           IN  last # NoTime /\ HasTime(c) /\ EventTime[c] < last

Collected(c) == [entry[TradeOf[c]] EXCEPT
                   !.candidates = Append(@, c),
                   !.state = "ARBITRATION_PENDING"]

Accepts(c) == c \in Current /\ ~Settled(TradeOf[c]) /\ ~Late(c)

WhyNot(c) ==
    CASE c \notin Current -> "STALE_LIFECYCLE_REVISION"
      [] c \in Current /\ Settled(TradeOf[c]) -> "ALREADY_COMMITTED"
      [] OTHER -> "EVENT_BEFORE_LAST_COMMIT"

\* Mutant of StartsWindow: only a trade with a listener gets its timer.
StartsIfHeard(c) ==
    LET e == entry[TradeOf[c]] IN Accepts(c) /\ e.state = "OPEN" /\ e.listening

StartsWindow(c) == Accepts(c) /\ entry[TradeOf[c]].state = "OPEN"

Submit(c) ==
    LET t == TradeOf[c]
    IN  /\ ~destroyed /\ Present(t) /\ c \notin sent
        /\ sent' = sent \cup {c}
        /\ entry' = [entry EXCEPT ![t] =
             IF Accepts(c) THEN Collected(c) ELSE Suppressed(c, WhyNot(c))]
        /\ timer' = IF StartsWindow(c) THEN timer \cup {t} ELSE timer
        /\ UNCHANGED <<told, destroyed>>

\* _flush once it is past its early return.
Decide(t, w) ==
    /\ entry' = [entry EXCEPT
         ![t].state = "CLOSE_REQUESTED",
         ![t].winner = w,
         ![t].suppressed =
             @ \cup {<<c, "LOST_ARBITRATION">> : c \in Range(entry[t].candidates) \ {w}}]
    /\ told' = IF w # NoCandidate /\ entry[t].listening
               THEN [told EXCEPT ![t] = Append(@, w)] ELSE told

\* Mutant of Flush: no early return once a winner was selected.
FlushAgain(t) ==
    IF SelectWinner(entry[t].candidates) = {}
    THEN Decide(t, NoCandidate)
    ELSE \E w \in SelectWinner(entry[t].candidates) : Decide(t, w)

Flush(t) ==
    IF ~Present(t) \/ Settled(t) THEN UNCHANGED <<entry, told>>
    ELSE IF SelectWinner(entry[t].candidates) = {}
    THEN Decide(t, NoCandidate)
    ELSE \E w \in SelectWinner(entry[t].candidates) : Decide(t, w)

\* The arbitration window ends.
WindowEnds(t) ==
    /\ t \in timer
    /\ timer' = timer \ {t}
    /\ Flush(t)
    /\ UNCHANGED <<sent, destroyed>>

FlushTrade(t) ==
    /\ Present(t)
    /\ timer' = timer \ {t}
    /\ Flush(t)
    /\ UNCHANGED <<sent, destroyed>>

\* A timer that is pending stays so, and finds the trade settled when it fires.
CommitResolvedClose(t) ==
    /\ Present(t)
    /\ LET w == entry[t].winner
       IN  entry' = [entry EXCEPT
             ![t].state = "CLOSE_COMMITTED",
             ![t].lastCommitted = IF w # NoCandidate /\ HasTime(w) THEN EventTime[w] ELSE @]
    /\ UNCHANGED <<timer, told, sent, destroyed>>

CancelTrade(t) ==
    /\ Present(t)
    /\ entry' = [entry EXCEPT ![t] = Absent]
    /\ told' = [told EXCEPT ![t] = <<>>]
    /\ timer' = timer \ {t}
    /\ UNCHANGED <<sent, destroyed>>

\* The component that owns the coordinator unmounts.
Destroy ==
    /\ ~destroyed /\ destroyed' = TRUE
    /\ entry' = [t \in Trade |-> Absent]
    /\ told' = [t \in Trade |-> <<>>]
    /\ timer' = {}
    /\ UNCHANGED sent

-----------------------------------------------------------------------------
Init ==
    /\ entry = [t \in Trade |-> Absent]
    /\ timer = {}
    /\ told = [t \in Trade |-> <<>>]
    /\ sent = {}
    /\ destroyed = FALSE

Method(t) == \/ RegisterTrade(t) \/ OnCloseRequested(t) \/ FlushTrade(t)
             \/ CommitResolvedClose(t) \/ CancelTrade(t)

Next == \/ \E t \in Trade : Method(t) \/ WindowEnds(t)
        \/ \E c \in Candidate : Submit(c)
        \/ Destroy

\* The scheduler runs a pending timer, sooner or later.
Spec == Init /\ [][Next]_vars /\ \A t \in Trade : WF_vars(WindowEnds(t))

-----------------------------------------------------------------------------
(* Properties.                                                             *)

State  == {"ABSENT", "OPEN", "ARBITRATION_PENDING", "CLOSE_REQUESTED", "CLOSE_COMMITTED"}
Reason == {"STALE_LIFECYCLE_REVISION", "ALREADY_COMMITTED",
           "EVENT_BEFORE_LAST_COMMIT", "LOST_ARBITRATION"}

EntryType == [state : State, candidates : Seq(Candidate),
              suppressed : SUBSET (Candidate \X Reason),
              winner : Candidate \cup {NoCandidate}, listening : BOOLEAN,
              lastCommitted : Nat \cup {NoTime}]

\* The type of every variable.
TypeOK ==
    /\ entry \in [Trade -> EntryType]
    /\ timer \subseteq Trade
    /\ told \in [Trade -> Seq(Candidate)]
    /\ sent \subseteq Candidate
    /\ destroyed \in BOOLEAN

\* An open window always has its timer and at least one candidate: a trade
\* that is being arbitrated is never left without the callback that ends it,
\* and no timer of an earlier entry survives into an OPEN one.
WindowHasTimer ==
    \A t \in Trade :
        /\ entry[t].state = "ARBITRATION_PENDING" => t \in timer /\ entry[t].candidates # <<>>
        /\ entry[t].state \in {"ABSENT", "OPEN"} => t \notin timer /\ entry[t].candidates = <<>>

\* The audit trail of a trade whose close was requested loses nothing: every
\* candidate that was collected is the winner or is recorded as having lost.
EveryCandidateRecorded ==
    \A t \in Trade : entry[t].state = "CLOSE_REQUESTED" =>
        \A c \in Range(entry[t].candidates) :
            c = entry[t].winner \/ <<c, "LOST_ARBITRATION">> \in entry[t].suppressed

\* "earlier STOP_LOSS beats later TAKE_PROFIT regardless of callback order"
\* (the coordinator's test): no candidate that lost has an event time earlier
\* than the winner's by more than the tolerance.
EarlierEventWins ==
    \A t \in Trade : LET w == entry[t].winner IN
        w # NoCandidate /\ HasTime(w) =>
            \A c \in Range(entry[t].candidates) :
                HasTime(c) => EventTime[c] + Tolerance >= EventTime[w]

\* A window that was opened ends, whatever the callers do meanwhile.
WindowCloses ==
    \A t \in Trade :
        (entry[t].state = "ARBITRATION_PENDING") ~> (entry[t].state # "ARBITRATION_PENDING")

\* The coordinator keeps the promise of CloseVerdict.
Verdict(t) ==
    CASE ~Settled(t) -> Undecided
      [] Settled(t) /\ entry[t].winner = NoCandidate -> Nobody
      [] OTHER -> entry[t].winner

Promise == INSTANCE CloseVerdict WITH
    asked   <- [t \in Trade |-> Range(entry[t].candidates)],
    verdict <- [t \in Trade |-> Verdict(t)],
    heard   <- told

PromiseKept == Promise!Spec
=============================================================================
