---------------------- MODULE CloseCoordinator_proofs ----------------------
(* Proofs that CloseCoordinator keeps the promise of CloseVerdict, and of  *)
(* its safety invariants, for any set of trades and candidates, any order  *)
(* of the calls and any sort.  Which candidate wins is proved for windows  *)
(* whose candidates the comparator sorts.  CloseCoordinator_chain.cfg has  *)
(* one it does not sort: there the order of the callbacks decides.         *)
EXTENDS CloseCoordinator, TLAPS

\* What is true of one trade, given its entry, whether its timer is pending and
\* what its listener heard.  Beside the parts of WindowHasTimer and of
\* EveryCandidateRecorded: an undecided trade has no winner and has told nobody,
\* a winner was collected, and the listener heard at most that winner, once.
Good(e, pending, heard) ==
    /\ e.state = "ARBITRATION_PENDING" => pending /\ e.candidates # <<>>
    /\ e.state \in {"ABSENT", "OPEN"} => ~pending /\ e.candidates = <<>>
    /\ e.state = "CLOSE_REQUESTED" =>
         \A c \in Range(e.candidates) :
            c = e.winner \/ <<c, "LOST_ARBITRATION">> \in e.suppressed
    /\ e.state \notin {"CLOSE_REQUESTED", "CLOSE_COMMITTED"} =>
         e.winner = NoCandidate /\ heard = <<>>
    /\ e.winner # NoCandidate => e.winner \in Range(e.candidates)
    /\ heard = <<>> \/ heard = <<e.winner>>

Inv == TypeOK /\ \A t \in Trade : Good(entry[t], t \in timer, told[t])

-----------------------------------------------------------------------------
(* Facts about sequences and entries.                                      *)

LEMMA RangeAppend ==
    ASSUME NEW s \in Seq(Candidate), NEW c \in Candidate
    PROVE  /\ Range(Append(s, c)) = Range(s) \cup {c}
           /\ Append(s, c) \in Seq(Candidate)
           /\ Append(s, c) # <<>>
  BY DEF Range

LEMMA RangeEmpty == Range(<<>>) = {}
  BY DEF Range

LEMMA RangeType ==
    ASSUME NEW s \in Seq(Candidate)
    PROVE  Range(s) \subseteq Candidate
  BY DEF Range

\* Whatever the comparator does, the sort puts one of the candidates first.
LEMMA WinnerCollected ==
    ASSUME NEW s \in Seq(Candidate), NEW w \in SelectWinner(s)
    PROVE  w \in Range(s) /\ w \in Candidate
  BY RangeType DEF SelectWinner, First, Range

-----------------------------------------------------------------------------
(* The invariant.                                                          *)

\* Inv is the invariants that TLC checks, and what they rest on.
LEMMA InvGivesParts == Inv => TypeOK /\ WindowHasTimer /\ EveryCandidateRecorded
  BY DEF Inv, Good, WindowHasTimer, EveryCandidateRecorded

\* A step that changes one trade keeps Inv if it leaves that trade good.
LEMMA OneTrade ==
    ASSUME Inv, NEW t \in Trade,
           TypeOK',
           Good(entry'[t], t \in timer', told'[t]),
           \A u \in Trade \ {t} : /\ entry'[u] = entry[u]
                                   /\ told'[u] = told[u]
                                   /\ (u \in timer' <=> u \in timer)
    PROVE  Inv'
  <1>1. ASSUME NEW u \in Trade \ {t}
        PROVE  Good(entry'[u], u \in timer', told'[u])
    <2>1. Good(entry[u], u \in timer, told[u])
      BY DEF Inv
    <2>2. entry'[u] = entry[u] /\ told'[u] = told[u] /\ (u \in timer' <=> u \in timer)
      OBVIOUS
    <2> QED BY <2>1, <2>2, SMT DEF Good
  <1> QED BY <1>1 DEF Inv

LEMMA EmptyEntry ==
    ASSUME NEW state \in {"ABSENT", "OPEN"}, NEW t, NEW T, t \notin T
    PROVE  /\ Entry(state) \in EntryType
           /\ Good(Entry(state), t \in T, <<>>)
  BY RangeEmpty DEF Entry, EntryType, State, Good

LEMMA InitInv == Init => Inv
  <1> SUFFICES ASSUME Init PROVE Inv
    OBVIOUS
  <1>1. Absent \in EntryType
    BY DEF Absent, Entry, EntryType, State
  <1>2. TypeOK
    <2>1. <<>> \in Seq(Candidate)
      OBVIOUS
    <2> QED BY <1>1, <2>1 DEF Init, TypeOK
  <1>3. ASSUME NEW t \in Trade
        PROVE  Good(entry[t], t \in timer, told[t])
    <2>1. t \notin timer /\ told[t] = <<>> /\ entry[t] = Entry("ABSENT")
      BY DEF Init, Absent
    <2> QED BY <2>1, EmptyEntry
  <1> QED BY <1>2, <1>3 DEF Inv

LEMMA RegisterKeepsInv ==
    ASSUME Inv, NEW t \in Trade, RegisterTrade(t)
    PROVE  Inv'
  <1>1. TypeOK'
    BY EmptyEntry DEF Inv, TypeOK, RegisterTrade
  <1>2. t \notin timer /\ told[t] = <<>>
    BY DEF Inv, Good, RegisterTrade, Present
  <1>3. Good(entry'[t], t \in timer', told'[t])
    <2>1. t \notin timer' /\ told'[t] = <<>> /\ entry'[t] = Entry("OPEN")
      BY <1>2 DEF Inv, TypeOK, RegisterTrade
    <2> QED BY <2>1, EmptyEntry
  <1> QED BY <1>1, <1>3, OneTrade DEF RegisterTrade, Inv, TypeOK

LEMMA ListenKeepsInv ==
    ASSUME Inv, NEW t \in Trade, OnCloseRequested(t)
    PROVE  Inv'
  <1>1. TypeOK'
    BY DEF Inv, TypeOK, EntryType, OnCloseRequested
  <1>2. Good(entry'[t], t \in timer', told'[t])
    BY DEF Inv, TypeOK, EntryType, OnCloseRequested, Good
  <1> QED BY <1>1, <1>2, OneTrade DEF OnCloseRequested, Inv, TypeOK

LEMMA CommitKeepsInv ==
    ASSUME Inv, NEW t \in Trade, CommitResolvedClose(t)
    PROVE  Inv'
  <1> DEFINE w == entry[t].winner
             last == IF w # NoCandidate /\ HasTime(w) THEN EventTime[w]
                     ELSE entry[t].lastCommitted
  <1>1. last \in Nat \cup {NoTime}
    BY CandidateAssumption DEF Inv, TypeOK, EntryType, HasTime
  <1>2. entry' = [entry EXCEPT ![t].state = "CLOSE_COMMITTED", ![t].lastCommitted = last]
    BY Zenon DEF CommitResolvedClose
  <1> HIDE DEF last
  <1> DEFINE e == [entry[t] EXCEPT !.state = "CLOSE_COMMITTED", !.lastCommitted = last]
  <1>e. e \in EntryType
    BY <1>1 DEF Inv, TypeOK, EntryType, State
  <1>f. entry' = [entry EXCEPT ![t] = e]
    BY <1>2 DEF Inv, TypeOK, EntryType
  <1>3. TypeOK'
    BY <1>e, <1>f DEF Inv, TypeOK, CommitResolvedClose
  <1>4. Good(entry'[t], t \in timer', told'[t])
    BY <1>2 DEF Inv, TypeOK, EntryType, CommitResolvedClose, Good
  <1> QED BY <1>2, <1>3, <1>4, OneTrade DEF CommitResolvedClose, Inv, TypeOK

LEMMA CancelKeepsInv ==
    ASSUME Inv, NEW t \in Trade, CancelTrade(t)
    PROVE  Inv'
  <1>1. TypeOK'
    BY EmptyEntry DEF Inv, TypeOK, CancelTrade, Absent
  <1>2. Good(entry'[t], t \in timer', told'[t])
    <2>1. t \notin timer' /\ told'[t] = <<>> /\ entry'[t] = Entry("ABSENT")
      BY DEF Inv, TypeOK, CancelTrade, Absent
    <2> QED BY <2>1, EmptyEntry
  <1> QED BY <1>1, <1>2, OneTrade DEF CancelTrade, Inv, TypeOK

LEMMA DestroyKeepsInv == Inv /\ Destroy => Inv'
  <1> SUFFICES ASSUME Inv, Destroy PROVE Inv'
    OBVIOUS
  <1>1. Absent \in EntryType
    BY DEF Absent, Entry, EntryType, State
  <1>2. TypeOK'
    BY <1>1 DEF Inv, Destroy, TypeOK
  <1>3. ASSUME NEW t \in Trade
        PROVE  Good(entry'[t], t \in timer', told'[t])
    <2>1. t \notin timer' /\ told'[t] = <<>> /\ entry'[t] = Entry("ABSENT")
      BY DEF Destroy, Absent
    <2> QED BY <2>1, EmptyEntry
  <1> QED BY <1>2, <1>3 DEF Inv

LEMMA SubmitKeepsInv ==
    ASSUME Inv, NEW c \in Candidate, Submit(c)
    PROVE  Inv'
  <1> DEFINE t == TradeOf[c]
  <1>0. t \in Trade /\ entry[t] \in EntryType /\ Good(entry[t], t \in timer, told[t])
    BY CandidateAssumption DEF Inv, TypeOK
  <1>1. CASE Accepts(c)
    <2>1. entry' = [entry EXCEPT ![t] = Collected(c)]
      BY <1>1, Zenon DEF Submit
    <2>2. Collected(c) \in EntryType
      <3>1. Append(entry[t].candidates, c) \in Seq(Candidate)
        BY <1>0 DEF EntryType
      <3> QED BY <1>0, <3>1 DEF EntryType, State, Collected
    <2>3. timer' = timer \cup {t}
      BY <1>0, <1>1 DEF Submit, StartsWindow, Accepts, Settled, Inv, Good, TypeOK, EntryType, State, Present
    <2>4. TypeOK'
      BY <1>0, <2>1, <2>2, <2>3 DEF Submit, Inv, TypeOK
    <2>5. Good(Collected(c), TRUE, told[t])
      <3>1. /\ entry[t].candidates \in Seq(Candidate)
            /\ entry[t].winner = NoCandidate /\ told[t] = <<>>
        BY <1>0, <1>1 DEF Accepts, Settled, Good, EntryType, State
      <3>2. Append(entry[t].candidates, c) # <<>>
        BY <3>1, RangeAppend
      <3>3. /\ Collected(c).state = "ARBITRATION_PENDING"
            /\ Collected(c).candidates # <<>>
            /\ Collected(c).winner = NoCandidate
        BY <1>0, <3>1, <3>2 DEF Collected, EntryType
      <3> QED BY <3>1, <3>3 DEF Good
    <2>6. Good(entry'[t], t \in timer', told'[t])
      BY <1>0, <2>1, <2>3, <2>5 DEF Submit, Inv, TypeOK
    <2> QED BY <1>0, <2>1, <2>3, <2>4, <2>6, OneTrade DEF Submit, Inv, TypeOK
  <1>2. CASE ~Accepts(c)
    <2>1. PICK reason \in Reason : entry' = [entry EXCEPT ![t] = Suppressed(c, reason)]
      BY <1>2, Zenon DEF Submit, WhyNot, Reason
    <2>2. Suppressed(c, reason) \in EntryType
      BY <1>0 DEF Suppressed, EntryType, Reason
    <2>3. TypeOK'
      BY <1>0, <1>2, <2>1, <2>2 DEF Submit, StartsWindow, Inv, TypeOK
    <2>4. Good(Suppressed(c, reason), t \in timer, told[t])
      BY <1>0 DEF Suppressed, Inv, Good, TypeOK, EntryType
    <2>5. Good(entry'[t], t \in timer', told'[t])
      BY <1>0, <1>2, <2>1, <2>4 DEF Submit, StartsWindow, Inv, TypeOK
    <2> QED BY <1>0, <1>2, <2>1, <2>3, <2>5, OneTrade DEF Submit, StartsWindow, Inv, TypeOK
  <1> QED BY <1>1, <1>2

\* _flush decides with the winner, or with nobody if nothing was collected.
LEMMA DecideIsGood ==
    ASSUME Inv, NEW t \in Trade, NEW w \in Candidate \cup {NoCandidate},
           ~Settled(t), Decide(t, w),
           w # NoCandidate => w \in Range(entry[t].candidates)
    PROVE  /\ entry'[t] \in EntryType
           /\ told'[t] \in Seq(Candidate)
           /\ \A T : Good(entry'[t], t \in T, told'[t])
           /\ \E e, h : /\ entry' = [entry EXCEPT ![t] = e]
                        /\ told' = [told EXCEPT ![t] = h]
  <1> DEFINE e == entry[t]
             lost == {<<c, "LOST_ARBITRATION">> : c \in Range(e.candidates) \ {w}}
             f == [e EXCEPT !.state = "CLOSE_REQUESTED", !.winner = w,
                            !.suppressed = @ \cup lost]
  <1>1. e \in EntryType /\ told[t] = <<>>
    BY DEF Inv, TypeOK, Good, Settled
  <1>2. lost \subseteq Candidate \X Reason
    <2>1. Range(e.candidates) \subseteq Candidate
      BY <1>1, RangeType DEF EntryType
    <2> QED BY <2>1 DEF Reason
  <1>3. entry' = [entry EXCEPT ![t] = f]
    BY <1>1 DEF Decide, Inv, TypeOK, EntryType
  <1>4. /\ f \in EntryType /\ f.candidates = e.candidates /\ f.winner = w
        /\ f.state = "CLOSE_REQUESTED" /\ lost \subseteq f.suppressed
    BY <1>1, <1>2 DEF EntryType, State
  <1>5. /\ told' \in {told, [told EXCEPT ![t] = <<w>>]}
        /\ told'[t] = <<>> \/ (told'[t] = <<w>> /\ w # NoCandidate)
    <2>1. Append(<<>>, w) = <<w>> /\ told \in [Trade -> Seq(Candidate)]
      BY DEF Inv, TypeOK
    <2>2. CASE w # NoCandidate /\ entry[t].listening
      <3>1. told' = [told EXCEPT ![t] = <<w>>]
        BY <1>1, <2>1, <2>2 DEF Decide
      <3> QED BY <2>1, <2>2, <3>1
    <2>3. CASE ~(w # NoCandidate /\ entry[t].listening)
      <3>1. told' = told
        BY <2>3, Zenon DEF Decide
      <3>2. told'[t] = <<>>
        BY <1>1, <3>1
      <3> QED BY <3>1, <3>2, Zenon
    <2> QED BY <2>2, <2>3
  <1>6. entry'[t] = f
    BY <1>3 DEF Inv, TypeOK
  <1>7. \A T : Good(f, t \in T, told'[t])
    BY <1>4, <1>5 DEF Good
  <1>8. told' = [told EXCEPT ![t] = told'[t]]
    BY <1>5 DEF Inv, TypeOK
  <1>9. told'[t] \in Seq(Candidate)
    <2>1. <<>> \in Seq(Candidate)
      OBVIOUS
    <2>2. w # NoCandidate => <<w>> \in Seq(Candidate)
      OBVIOUS
    <2> QED BY <1>5, <2>1, <2>2
  <1> HIDE DEF f
  <1> QED BY <1>3, <1>4, <1>6, <1>7, <1>8, <1>9

LEMMA FlushKeepsInv ==
    ASSUME Inv, NEW t \in Trade, Flush(t),
           timer' = timer \ {t}, UNCHANGED <<sent, destroyed>>,
           Present(t)
    PROVE  Inv'
  <1>1. CASE Settled(t)
    <2>1. UNCHANGED <<entry, told>>
      BY <1>1 DEF Flush
    <2>2. TypeOK'
      BY <2>1 DEF Inv, TypeOK
    <2>3. Good(entry'[t], t \in timer', told'[t])
      BY <1>1, <2>1 DEF Inv, Good, Settled
    <2> QED BY <2>1, <2>2, <2>3, OneTrade
  <1>2. CASE ~Settled(t)
    <2> DEFINE s == entry[t].candidates
    <2>0. s \in Seq(Candidate)
      BY DEF Inv, TypeOK, EntryType
    <2>1. PICK w \in Candidate \cup {NoCandidate} :
             Decide(t, w) /\ (w # NoCandidate => w \in Range(s))
      BY <1>2, <2>0, WinnerCollected DEF Flush
    <2>2. /\ entry'[t] \in EntryType
          /\ told'[t] \in Seq(Candidate)
          /\ Good(entry'[t], t \in timer', told'[t])
      BY <1>2, <2>1, DecideIsGood
    <2>3. PICK e, h : /\ entry' = [entry EXCEPT ![t] = e]
                      /\ told' = [told EXCEPT ![t] = h]
      BY <1>2, <2>1, DecideIsGood
    <2>4. TypeOK'
      BY <2>2, <2>3 DEF Inv, TypeOK
    <2>5. \A u \in Trade \ {t} : entry'[u] = entry[u] /\ told'[u] = told[u]
      BY <2>3 DEF Inv, TypeOK
    <2> QED BY <2>2, <2>4, <2>5, OneTrade
  <1> QED BY <1>1, <1>2

LEMMA NextKeepsInv == Inv /\ [Next]_vars => Inv'
  <1> SUFFICES ASSUME Inv, [Next]_vars PROVE Inv'
    OBVIOUS
  <1>1. ASSUME NEW t \in Trade, Method(t) PROVE Inv'
    <2>1. CASE FlushTrade(t)
      BY <2>1, FlushKeepsInv DEF FlushTrade
    <2> QED BY <1>1, <2>1, RegisterKeepsInv, ListenKeepsInv, CommitKeepsInv,
               CancelKeepsInv DEF Method
  <1>2. ASSUME NEW t \in Trade, WindowEnds(t) PROVE Inv'
    <2>1. Present(t)
      BY <1>2 DEF WindowEnds, Inv, Good, Present
    <2> QED BY <1>2, <2>1, FlushKeepsInv DEF WindowEnds
  <1>3. CASE UNCHANGED vars
    BY <1>3 DEF vars, Inv, TypeOK
  <1> QED BY <1>1, <1>2, <1>3, SubmitKeepsInv, DestroyKeepsInv DEF Next

LEMMA Invariance == Spec => []Inv
  BY InitInv, NextKeepsInv, PTL DEF Spec

-----------------------------------------------------------------------------
(* The theorems.                                                           *)

\* Every variable keeps its type.
THEOREM TypeCorrect == Spec => []TypeOK
  BY Invariance, InvGivesParts, PTL

\* An open window has its timer, and no timer of an earlier entry of the trade
\* is left to cut a later window short.
THEOREM WindowsHaveTimers == Spec => []WindowHasTimer
  BY Invariance, InvGivesParts, PTL

\* The audit trail of a requested close accounts for every candidate collected.
THEOREM AuditIsComplete == Spec => []EveryCandidateRecorded
  BY Invariance, InvGivesParts, PTL

-----------------------------------------------------------------------------
(* Which candidate wins.                                                   *)

\* e's winner happened no later than any candidate collected, give or take the
\* tolerance.
WinnerIsEarliest(e) ==
    e.winner # NoCandidate /\ HasTime(e.winner) =>
        \A c \in Range(e.candidates) :
            HasTime(c) => EventTime[c] + Tolerance >= EventTime[e.winner]

\* A comparator that sorts what a window collected makes its winner earliest.
RuledRight(e) == Consistent(Range(e.candidates)) => WinnerIsEarliest(e)

AllRuledRight == \A t \in Trade : RuledRight(entry[t])

\* What holds of all the candidates holds of those that were collected.
LEMMA ConsistentSubset ==
    ASSUME NEW D, Consistent(D), NEW C \in SUBSET D
    PROVE  Consistent(C)
  BY DEF Consistent

\* Two candidates are always sorted, whatever their times and triggers.
LEMMA PairConsistent ==
    ASSUME NEW a \in Candidate, NEW b \in Candidate
    PROVE  Consistent({a, b})
  <1> USE CandidateAssumption
  <1>1. ASSUME NEW x \in Candidate, NEW y \in Candidate, Before(x, y)
        PROVE  ~Before(y, x)
    <2>1. CASE TimesDecide(x, y)
      BY <1>1, <2>1 DEF Before, TimesDecide, HasTime, Apart
    <2>2. CASE ~TimesDecide(x, y)
      <3>1. ~TimesDecide(y, x)
        BY <2>2 DEF TimesDecide, HasTime, Apart
      <3> QED BY <1>1, <2>2, <3>1 DEF Before, Apart
    <2> QED BY <2>1, <2>2
  <1>2. ~Before(a, a) /\ ~Before(b, b)
    BY <1>1
  <1> QED BY <1>1, <1>2 DEF Consistent

\* Of times that fall into groups, each further from the next than the
\* tolerance, closeness is an equivalence and the comparator sorts.
Grouped(T) ==
    \A l, m, n \in T : ~Apart(l, m) /\ ~Apart(m, n) => ~Apart(l, n)

LEMMA GroupedConsistent ==
    ASSUME NEW C \in SUBSET Candidate,
           Grouped({EventTime[c] : c \in {d \in C : HasTime(d)}}),
           Grouped({ObservedAt[c] : c \in C})
    PROVE  Consistent(C)
  <1> USE CandidateAssumption
  <1> SUFFICES ASSUME NEW a \in C, NEW b \in C, NEW c \in C
               PROVE  /\ Before(a, b) /\ Before(b, c) => Before(a, c)
                      /\ Before(a, c) => Before(a, b) \/ Before(b, c)
    BY DEF Consistent
  <1> DEFINE near(m, n) == ~Apart(m, n)
  <1>1. ASSUME NEW x \in C, NEW y \in C, NEW z \in C
        PROVE  /\ near(ObservedAt[x], ObservedAt[y]) /\ near(ObservedAt[y], ObservedAt[z])
                    => near(ObservedAt[x], ObservedAt[z])
               /\ HasTime(x) /\ HasTime(y) /\ HasTime(z) =>
                    (near(EventTime[x], EventTime[y]) /\ near(EventTime[y], EventTime[z])
                       => near(EventTime[x], EventTime[z]))
    BY DEF Grouped
  <1>2. ASSUME NEW x \in C
        PROVE  /\ ObservedAt[x] \in Nat /\ TriggerRank[x] \in Nat
               /\ HasTime(x) => EventTime[x] \in Nat
    BY DEF HasTime
  <1>3. ASSUME NEW x \in C, NEW y \in C
        PROVE  near(ObservedAt[x], ObservedAt[y]) <=> near(ObservedAt[y], ObservedAt[x])
    BY DEF Apart
  <1>4. ASSUME NEW x \in C, NEW y \in C
        PROVE  TimesDecide(x, y) <=> TimesDecide(y, x)
    BY <1>2 DEF Apart, TimesDecide
  <1>t. ASSUME NEW x \in C, NEW y \in C
        PROVE  TimesDecide(x, y) <=>
                 \/ HasTime(x) /\ ~HasTime(y)
                 \/ HasTime(y) /\ ~HasTime(x)
                 \/ HasTime(x) /\ HasTime(y) /\ Apart(EventTime[x], EventTime[y])
    BY DEF TimesDecide, HasTime
  <1>5. ASSUME NEW x \in C, NEW y \in C, NEW z \in C, ~TimesDecide(x, y), ~TimesDecide(y, z)
        PROVE  ~TimesDecide(x, z)
    BY <1>1, <1>5 DEF TimesDecide
  \* The first key: the event time.
  <1> DEFINE early(x, y) == TimesDecide(x, y) /\ HasTime(x)
                              /\ (HasTime(y) => EventTime[x] < EventTime[y])
             seen(x, y)  == ~TimesDecide(x, y) /\ Apart(ObservedAt[x], ObservedAt[y])
                              /\ ObservedAt[x] < ObservedAt[y]
             ranked(x, y) == ~TimesDecide(x, y) /\ ~Apart(ObservedAt[x], ObservedAt[y])
                              /\ TriggerRank[x] < TriggerRank[y]
  <1>6. ASSUME NEW x \in C, NEW y \in C
        PROVE  Before(x, y) <=> early(x, y) \/ seen(x, y) \/ ranked(x, y)
    BY DEF Before
  <1>7. ASSUME NEW x \in C, NEW y \in C, TimesDecide(x, y)
        PROVE  early(x, y) \/ early(y, x)
    BY <1>2, <1>4, <1>7, <1>t DEF Apart
  <1>8. ASSUME NEW x \in C, NEW y \in C, NEW z \in C, early(x, y), early(y, z)
        PROVE  early(x, z)
    BY <1>2, <1>8, <1>t DEF Apart
  <1>9. ASSUME NEW x \in C, NEW y \in C, NEW z \in C, early(x, y), ~TimesDecide(y, z)
        PROVE  early(x, z)
    <2>1. TimesDecide(x, z)
      BY <1>4, <1>5, <1>9
    <2> QED BY <1>2, <1>9, <2>1, <1>t DEF Apart
  <1>10. ASSUME NEW x \in C, NEW y \in C, NEW z \in C, ~TimesDecide(x, y), early(y, z)
         PROVE  early(x, z)
    <2>1. TimesDecide(x, z)
      BY <1>4, <1>5, <1>10
    <2> QED BY <1>2, <1>10, <2>1, <1>t DEF Apart
  <1>11. ASSUME NEW x \in C, NEW y \in C, early(x, y)
         PROVE  ~early(y, x) /\ TimesDecide(x, y) /\ TimesDecide(y, x)
    BY <1>2, <1>4, <1>11
  \* The second key: the observation.
  <1> DEFINE obs(x, y) == Apart(ObservedAt[x], ObservedAt[y]) /\ ObservedAt[x] < ObservedAt[y]
  <1>12. ASSUME NEW x \in C, NEW y \in C, NEW z \in C, obs(x, y), obs(y, z)
         PROVE  obs(x, z)
    BY <1>2, <1>12 DEF Apart
  <1>13. ASSUME NEW x \in C, NEW y \in C, NEW z \in C, obs(x, y),
                near(ObservedAt[y], ObservedAt[z])
         PROVE  obs(x, z)
    <2>1. Apart(ObservedAt[x], ObservedAt[z])
      BY <1>1, <1>3, <1>13
    <2> QED BY <1>2, <1>13, <2>1 DEF Apart
  <1>14. ASSUME NEW x \in C, NEW y \in C, NEW z \in C,
                near(ObservedAt[x], ObservedAt[y]), obs(y, z)
         PROVE  obs(x, z)
    <2>1. Apart(ObservedAt[x], ObservedAt[z])
      BY <1>1, <1>3, <1>14
    <2> QED BY <1>2, <1>14, <2>1 DEF Apart
  <1>15. ASSUME NEW x \in C, NEW y \in C, Apart(ObservedAt[x], ObservedAt[y])
         PROVE  obs(x, y) \/ obs(y, x)
    BY <1>2, <1>15 DEF Apart
  <1>16. ASSUME NEW x \in C, NEW y \in C
         PROVE  seen(x, y) <=> ~TimesDecide(x, y) /\ obs(x, y)
    OBVIOUS
  <1>17. ASSUME NEW x \in C, NEW y \in C
         PROVE  obs(x, y) => ~obs(y, x) /\ Apart(ObservedAt[y], ObservedAt[x])
    BY <1>2 DEF Apart
  <1>18. ASSUME NEW x \in C, NEW y \in C
         PROVE  ranked(x, y) => ~TimesDecide(x, y) /\ near(ObservedAt[x], ObservedAt[y])
    OBVIOUS
  <1>20. Before(a, b) /\ Before(b, c) => Before(a, c)
    <2> SUFFICES ASSUME Before(a, b), Before(b, c) PROVE Before(a, c)
      OBVIOUS
    <2>1. CASE early(a, b) \/ early(b, c)
      <3>1. early(a, c)
        <4>1. CASE early(a, b)
          <5>1. early(b, c) \/ ~TimesDecide(b, c)
            BY <1>6
          <5> QED BY <1>8, <1>9, <4>1, <5>1
        <4>2. CASE early(b, c)
          <5>1. early(a, b) \/ ~TimesDecide(a, b)
            BY <1>6
          <5> QED BY <1>8, <1>10, <4>2, <5>1
        <4> QED BY <2>1, <4>1, <4>2
      <3> QED BY <1>6, <3>1
    <2>2. CASE ~early(a, b) /\ ~early(b, c)
      <3>1. /\ ~TimesDecide(a, b) /\ ~TimesDecide(b, c) /\ ~TimesDecide(a, c)
            /\ obs(a, b) \/ ranked(a, b)
            /\ obs(b, c) \/ ranked(b, c)
        BY <1>5, <1>6, <2>2
      <3>2. CASE obs(a, b) \/ obs(b, c)
        <4>1. obs(a, c)
          BY <1>12, <1>13, <1>14, <1>18, <3>1, <3>2
        <4> QED BY <1>6, <3>1, <4>1
      <3>3. CASE ranked(a, b) /\ ranked(b, c)
        <4>1. ~Apart(ObservedAt[a], ObservedAt[c])
          BY <1>1, <3>3
        <4> QED BY <1>2, <1>6, <3>1, <3>3, <4>1
      <3> QED BY <3>1, <3>2, <3>3
    <2> QED BY <2>1, <2>2
  <1>21. Before(a, c) => Before(a, b) \/ Before(b, c)
    <2> SUFFICES ASSUME Before(a, c) PROVE Before(a, b) \/ Before(b, c)
      OBVIOUS
    <2>1. CASE early(a, c)
      <3>1. early(a, b) \/ early(b, c)
        <4>1. CASE ~TimesDecide(a, b)
          <5>1. ~TimesDecide(b, a)
            BY <1>4, <4>1
          <5> QED BY <1>10, <2>1, <5>1
        <4>2. CASE early(b, a)
          BY <1>8, <2>1, <4>2
        <4> QED BY <1>7, <4>1, <4>2
      <3> QED BY <1>6, <3>1
    <2>2. CASE ~early(a, c)
      <3>1. /\ ~TimesDecide(a, c) /\ ~TimesDecide(c, a)
            /\ obs(a, c) \/ ranked(a, c)
        BY <1>4, <1>6, <2>2
      <3>2. CASE TimesDecide(a, b)
        <4>1. early(a, b) \/ early(b, a)
          BY <1>7, <3>2
        <4>2. early(b, a) => early(b, c)
          BY <1>9, <3>1
        <4> QED BY <1>6, <4>1, <4>2
      <3>3. CASE ~TimesDecide(a, b)
        <4>1. ~TimesDecide(b, c)
          BY <1>4, <1>5, <3>1, <3>3
        <4>2. CASE obs(a, c)
          <5>1. obs(a, b) \/ obs(b, c)
            <6>1. CASE near(ObservedAt[a], ObservedAt[b])
              <7>1. near(ObservedAt[b], ObservedAt[a])
                BY <1>3, <6>1
              <7> QED BY <1>14, <4>2, <7>1
            <6>2. CASE obs(b, a)
              BY <1>12, <4>2, <6>2
            <6> QED BY <1>15, <6>1, <6>2
          <5> QED BY <1>6, <3>3, <4>1, <5>1
        <4>3. CASE ranked(a, c)
          <5>1. CASE obs(a, b) \/ obs(b, c)
            BY <1>6, <3>3, <4>1, <5>1
          <5>2. CASE ~obs(a, b) /\ ~obs(b, c)
            <6>1. near(ObservedAt[a], ObservedAt[b])
              <7>1. obs(b, a) => obs(b, c)
                BY <1>13, <4>3
              <7> QED BY <1>15, <5>2, <7>1
            <6>2. near(ObservedAt[b], ObservedAt[c])
              BY <1>1, <1>3, <4>3, <6>1
            <6>3. TriggerRank[a] < TriggerRank[b] \/ TriggerRank[b] < TriggerRank[c]
              BY <1>2, <4>3
            <6> QED BY <1>6, <3>3, <4>1, <6>1, <6>2, <6>3
          <5> QED BY <5>1, <5>2
        <4> QED BY <3>1, <4>2, <4>3
      <3> QED BY <3>2, <3>3
    <2> QED BY <2>1, <2>2
  <1> QED BY <1>20, <1>21

\* What the sort puts first is earliest if the comparator sorts.
LEMMA FirstIsEarliest ==
    ASSUME NEW s \in Seq(Candidate), Consistent(Range(s)),
           NEW w \in SelectWinner(s), HasTime(w),
           NEW c \in Range(s), HasTime(c)
    PROVE  EventTime[c] + Tolerance >= EventTime[w]
  <1>1. PICK j \in DOMAIN s : w = s[j] /\ \A k \in DOMAIN s : ~Before(s[k], s[j])
    BY DEF SelectWinner, First
  <1>2. PICK k \in DOMAIN s : c = s[k]
    BY DEF Range
  <1>3. ~Before(c, w)
    BY <1>1, <1>2
  <1>4. c \in Candidate /\ w \in Candidate
    BY WinnerCollected, RangeType
  <1>5. EventTime[c] \in Nat /\ EventTime[w] \in Nat /\ Tolerance \in Nat
    BY <1>4, CandidateAssumption DEF HasTime
  <1>6. CASE Apart(EventTime[c], EventTime[w])
    <2>1. TimesDecide(c, w)
      BY <1>6 DEF TimesDecide
    <2>2. ~(EventTime[c] < EventTime[w])
      BY <1>3, <2>1 DEF Before
    <2> QED BY <1>5, <2>2
  <1>7. CASE ~Apart(EventTime[c], EventTime[w])
    BY <1>5, <1>7 DEF Apart
  <1> QED BY <1>6, <1>7

\* An entry with the same candidates and the same winner, or with no winner.
LEMMA StaysRight ==
    ASSUME NEW e, NEW f, RuledRight(e),
           \/ f.winner = NoCandidate
           \/ f.winner = e.winner /\ f.candidates = e.candidates
    PROVE  RuledRight(f)
  BY DEF RuledRight, WinnerIsEarliest

LEMMA SubmitStaysRight ==
    ASSUME Inv, AllRuledRight, NEW c \in Candidate, Submit(c)
    PROVE  AllRuledRight'
  <1> DEFINE t == TradeOf[c]
  <1>0. t \in Trade /\ entry[t] \in EntryType /\ entry \in [Trade -> EntryType]
    BY CandidateAssumption DEF Inv, TypeOK
  <1>1. \A u \in Trade \ {t} : entry'[u] = entry[u]
    BY <1>0 DEF Submit
  <1>2. CASE Accepts(c)
    <2>1. entry[t].winner = NoCandidate
      BY <1>0, <1>2 DEF Accepts, Settled, Inv, Good
    <2>2. entry'[t] = Collected(c)
      BY <1>0, <1>2 DEF Submit
    <2>3. entry'[t].winner = NoCandidate
      BY <1>0, <2>1, <2>2 DEF Collected, EntryType
    <2> QED BY <1>0, <1>1, <2>3, StaysRight DEF AllRuledRight
  <1>3. CASE ~Accepts(c)
    <2>1. entry'[t] = Suppressed(c, WhyNot(c))
      BY <1>0, <1>3 DEF Submit
    <2>2. entry'[t].winner = entry[t].winner /\ entry'[t].candidates = entry[t].candidates
      BY <1>0, <2>1 DEF Suppressed, EntryType
    <2> QED BY <1>0, <1>1, <2>2, StaysRight DEF AllRuledRight
  <1> QED BY <1>2, <1>3

LEMMA FlushStaysRight ==
    ASSUME Inv, AllRuledRight, NEW t \in Trade, Flush(t), Present(t)
    PROVE  AllRuledRight'
  <1>0. entry[t] \in EntryType /\ entry \in [Trade -> EntryType]
    BY DEF Inv, TypeOK
  <1>1. CASE Settled(t)
    <2>1. entry' = entry
      BY <1>1 DEF Flush
    <2> QED BY <2>1, StaysRight DEF AllRuledRight
  <1>2. CASE ~Settled(t)
    <2> DEFINE s == entry[t].candidates
    <2>0. s \in Seq(Candidate)
      BY <1>0 DEF EntryType
    <2>1. PICK w \in Candidate \cup {NoCandidate} :
             Decide(t, w) /\ (w # NoCandidate => w \in SelectWinner(s))
      BY <1>2, <2>0, WinnerCollected DEF Flush
    <2>2. /\ entry'[t].winner = w /\ entry'[t].candidates = s
          /\ \A u \in Trade \ {t} : entry'[u] = entry[u]
      BY <1>0, <2>1 DEF Decide, EntryType
    <2>3. RuledRight(entry'[t])
      BY <2>0, <2>1, <2>2, FirstIsEarliest DEF RuledRight, WinnerIsEarliest
    <2> QED BY <2>2, <2>3, StaysRight DEF AllRuledRight
  <1> QED BY <1>1, <1>2

LEMMA NextStaysRight == Inv /\ AllRuledRight /\ [Next]_vars => AllRuledRight'
  <1> SUFFICES ASSUME Inv, AllRuledRight, [Next]_vars PROVE AllRuledRight'
    OBVIOUS
  <1>0. entry \in [Trade -> EntryType]
    BY DEF Inv, TypeOK
  <1>1. ASSUME NEW t \in Trade, RegisterTrade(t) \/ CancelTrade(t) PROVE AllRuledRight'
    <2>1. entry'[t].winner = NoCandidate /\ \A u \in Trade \ {t} : entry'[u] = entry[u]
      BY <1>0, <1>1 DEF RegisterTrade, CancelTrade, Absent, Entry
    <2> QED BY <2>1, StaysRight DEF AllRuledRight
  <1>2. ASSUME NEW t \in Trade, OnCloseRequested(t) \/ CommitResolvedClose(t)
        PROVE  AllRuledRight'
    <2>1. \A u \in Trade : /\ entry'[u].candidates = entry[u].candidates
                          /\ entry'[u].winner = entry[u].winner
      BY <1>0, <1>2 DEF OnCloseRequested, CommitResolvedClose, EntryType
    <2> QED BY <2>1, StaysRight DEF AllRuledRight
  <1>3. ASSUME NEW t \in Trade, FlushTrade(t) \/ WindowEnds(t) PROVE AllRuledRight'
    <2>1. Present(t)
      BY <1>3 DEF FlushTrade, WindowEnds, Inv, Good, Present
    <2> QED BY <1>3, <2>1, FlushStaysRight DEF FlushTrade, WindowEnds
  <1>4. CASE Destroy
    <2>1. \A t \in Trade : entry'[t].winner = NoCandidate
      BY <1>4 DEF Destroy, Absent, Entry
    <2> QED BY <2>1, StaysRight DEF AllRuledRight
  <1>5. CASE UNCHANGED vars
    BY <1>5 DEF vars, AllRuledRight, RuledRight, WinnerIsEarliest
  <1> QED BY <1>1, <1>2, <1>3, <1>4, <1>5, SubmitStaysRight DEF Next, Method

LEMMA InitRight == Init => AllRuledRight
  BY DEF Init, Absent, Entry, AllRuledRight, RuledRight, WinnerIsEarliest

\* Every window whose candidates the comparator sorts is ruled by event time,
\* whatever the other windows collected.
THEOREM SortedWindowsRuleByTime == Spec => []AllRuledRight
  BY Invariance, InitRight, NextStaysRight, PTL DEF Spec

\* What a trade collects was submitted for it.
LEMMA CollectedForTrade == Spec => [](\A t \in Trade :
        Range(entry[t].candidates) \subseteq {c \in Current : TradeOf[c] = t})
  <1> DEFINE Own == \A t \in Trade :
        Range(entry[t].candidates) \subseteq {c \in Current : TradeOf[c] = t}
  <1>1. Init => Own
    BY RangeEmpty DEF Init, Absent, Entry
  <1>2. Inv /\ Own /\ [Next]_vars => Own'
    <2> SUFFICES ASSUME Inv, Own, [Next]_vars PROVE Own'
      OBVIOUS
    <2>0. entry \in [Trade -> EntryType]
      BY DEF Inv, TypeOK
    <2>1. ASSUME NEW c \in Candidate, Submit(c) PROVE Own'
      <3> DEFINE t == TradeOf[c]
      <3>0. t \in Trade /\ entry[t] \in EntryType
        BY CandidateAssumption, <2>0
      <3>1. \A u \in Trade \ {t} : entry'[u] = entry[u]
        BY <2>0, <2>1 DEF Submit
      <3>2. CASE Accepts(c)
        <4>1. entry'[t].candidates = Append(entry[t].candidates, c)
          BY <2>0, <2>1, <3>0, <3>2 DEF Submit, Collected, EntryType
        <4>2. Range(entry'[t].candidates) = Range(entry[t].candidates) \cup {c}
          BY <3>0, <4>1, RangeAppend DEF EntryType
        <4> QED BY <3>1, <3>2, <4>2 DEF Accepts
      <3>3. CASE ~Accepts(c)
        <4>1. entry'[t] = Suppressed(c, WhyNot(c))
          BY <2>0, <2>1, <3>0, <3>3 DEF Submit
        <4>2. entry'[t].candidates = entry[t].candidates
          BY <3>0, <4>1 DEF Suppressed, EntryType
        <4> QED BY <3>1, <4>2
      <3> QED BY <3>2, <3>3
    <2>2. ASSUME NEW t \in Trade, Method(t) \/ WindowEnds(t) PROVE Own'
      <3>1. CASE RegisterTrade(t) \/ CancelTrade(t)
        BY <2>0, <3>1, RangeEmpty DEF RegisterTrade, CancelTrade, Absent, Entry
      <3>2. CASE ~(RegisterTrade(t) \/ CancelTrade(t))
        <4>1. ASSUME Flush(t)
              PROVE  \A u \in Trade : entry'[u].candidates = entry[u].candidates
          <5>1. CASE UNCHANGED <<entry, told>>
            BY <5>1
          <5>2. CASE \E w : Decide(t, w)
            BY <2>0, <5>2 DEF Decide, EntryType
          <5> QED BY <4>1, <5>1, <5>2, Zenon DEF Flush
        <4>2. ASSUME OnCloseRequested(t) \/ CommitResolvedClose(t)
              PROVE  \A u \in Trade : entry'[u].candidates = entry[u].candidates
          <5>1. CASE OnCloseRequested(t)
            BY <2>0, <5>1 DEF OnCloseRequested, EntryType
          <5>2. CASE CommitResolvedClose(t)
            BY <2>0, <5>2 DEF CommitResolvedClose, EntryType
          <5> QED BY <4>2, <5>1, <5>2
        <4>3. \A u \in Trade : entry'[u].candidates = entry[u].candidates
          BY <2>2, <3>2, <4>1, <4>2, Zenon DEF Method, WindowEnds, FlushTrade
        <4> QED BY <4>3
      <3> QED BY <3>1, <3>2
    <2>3. CASE Destroy
      BY <2>3, RangeEmpty DEF Destroy, Absent, Entry
    <2>4. CASE UNCHANGED vars
      BY <2>4 DEF vars
    <2> QED BY <2>1, <2>2, <2>3, <2>4 DEF Next
  <1> QED BY <1>1, <1>2, Invariance, PTL DEF Spec

\* "earlier STOP_LOSS beats later TAKE_PROFIT regardless of callback order",
\* when the comparator sorts the candidates that a trade can get: two of them
\* always (PairConsistent), more of them if their times are grouped
\* (GroupedConsistent).
THEOREM EarlierWins ==
    ASSUME \A t \in Trade : Consistent({c \in Current : TradeOf[c] = t})
    PROVE  Spec => []EarlierEventWins
  <1> DEFINE Own == \A t \in Trade :
        Range(entry[t].candidates) \subseteq {c \in Current : TradeOf[c] = t}
  <1>1. Own /\ AllRuledRight => EarlierEventWins
    <2> SUFFICES ASSUME Own, AllRuledRight, NEW t \in Trade
                 PROVE  WinnerIsEarliest(entry[t])
      BY DEF EarlierEventWins, WinnerIsEarliest
    <2>1. Consistent(Range(entry[t].candidates))
      BY ConsistentSubset
    <2> QED BY <2>1 DEF AllRuledRight, RuledRight
  <1> QED BY <1>1, CollectedForTrade, SortedWindowsRuleByTime, PTL

\* Of two triggers of a trade the earlier wins, as that test says: no assumption
\* on the times is left.
COROLLARY EarlierOfTwoWins ==
    ASSUME \A t \in Trade : \E a, b \in Candidate : {c \in Current : TradeOf[c] = t} \subseteq {a, b}
    PROVE  Spec => []EarlierEventWins
  <1>1. \A t \in Trade : Consistent({c \in Current : TradeOf[c] = t})
    BY PairConsistent, ConsistentSubset
  <1> QED BY <1>1, EarlierWins

-----------------------------------------------------------------------------
(* Refinement of CloseVerdict.                                             *)

Asked == [t \in Trade |-> Range(entry[t].candidates)]
Ruled == [t \in Trade |-> Verdict(t)]

\* A step that leaves candidates and verdicts alone is a stutter.
LEMMA Stutters ==
    ASSUME Asked' = Asked, Ruled' = Ruled, told' = told
    PROVE  UNCHANGED Promise!verdictVars
  BY DEF Asked, Ruled, Promise!verdictVars

LEMMA InitRefines == Init => Promise!Init
  <1> SUFFICES ASSUME Init PROVE Promise!Init
    OBVIOUS
  <1>1. \A t \in Trade : entry[t].candidates = <<>> /\ ~Settled(t)
    BY DEF Init, Absent, Entry, Settled
  <1> QED BY <1>1, RangeEmpty DEF Promise!Init, Init, Verdict

LEMMA SubmitRefines ==
    ASSUME Inv, NEW c \in Candidate, Submit(c)
    PROVE  Promise!Ask(TradeOf[c], c) \/ UNCHANGED Promise!verdictVars
  <1> DEFINE t == TradeOf[c]
  <1>0. t \in Trade /\ entry[t] \in EntryType /\ entry \in [Trade -> EntryType]
    BY CandidateAssumption DEF Inv, TypeOK
  <1>1. told' = told
    BY DEF Submit
  <1>2. CASE Accepts(c)
    <2>1. entry' = [entry EXCEPT ![t] = Collected(c)]
      BY <1>2, Zenon DEF Submit
    <2>2. /\ Collected(c).state = "ARBITRATION_PENDING"
          /\ Collected(c).candidates = Append(entry[t].candidates, c)
      BY <1>0 DEF Collected, EntryType
    <2>3. Range(Collected(c).candidates) = Range(entry[t].candidates) \cup {c}
      BY <1>0, <2>2, RangeAppend DEF EntryType
    <2>4. ~Settled(t) /\ ~Settled(t)'
      BY <1>0, <1>2, <2>1, <2>2 DEF Accepts, Settled
    <2>5. Asked' = [Asked EXCEPT ![t] = @ \cup {c}]
      BY <1>0, <2>1, <2>3 DEF Asked
    <2>6. Ruled' = Ruled
      <3>1. ASSUME NEW u \in Trade PROVE Verdict(u)' = Verdict(u)
        <4>1. CASE u = t
          BY <2>4, <4>1 DEF Verdict
        <4>2. CASE u # t
          <5>1. entry'[u] = entry[u]
            BY <1>0, <2>1, <4>2
          <5> QED BY <5>1 DEF Verdict, Settled
        <4> QED BY <4>1, <4>2
      <3> QED BY <3>1 DEF Ruled
    <2>7. Ruled[t] = Undecided
      BY <1>0, <2>4 DEF Ruled, Verdict
    <2> QED BY <1>1, <2>5, <2>6, <2>7 DEF Asked, Ruled, Promise!Ask
  <1>3. CASE ~Accepts(c)
    <2>1. PICK reason : entry' = [entry EXCEPT ![t] = Suppressed(c, reason)]
      BY <1>3, Zenon DEF Submit
    <2>2. \A u \in Trade : /\ entry'[u].candidates = entry[u].candidates
                          /\ entry'[u].state = entry[u].state
                          /\ entry'[u].winner = entry[u].winner
      BY <1>0, <2>1 DEF Suppressed, EntryType
    <2> QED BY <1>1, <2>2, Stutters DEF Asked, Ruled, Verdict, Settled
  <1> QED BY <1>2, <1>3

LEMMA FlushRefines ==
    ASSUME Inv, NEW t \in Trade, Flush(t), Present(t)
    PROVE  \/ \E c \in Candidate : Promise!Rule(t, c)
           \/ Promise!CloseUnheard(t)
           \/ UNCHANGED Promise!verdictVars
  <1>0. entry[t] \in EntryType /\ entry \in [Trade -> EntryType] /\ told \in [Trade -> Seq(Candidate)]
    BY DEF Inv, TypeOK
  <1>1. CASE Settled(t)
    <2>1. UNCHANGED <<entry, told>>
      BY <1>1 DEF Flush
    <2> QED BY <2>1, Stutters DEF Asked, Ruled, Verdict, Settled
  <1>2. CASE ~Settled(t)
    <2>1. PICK w \in Candidate \cup {NoCandidate} :
             /\ Decide(t, w)
             /\ w # NoCandidate => w \in Range(entry[t].candidates)
      BY <1>0, <1>2, WinnerCollected DEF Flush, EntryType
    <2>2. /\ entry'[t].state = "CLOSE_REQUESTED" /\ entry'[t].winner = w
          /\ entry'[t].candidates = entry[t].candidates
          /\ \A u \in Trade \ {t} : entry'[u] = entry[u]
      BY <1>0, <2>1 DEF Decide, EntryType
    <2>3. Asked' = Asked
      BY <2>2 DEF Asked
    <2>4. Ruled[t] = Undecided
      BY <1>2 DEF Ruled, Verdict
    <2> DEFINE v == IF w = NoCandidate THEN Nobody ELSE w
    <2>5. Ruled' = [Ruled EXCEPT ![t] = v]
      <3>1. Verdict(t)' = v
        BY <2>2 DEF Verdict, Settled
      <3>2. \A u \in Trade \ {t} : Verdict(u)' = Verdict(u)
        BY <2>2 DEF Verdict, Settled
      <3> QED BY <3>1, <3>2 DEF Ruled
    <2>6. CASE w = NoCandidate
      <3>1. told' = told
        BY <2>1, <2>6, Zenon DEF Decide
      <3> QED BY <2>3, <2>4, <2>5, <2>6, <3>1 DEF Asked, Ruled, Promise!CloseUnheard
    <2>7. CASE w # NoCandidate
      <3>1. w \in Candidate /\ w \in Asked[t]
        BY <2>1, <2>7 DEF Asked
      <3>2. told[t] = <<>> /\ Append(<<>>, w) = <<w>>
        BY <1>2 DEF Inv, Good, Settled
      <3>3. told' \in {told, [told EXCEPT ![t] = <<w>>]}
        <4>1. CASE entry[t].listening
          BY <2>1, <2>7, <3>2, <4>1 DEF Decide
        <4>2. CASE ~entry[t].listening
          BY <2>1, <4>2, Zenon DEF Decide
        <4> QED BY <4>1, <4>2
      <3>4. Ruled' = [Ruled EXCEPT ![t] = w]
        BY <2>5, <2>7
      <3> QED BY <2>3, <2>4, <3>1, <3>3, <3>4 DEF Asked, Ruled, Promise!Rule
    <2> QED BY <2>6, <2>7
  <1> QED BY <1>1, <1>2

LEMMA CommitRefines ==
    ASSUME Inv, NEW t \in Trade, CommitResolvedClose(t)
    PROVE  Promise!CloseUnheard(t) \/ UNCHANGED Promise!verdictVars
  <1>0. entry[t] \in EntryType /\ entry \in [Trade -> EntryType]
    BY DEF Inv, TypeOK
  <1>1. /\ entry'[t].state = "CLOSE_COMMITTED"
        /\ entry'[t].candidates = entry[t].candidates
        /\ entry'[t].winner = entry[t].winner
        /\ \A u \in Trade \ {t} : entry'[u] = entry[u]
        /\ told' = told
    BY <1>0 DEF CommitResolvedClose, EntryType
  <1>2. Asked' = Asked
    BY <1>1 DEF Asked
  <1>3. CASE Settled(t)
    BY <1>1, <1>2, <1>3, Stutters DEF Ruled, Verdict, Settled
  <1>4. CASE ~Settled(t)
    <2>1. entry[t].winner = NoCandidate
      BY <1>4 DEF Inv, Good, Settled
    <2>2. Verdict(t)' = Nobody /\ Verdict(t) = Undecided
      BY <1>1, <1>4, <2>1 DEF Verdict, Settled
    <2>3. \A u \in Trade \ {t} : Verdict(u)' = Verdict(u)
      BY <1>1 DEF Verdict, Settled
    <2>4. Ruled[t] = Undecided /\ Ruled' = [Ruled EXCEPT ![t] = Nobody]
      BY <2>2, <2>3 DEF Ruled
    <2> QED BY <1>1, <1>2, <2>4 DEF Asked, Ruled, Promise!CloseUnheard
  <1> QED BY <1>3, <1>4

\* Forgetting the entries of T is the withdrawal of T.
LEMMA ForgetRefines ==
    ASSUME Inv, NEW T \in SUBSET Trade,
           \A t \in T : entry'[t] = Absent /\ told'[t] = <<>>,
           \A t \in Trade \ T : entry'[t] = entry[t] /\ told'[t] = told[t],
           told' \in [Trade -> Seq(Candidate)]
    PROVE  Promise!Withdraw(T)
  <1>1. ASSUME NEW t \in Trade
        PROVE  /\ Range(entry'[t].candidates) = IF t \in T THEN {} ELSE Asked[t]
               /\ Verdict(t)' = IF t \in T THEN Undecided ELSE Ruled[t]
    <2>1. CASE t \in T
      BY <2>1, RangeEmpty DEF Absent, Entry, Verdict, Settled
    <2>2. CASE t \notin T
      BY <2>2 DEF Asked, Ruled, Verdict, Settled
    <2> QED BY <2>1, <2>2
  <1>2. told' = [t \in Trade |-> IF t \in T THEN <<>> ELSE told[t]]
    OBVIOUS
  <1> QED BY <1>1, <1>2 DEF Promise!Withdraw, Asked, Ruled

LEMMA NextRefines ==
    Inv /\ Inv' /\ [Next]_vars => [Promise!Next]_(Promise!verdictVars)
  <1> SUFFICES ASSUME Inv, Inv', [Next]_vars
               PROVE  Promise!Next \/ UNCHANGED Promise!verdictVars
    OBVIOUS
  <1>0. told' \in [Trade -> Seq(Candidate)] /\ entry \in [Trade -> EntryType]
    BY DEF Inv, TypeOK
  <1>1. ASSUME NEW t \in Trade, RegisterTrade(t)
        PROVE  UNCHANGED Promise!verdictVars
    <2>1. /\ entry[t].candidates = <<>> /\ ~Settled(t)
          /\ entry' = [entry EXCEPT ![t] = Entry("OPEN")] /\ told' = told
      BY <1>1 DEF RegisterTrade, Present, Inv, Good, Settled
    <2>2. /\ entry'[t].candidates = <<>> /\ ~Settled(t)'
          /\ \A u \in Trade \ {t} : entry'[u] = entry[u]
      BY <1>0, <2>1 DEF Entry, Settled
    <2> QED BY <2>1, <2>2, Stutters DEF Asked, Ruled, Verdict, Settled
  <1>2. ASSUME NEW t \in Trade, OnCloseRequested(t)
        PROVE  UNCHANGED Promise!verdictVars
    <2>1. /\ \A u \in Trade : /\ entry'[u].candidates = entry[u].candidates
                             /\ entry'[u].state = entry[u].state
                             /\ entry'[u].winner = entry[u].winner
          /\ told' = told
      BY <1>0, <1>2 DEF OnCloseRequested, EntryType
    <2> QED BY <2>1, Stutters DEF Asked, Ruled, Verdict, Settled
  <1>3. ASSUME NEW t \in Trade, Flush(t), Present(t)
        PROVE  Promise!Next \/ UNCHANGED Promise!verdictVars
    BY <1>3, FlushRefines DEF Promise!Next
  <1>4. ASSUME NEW t \in Trade, WindowEnds(t)
        PROVE  Promise!Next \/ UNCHANGED Promise!verdictVars
    <2>1. Present(t)
      BY <1>4 DEF WindowEnds, Inv, Good, Present
    <2> QED BY <1>3, <1>4, <2>1 DEF WindowEnds
  <1>5. ASSUME NEW t \in Trade, CancelTrade(t)
        PROVE  Promise!Next
    <2>1. Promise!Withdraw({t})
      BY <1>0, <1>5, ForgetRefines DEF CancelTrade, Inv, TypeOK
    <2> QED BY <2>1 DEF Promise!Next
  <1>6. ASSUME Destroy PROVE Promise!Next
    <2>1. Promise!Withdraw(Trade)
      BY <1>0, <1>6, ForgetRefines DEF Destroy
    <2> QED BY <2>1 DEF Promise!Next
  <1>7. ASSUME NEW c \in Candidate, Submit(c)
        PROVE  Promise!Next \/ UNCHANGED Promise!verdictVars
    BY <1>7, SubmitRefines, CandidateAssumption DEF Promise!Next
  <1>8. ASSUME NEW t \in Trade, CommitResolvedClose(t)
        PROVE  Promise!Next \/ UNCHANGED Promise!verdictVars
    BY <1>8, CommitRefines DEF Promise!Next
  <1>9. CASE UNCHANGED vars
    BY <1>9, Stutters DEF vars, Asked, Ruled, Verdict, Settled
  <1>10. ASSUME NEW t \in Trade, FlushTrade(t)
         PROVE  Promise!Next \/ UNCHANGED Promise!verdictVars
    BY <1>3, <1>10 DEF FlushTrade
  <1> QED BY <1>1, <1>2, <1>4, <1>5, <1>6, <1>7, <1>8, <1>9, <1>10 DEF Next, Method

\* The coordinator implements the abstract verdict: at most one per entry, one
\* of the candidates submitted, heard at most once and never revised.
THEOREM CoordinatorKeepsPromise == Spec => PromiseKept
  <1>1. Inv /\ [Next]_vars => Inv'
    BY NextKeepsInv
  <1>2. Spec => []Inv
    BY Invariance
  <1> QED BY <1>1, <1>2, InitRefines, NextRefines, PTL DEF Spec, PromiseKept, Promise!Spec

=============================================================================
