----------------------- MODULE DiscoveryQueue_proofs -----------------------
(***************************************************************************)
(* The slots of DiscoveryQueue are counted exactly and the first scans of  *)
(* a symbol come one at a time, for any finite universe, any number of     *)
(* slots and any TTL.                                                      *)
(*                                                                         *)
(* A tick is described once, by what its six sets of places are (TickSets) *)
(* and what becomes of each place (PlaceAfterTick); the counts are then    *)
(* cardinalities of disjoint unions and differences.                       *)
(***************************************************************************)
EXTENDS DiscoveryQueue, FiniteSetTheorems, TLAPS

\* A failed record was tried once, one that is fetched at least once.
Attempted ==
    \A i \in Place :
        /\ i \in Failed => records[i].attempts = 1
        /\ i \in Fetching => records[i].attempts > 0

IInv == TypeOK /\ SlotsExact /\ OneFirstAttempt /\ Attempted

-----------------------------------------------------------------------------
(* Places and counts.                                                      *)

LEMMA PlaceIsFinite == IsFiniteSet(Place)
  <1>1. IsFiniteSet(1 .. MaxRecords)
    BY DiscoveryAssumption, FS_Interval
  <1>. QED
    BY <1>1, DiscoveryAssumption, FS_Product DEF Place

LEMMA Counted ==
  ASSUME NEW S \in SUBSET Place
  PROVE  IsFiniteSet(S) /\ Cardinality(S) \in Nat
  BY PlaceIsFinite, FS_Subset, FS_CardinalityType

LEMMA CountWith ==
  ASSUME NEW S \in SUBSET Place, NEW T \in SUBSET Place, S \cap T = {}
  PROVE  Cardinality(S \cup T) = Cardinality(S) + Cardinality(T)
  <1>1. /\ IsFiniteSet(S) /\ Cardinality(S) \in Nat
        /\ IsFiniteSet(T) /\ Cardinality(T) \in Nat
    BY Counted
  <1>2. Cardinality(S \cup T) = Cardinality(S) + Cardinality(T) - Cardinality(S \cap T)
    BY <1>1, FS_Union
  <1>. QED
    BY <1>1, <1>2, FS_EmptySet

LEMMA CountWithout ==
  ASSUME NEW S \in SUBSET Place, NEW T \in SUBSET S
  PROVE  Cardinality(S \ T) = Cardinality(S) - Cardinality(T)
  <1>1. IsFiniteSet(S)
    BY Counted
  <1>2. S \cap T = T
    OBVIOUS
  <1>3. Cardinality(S \ T) = Cardinality(S) - Cardinality(S \cap T)
    BY <1>1, FS_Difference
  <1>. QED
    BY <1>2, <1>3

LEMMA Groups ==
  /\ Queued \subseteq Place /\ Fetching \subseteq Place /\ Failed \subseteq Place
  /\ Queued \cap Fetching = {} /\ Queued \cap Failed = {} /\ Fetching \cap Failed = {}
  BY DEF Queued, Fetching, Failed, With

LEMMA Member ==
  ASSUME NEW i \in Place
  PROVE  /\ i \in Queued <=> records[i] # NoRecord /\ records[i].status = "QUEUED"
         /\ i \in Fetching <=> records[i] # NoRecord /\ records[i].status = "FETCHING"
         /\ i \in Failed <=> records[i] # NoRecord /\ records[i].status = "FAILED"
  BY DEF Queued, Fetching, Failed, With

LEMMA MemberAfter ==
  ASSUME NEW i \in Place
  PROVE  /\ i \in Queued' <=> records'[i] # NoRecord /\ records'[i].status = "QUEUED"
         /\ i \in Fetching' <=> records'[i] # NoRecord /\ records'[i].status = "FETCHING"
         /\ i \in Failed' <=> records'[i] # NoRecord /\ records'[i].status = "FAILED"
  BY DEF Queued, Fetching, Failed, With
-----------------------------------------------------------------------------
(* Records.                                                                *)

LEMMA NoRecordIsNone == NoRecord \notin Records
  BY DiscoveryAssumption

LEMMA OlderRecord ==
  ASSUME NEW r \in Records
  PROVE  Older(r) \in Records /\ Older(r).status = r.status /\ Older(r).attempts = r.attempts
  BY DEF Older, Records

LEMMA TriedRecord ==
  ASSUME NEW r \in Records
  PROVE  Tried(r) \in Records /\ Tried(r).status = "FETCHING" /\ Tried(r).attempts = r.attempts + 1
  <1>1. /\ r.attempts \in Nat /\ r.age \in Nat
        /\ r = [status |-> r.status, attempts |-> r.attempts, age |-> r.age]
    BY DEF Records
  <1>. DEFINE counted == [r EXCEPT !.attempts = r.attempts + 1]
  <1>a. counted = [status |-> r.status, attempts |-> r.attempts + 1, age |-> r.age]
    BY <1>1
  <1>b. Tried(r) = [counted EXCEPT !.status = "FETCHING"]
    BY Zenon DEF Tried
  <1>2. Tried(r) = [status |-> "FETCHING", attempts |-> r.attempts + 1, age |-> r.age]
    <2>. HIDE DEF counted
    <2>. QED
      BY <1>a, <1>b
  <1>3. r.attempts + 1 \in Nat
    BY <1>1
  <1>. QED
    BY <1>1, <1>2, <1>3 DEF Records

LEMMA QueuedRecord ==
  ASSUME NEW r \in Records
  PROVE  Waits(r) \in Records /\ Waits(r).status = "QUEUED" /\ Waits(r).attempts = r.attempts
  BY DEF Waits, Records

LEMMA FailedRecord ==
  ASSUME NEW r \in Records
  PROVE  \/ AfterFailure(r) = NoRecord
         \/ /\ AfterFailure(r) \in Records
            /\ AfterFailure(r).status = "FAILED"
            /\ AfterFailure(r).attempts = 1
  BY DEF AfterFailure, Records

LEMMA FreshRecord == Fresh \in Records /\ Fresh.status = "QUEUED" /\ Fresh.attempts = 0
  BY DEF Fresh, Records

-----------------------------------------------------------------------------
(* A tick.                                                                 *)

TickSets(joined, retry, expired, waiting, batch, gone) ==
    /\ joined \subseteq Place
    /\ \A i \in joined : records[i] = NoRecord /\ SymbolOf(i) \notin SymbolsOf(Queued \cup Fetching)
    /\ \A i, j \in joined : SymbolOf(i) = SymbolOf(j) => i = j
    /\ retry \subseteq Failed
    /\ expired \subseteq Queued \cup retry
    /\ waiting = (Queued \cup retry \cup joined) \ expired
    /\ batch \subseteq waiting
    /\ gone \subseteq batch \ joined
    /\ batch = {} \/ Cardinality(batch) <= Slots

LEMMA JoinedPlaces ==
  ASSUME NEW new \in SUBSET {s \in Selectable : HasPlace(s)}
  PROVE  /\ Enqueued(new) \subseteq Place
         /\ \A i \in Enqueued(new) : /\ records[i] = NoRecord
                                     /\ SymbolOf(i) \notin SymbolsOf(Queued \cup Fetching)
         /\ \A i, j \in Enqueued(new) : SymbolOf(i) = SymbolOf(j) => i = j
  <1>. DEFINE free(s) == CHOOSE n \in 1 .. MaxRecords : records[<<s, n>>] = NoRecord
  <1>1. ASSUME NEW s \in new
        PROVE  /\ s \in Symbol /\ s \notin SymbolsOf(Queued \cup Fetching)
               /\ free(s) \in 1 .. MaxRecords
               /\ records[<<s, free(s)>>] = NoRecord
    <2>1. s \in Selectable /\ HasPlace(s)
      OBVIOUS
    <2>2. PICK n \in 1 .. MaxRecords : records[<<s, n>>] = NoRecord
      BY <2>1 DEF HasPlace
    <2>3. free(s) \in 1 .. MaxRecords /\ records[<<s, free(s)>>] = NoRecord
      BY <2>2
    <2>. QED
      BY <2>1, <2>3 DEF Selectable
  <1>2. \A i \in Enqueued(new) : \E s \in new : i = <<s, free(s)>>
    BY DEF Enqueued
  <1>. HIDE DEF free
  <1>3. ASSUME NEW i \in Enqueued(new)
        PROVE  /\ i \in Place
               /\ records[i] = NoRecord
               /\ SymbolOf(i) \notin SymbolsOf(Queued \cup Fetching)
    <2>1. PICK s \in new : i = <<s, free(s)>>
      BY <1>2
    <2>. QED
      BY <1>1, <2>1 DEF Place, SymbolOf
  <1>4. ASSUME NEW i \in Enqueued(new), NEW j \in Enqueued(new), SymbolOf(i) = SymbolOf(j)
        PROVE  i = j
    <2>1. PICK s \in new : i = <<s, free(s)>>
      BY <1>2
    <2>2. PICK t \in new : j = <<t, free(t)>>
      BY <1>2
    <2>. QED
      BY <1>4, <2>1, <2>2 DEF SymbolOf
  <1>. QED
    BY <1>3, <1>4

LEMMA TickShape ==
  ASSUME TypeOK, Tick
  PROVE  \E joined, retry, expired, waiting, batch, gone :
            /\ TickSets(joined, retry, expired, waiting, batch, gone)
            /\ TickWith(joined, retry, expired, waiting, batch, gone)
  <1>1. PICK new \in SUBSET {s \in Selectable : HasPlace(s)}, retry \in SUBSET Failed :
          LET joined  == Enqueued(new)
              expired == Overdue(Queued \cup retry)
              waiting == (Queued \cup retry \cup joined) \ expired
          IN  \E batch \in Batches(waiting) : \E gone \in SUBSET (batch \ joined) :
                  TickWith(joined, retry, expired, waiting, batch, gone)
    BY DEF Tick
  <1>. DEFINE joined  == Enqueued(new)
              expired == Overdue(Queued \cup retry)
              waiting == (Queued \cup retry \cup joined) \ expired
  <1>2. PICK batch \in Batches(waiting) : \E gone \in SUBSET (batch \ joined) :
                TickWith(joined, retry, expired, waiting, batch, gone)
    BY <1>1
  <1>3. PICK gone \in SUBSET (batch \ joined) :
                TickWith(joined, retry, expired, waiting, batch, gone)
    BY <1>2
  <1>4. /\ joined \subseteq Place
        /\ \A i \in joined : records[i] = NoRecord /\ SymbolOf(i) \notin SymbolsOf(Queued \cup Fetching)
        /\ \A i, j \in joined : SymbolOf(i) = SymbolOf(j) => i = j
    BY JoinedPlaces
  <1>5. expired \subseteq Queued \cup retry
    BY DEF Overdue
  <1>6. batch \subseteq waiting
    BY DEF Batches
  <1>7. batch = {} \/ Cardinality(batch) <= Slots
    <2>. HIDE DEF waiting
    <2>0. Slots \in Int
      BY DiscoveryAssumption DEF TypeOK, Slots
    <2>1. CASE Slots <= 0 /\ batch = {}
      BY <2>1
    <2>2. CASE Cardinality(batch) = Slots
      <3>1. batch \subseteq Place
        BY <1>4, <1>5, <1>6, Groups DEF waiting
      <3>2. Cardinality(batch) \in Nat
        BY <3>1, Counted
      <3>. QED
        BY <2>0, <2>2, <3>2
    <2>3. CASE Cardinality(batch) < Slots
      <3>1. batch \subseteq Place
        BY <1>4, <1>5, <1>6, Groups DEF waiting
      <3>2. Cardinality(batch) \in Nat
        BY <3>1, Counted
      <3>. QED
        BY <2>0, <2>3, <3>2
    <2>. QED
      BY <2>1, <2>2, <2>3 DEF Batches
  <1>8. TickSets(joined, retry, expired, waiting, batch, gone)
    <2>. HIDE DEF joined, expired
    <2>. QED
      BY <1>4, <1>5, <1>6, <1>7 DEF TickSets
  <1>. HIDE DEF joined, expired, waiting
  <1>. QED
    BY <1>3, <1>8

\* What becomes of a place: whether it has a record, and in which group.
LEMMA PlaceAfterTick ==
  ASSUME TypeOK, NEW joined, NEW retry, NEW expired, NEW waiting, NEW batch, NEW gone,
         TickSets(joined, retry, expired, waiting, batch, gone),
         TickWith(joined, retry, expired, waiting, batch, gone),
         NEW i \in Place
  PROVE  /\ i \in expired => records'[i] = NoRecord
         /\ i \in gone => \/ records'[i] = NoRecord
                          \/ /\ records'[i] \in Records
                             /\ records'[i].status = "FAILED"
                             /\ records'[i].attempts = 1
         /\ i \in batch \ gone => /\ records'[i] \in Records
                                  /\ records'[i].status = "FETCHING"
                                  /\ records'[i].attempts = RecordAt(i).attempts + 1
         /\ i \in waiting \ batch => /\ records'[i] \in Records
                                     /\ records'[i].status = "QUEUED"
                                     /\ records'[i].attempts = RecordAt(i).attempts
         /\ (i \notin waiting \cup expired /\ records[i] = NoRecord) => records'[i] = NoRecord
         /\ (i \notin waiting \cup expired /\ records[i] # NoRecord) =>
               /\ records'[i] \in Records
               /\ records'[i].status = records[i].status
               /\ records'[i].attempts = records[i].attempts
  <1>. DEFINE r == Older(RecordAt(i))
  <1>1. RecordAt(i) \in Records
    BY FreshRecord DEF TypeOK, RecordAt
  <1>2. r \in Records /\ r.status = RecordAt(i).status /\ r.attempts = RecordAt(i).attempts
    BY <1>1, OlderRecord
  <1>. HIDE DEF r
  <1>3. records'[i] = IF i \in expired THEN NoRecord
                      ELSE IF i \in gone THEN AfterFailure(Tried(r))
                      ELSE IF i \in batch THEN Tried(r)
                      ELSE IF i \in waiting THEN Waits(r)
                      ELSE IF records[i] = NoRecord THEN NoRecord ELSE r
    BY DEF TickWith, r
  <1>4. /\ waiting \cap expired = {}
        /\ batch \subseteq waiting
        /\ gone \subseteq batch
    BY DEF TickSets
  <1>5. CASE i \in expired
    BY <1>3, <1>4, <1>5
  <1>6. CASE i \in gone
    <2>1. records'[i] = AfterFailure(Tried(r))
      BY <1>3, <1>4, <1>6
    <2>. QED
      BY <1>2, <1>4, <1>6, <2>1, TriedRecord, FailedRecord
  <1>7. CASE i \in batch \ gone
    <2>1. records'[i] = Tried(r)
      BY <1>3, <1>4, <1>7
    <2>. QED
      BY <1>2, <1>4, <1>7, <2>1, TriedRecord
  <1>8. CASE i \in waiting \ batch
    <2>1. records'[i] = Waits(r)
      BY <1>3, <1>4, <1>8
    <2>. QED
      BY <1>2, <1>4, <1>8, <2>1, QueuedRecord
  <1>9. CASE i \notin waiting \cup expired
    <2>1. CASE records[i] = NoRecord
      BY <1>3, <1>4, <1>9, <2>1
    <2>2. CASE records[i] # NoRecord
      <3>1. records'[i] = r
        BY <1>3, <1>4, <1>9, <2>2
      <3>2. RecordAt(i) = records[i]
        BY <2>2 DEF RecordAt
      <3>. QED
        BY <1>2, <1>4, <1>9, <2>2, <3>1, <3>2
    <2>. QED
      BY <2>1, <2>2
  <1>. QED
    BY <1>5, <1>6, <1>7, <1>8, <1>9

\* The groups after a tick.
LEMMA GroupsAfterTick ==
  ASSUME TypeOK, NEW joined, NEW retry, NEW expired, NEW waiting, NEW batch, NEW gone,
         TickSets(joined, retry, expired, waiting, batch, gone),
         TickWith(joined, retry, expired, waiting, batch, gone)
  PROVE  /\ Queued' = waiting \ batch
         /\ Fetching' = Fetching \cup (batch \ gone)
         /\ records' \in [Place -> Records \cup {NoRecord}]
  <1>1. /\ waiting \subseteq Place
        /\ batch \subseteq waiting /\ gone \subseteq batch
        /\ Queued \subseteq waiting \cup expired
        /\ waiting \cap Fetching = {} /\ expired \cap Fetching = {}
        /\ waiting \cap expired = {}
    <2>1. \A i \in joined : i \notin Fetching
      BY Groups DEF TickSets, Fetching, With
    <2>. QED
      BY <2>1, Groups DEF TickSets
  <1>2. ASSUME NEW i \in Place
        PROVE  /\ i \in Queued' <=> i \in waiting \ batch
               /\ i \in Fetching' <=> i \in Fetching \cup (batch \ gone)
               /\ records'[i] \in Records \cup {NoRecord}
    <2>1. CASE i \in expired
      BY <1>1, <2>1, PlaceAfterTick, MemberAfter
    <2>2. CASE i \in gone
      BY <1>1, <2>2, PlaceAfterTick, MemberAfter
    <2>3. CASE i \in batch \ gone
      BY <1>1, <2>3, PlaceAfterTick, MemberAfter, NoRecordIsNone
    <2>4. CASE i \in waiting \ batch
      BY <1>1, <2>4, PlaceAfterTick, MemberAfter, NoRecordIsNone
    <2>5. CASE i \notin waiting \cup expired
      <3>1. CASE records[i] = NoRecord
        BY <1>1, <2>5, <3>1, PlaceAfterTick, MemberAfter, Member
      <3>2. CASE records[i] # NoRecord
        BY <1>1, <2>5, <3>2, PlaceAfterTick, MemberAfter, Member, NoRecordIsNone
      <3>. QED
        BY <3>1, <3>2
    <2>. QED
      BY <2>1, <2>2, <2>3, <2>4, <2>5
  <1>3. Queued' \subseteq Place /\ Fetching' \subseteq Place
    BY DEF Queued, Fetching, With
  <1>4. Queued' = waiting \ batch
    BY <1>1, <1>2, <1>3
  <1>5. Fetching' = Fetching \cup (batch \ gone)
    BY <1>1, <1>2, <1>3, Groups
  <1>6. records' \in [Place -> Records \cup {NoRecord}]
    <2>1. records' = [i \in Place |-> records'[i]]
      BY DEF TickWith
    <2>. QED
      BY <1>2, <2>1
  <1>. QED
    BY <1>4, <1>5, <1>6

LEMMA TickCounts ==
  ASSUME TypeOK, SlotsExact,
         NEW joined, NEW retry, NEW expired, NEW waiting, NEW batch, NEW gone,
         TickSets(joined, retry, expired, waiting, batch, gone),
         TickWith(joined, retry, expired, waiting, batch, gone)
  PROVE  SlotsExact' /\ queuedCount' \in Nat
  <1>1. /\ Queued' = waiting \ batch
        /\ Fetching' = Fetching \cup (batch \ gone)
    BY GroupsAfterTick
  <1>2. /\ activeFetches' = activeFetches + Cardinality(batch \ gone)
        /\ queuedCount' = queuedCount + Cardinality(joined) + Cardinality(retry)
                                      - Cardinality(expired) - Cardinality(batch)
        /\ threw' = threw
    BY DEF TickWith
  <1>. DEFINE all == (Queued \cup retry) \cup joined
  <1>3. /\ joined \in SUBSET Place /\ retry \in SUBSET Place /\ Queued \in SUBSET Place
        /\ Fetching \in SUBSET Place /\ Queued \cup retry \in SUBSET Place
        /\ Queued \cap retry = {} /\ (Queued \cup retry) \cap joined = {}
        /\ all \in SUBSET Place /\ expired \in SUBSET all /\ waiting = all \ expired
        /\ waiting \in SUBSET Place /\ batch \in SUBSET waiting /\ batch \in SUBSET Place
        /\ batch \ gone \in SUBSET batch /\ batch \ gone \in SUBSET Place
        /\ Fetching \cap (batch \ gone) = {}
    <2>1. \A i \in joined : i \notin Fetching /\ i \notin Queued /\ i \notin Failed
      BY Groups DEF TickSets, Fetching, Queued, Failed, With
    <2>. QED
      BY <2>1, Groups DEF TickSets
  <1>4. /\ Cardinality(all) = Cardinality(Queued) + Cardinality(retry) + Cardinality(joined)
        /\ Cardinality(waiting) = Cardinality(all) - Cardinality(expired)
        /\ Cardinality(waiting \ batch) = Cardinality(waiting) - Cardinality(batch)
    <2>1. Cardinality(Queued \cup retry) = Cardinality(Queued) + Cardinality(retry)
      BY <1>3, CountWith
    <2>2. Cardinality(all) = Cardinality(Queued \cup retry) + Cardinality(joined)
      BY <1>3, CountWith
    <2>. HIDE DEF all
    <2>3. Cardinality(all \ expired) = Cardinality(all) - Cardinality(expired)
      BY <1>3, CountWithout
    <2>4. Cardinality(waiting \ batch) = Cardinality(waiting) - Cardinality(batch)
      BY <1>3, CountWithout
    <2>. QED
      BY <1>3, <2>1, <2>2, <2>3, <2>4
  <1>5. Cardinality(Fetching \cup (batch \ gone)) = Cardinality(Fetching) + Cardinality(batch \ gone)
    BY <1>3, CountWith
  <1>6. /\ Cardinality(joined) \in Nat /\ Cardinality(retry) \in Nat /\ Cardinality(Queued) \in Nat
        /\ Cardinality(Fetching) \in Nat /\ Cardinality(waiting) \in Nat /\ Cardinality(batch) \in Nat
        /\ Cardinality(batch \ gone) \in Nat /\ Cardinality(waiting \ batch) \in Nat
        /\ Cardinality(expired) \in Nat
    <2>. HIDE DEF all
    <2>1. expired \in SUBSET Place /\ waiting \ batch \in SUBSET Place
      BY <1>3
    <2>. QED
      BY <1>3, <2>1, Counted
  <1>7. Cardinality(batch \ gone) <= Cardinality(batch)
    <2>1. IsFiniteSet(batch)
      BY <1>3, Counted
    <2>. QED
      BY <1>3, <2>1, FS_Subset
  <1>8. /\ activeFetches \in Nat /\ Concurrency \in Nat
        /\ activeFetches <= Concurrency
        /\ activeFetches <= Cardinality(Fetching)
        /\ ~threw => activeFetches = Cardinality(Fetching)
        /\ queuedCount = Cardinality(Queued)
    BY DiscoveryAssumption DEF SlotsExact
  <1>9. activeFetches + Cardinality(batch \ gone) <= Concurrency
    <2>1. CASE batch = {}
      <3>1. Cardinality(batch \ gone) = 0
        BY <2>1, FS_EmptySet
      <3>. QED
        BY <1>8, <3>1
    <2>2. CASE Cardinality(batch) <= Slots
      BY <1>6, <1>7, <1>8, <2>2 DEF Slots
    <2>. QED
      BY <2>1, <2>2 DEF TickSets
  <1>10. activeFetches' \in 0 .. Concurrency
    BY <1>2, <1>6, <1>8, <1>9
  <1>11. /\ activeFetches' <= Cardinality(Fetching')
         /\ ~threw' => activeFetches' = Cardinality(Fetching')
    BY <1>1, <1>2, <1>5, <1>6, <1>8
  <1>12. queuedCount' = Cardinality(Queued') /\ queuedCount' \in Nat
    <2>. HIDE DEF all
    <2>. QED
      BY <1>1, <1>2, <1>4, <1>6, <1>8
  <1>. QED
    BY <1>10, <1>11, <1>12 DEF SlotsExact

\* A place that holds a first attempt after the tick held it before, or joined.
LEMMA FirstAfterTick ==
  ASSUME TypeOK, Attempted,
         NEW joined, NEW retry, NEW expired, NEW waiting, NEW batch, NEW gone,
         TickSets(joined, retry, expired, waiting, batch, gone),
         TickWith(joined, retry, expired, waiting, batch, gone),
         NEW i \in Place, FirstAttempt(i)'
  PROVE  i \in joined \/ FirstAttempt(i)
  <1>1. SUFFICES ASSUME i \notin joined
                 PROVE  FirstAttempt(i)
    OBVIOUS
  <1>2. /\ i \in waiting => i \in Queued \/ i \in Failed
        /\ batch \subseteq waiting /\ waiting \cap expired = {} /\ gone \subseteq batch
    BY <1>1 DEF TickSets
  <1>3. /\ i \in Queued' => i \in waiting \ batch
        /\ i \in Fetching' => i \in Fetching \/ i \in batch \ gone
    BY GroupsAfterTick
  <1>4. CASE i \in Queued' /\ records'[i].attempts = 0
    <2>1. i \in waiting \ batch
      BY <1>3, <1>4
    <2>2. records'[i].attempts = RecordAt(i).attempts
      BY <2>1, PlaceAfterTick
    <2>3. RecordAt(i) = records[i]
      BY <1>2, <2>1, Member DEF RecordAt
    <2>. QED
      BY <1>2, <1>4, <2>1, <2>2, <2>3 DEF Attempted, FirstAttempt
  <1>5. CASE i \in Fetching' /\ records'[i].attempts = 1
    <2>1. CASE i \in batch \ gone
      <3>1. records'[i].attempts = RecordAt(i).attempts + 1
        BY <2>1, PlaceAfterTick
      <3>2. records[i] # NoRecord /\ RecordAt(i) = records[i]
        BY <1>2, <2>1, Member DEF RecordAt
      <3>3. records[i].attempts \in Nat
        BY <3>2 DEF TypeOK, Records
      <3>4. records[i].attempts = 0
        BY <1>5, <3>1, <3>2, <3>3
      <3>. QED
        BY <1>2, <2>1, <3>4 DEF Attempted, FirstAttempt
    <2>2. CASE i \in Fetching /\ i \notin waiting
      <3>1. records[i] # NoRecord
        BY <2>2, Member
      <3>2. i \notin expired
        BY <2>2, Groups DEF TickSets
      <3>3. records'[i].attempts = records[i].attempts
        BY <2>2, <3>1, <3>2, PlaceAfterTick
      <3>. QED
        BY <1>5, <2>2, <3>3 DEF FirstAttempt
    <2>. QED
      BY <1>2, <1>3, <1>5, <2>1, <2>2, Groups
  <1>. QED
    BY <1>4, <1>5 DEF FirstAttempt

LEMMA TickKeeps ==
  ASSUME IInv, Tick
  PROVE  IInv'
  <1>0. TypeOK /\ SlotsExact /\ OneFirstAttempt /\ Attempted
    BY DEF IInv
  <1>1. PICK joined, retry, expired, waiting, batch, gone :
            /\ TickSets(joined, retry, expired, waiting, batch, gone)
            /\ TickWith(joined, retry, expired, waiting, batch, gone)
    BY <1>0, TickShape
  <1>2. SlotsExact' /\ queuedCount' \in Nat
    BY <1>0, <1>1, TickCounts
  <1>3. TypeOK'
    <2>1. records' \in [Place -> Records \cup {NoRecord}]
      BY <1>0, <1>1, GroupsAfterTick
    <2>2. cache' \in [Symbol -> {"telemetry", "failure", "none"}]
      BY <1>0, <1>1 DEF TypeOK, TickWith
    <2>3. threw' \in BOOLEAN
      BY <1>0, <1>1 DEF TypeOK, TickWith
    <2>. QED
      BY <1>2, <2>1, <2>2, <2>3 DEF TypeOK, SlotsExact
  <1>4. OneFirstAttempt'
    <2>1. SUFFICES ASSUME NEW i \in Place, NEW j \in Place, SymbolOf(i) = SymbolOf(j),
                          FirstAttempt(i)', FirstAttempt(j)'
                   PROVE  i = j
      BY DEF OneFirstAttempt
    <2>2. /\ i \in joined \/ FirstAttempt(i)
          /\ j \in joined \/ FirstAttempt(j)
      BY <1>0, <1>1, <2>1, FirstAfterTick
    <2>3. ASSUME NEW x \in joined, NEW y \in Place, FirstAttempt(y)
          PROVE  SymbolOf(x) # SymbolOf(y)
      BY <1>1, <2>3 DEF TickSets, FirstAttempt, SymbolsOf
    <2>4. \A x, y \in joined : SymbolOf(x) = SymbolOf(y) => x = y
      BY <1>1 DEF TickSets
    <2>. QED
      BY <1>0, <2>1, <2>2, <2>3, <2>4 DEF OneFirstAttempt
  <1>5. Attempted'
    <2>1. SUFFICES ASSUME NEW i \in Place
                   PROVE  /\ i \in Failed' => records'[i].attempts = 1
                          /\ i \in Fetching' => records'[i].attempts > 0
      BY DEF Attempted
    <2>2. CASE i \in expired
      BY <1>0, <1>1, <2>2, PlaceAfterTick, MemberAfter
    <2>3. CASE i \in gone
      BY <1>0, <1>1, <2>3, PlaceAfterTick, MemberAfter
    <2>4. CASE i \in batch \ gone
      <3>1. RecordAt(i).attempts \in Nat
        BY <1>0, FreshRecord DEF TypeOK, RecordAt, Records
      <3>. QED
        BY <1>0, <1>1, <2>4, <3>1, PlaceAfterTick, MemberAfter
    <2>5. CASE i \in waiting \ batch
      BY <1>0, <1>1, <2>5, PlaceAfterTick, MemberAfter
    <2>6. CASE i \notin waiting \cup expired
      BY <1>0, <1>1, <2>6, PlaceAfterTick, MemberAfter, Member DEF Attempted
    <2>7. gone \subseteq waiting /\ batch \subseteq waiting
      BY <1>1 DEF TickSets
    <2>. QED
      BY <2>2, <2>3, <2>4, <2>5, <2>6, <2>7
  <1>. QED
    BY <1>2, <1>3, <1>4, <1>5 DEF IInv
-----------------------------------------------------------------------------
(* The end of a scan, the cache.                                           *)

\* The place leaves the fetched ones, the slot is counted back once or twice.
LEMMA ScanEndKeeps ==
  ASSUME IInv, NEW i \in Fetching, NEW r \in Records \cup {NoRecord},
         r = NoRecord \/ (r.status = "FAILED" /\ r.attempts = 1),
         records' = [records EXCEPT ![i] = r],
         \/ activeFetches' = AtLeastZero(activeFetches - 1) /\ threw' = threw
         \/ /\ activeFetches' = AtLeastZero(AtLeastZero(activeFetches - 1) - 1)
            /\ threw' = TRUE,
         queuedCount' = queuedCount,
         cache' \in [Symbol -> {"telemetry", "failure", "none"}]
  PROVE  IInv'
  <1>0. TypeOK /\ SlotsExact /\ OneFirstAttempt /\ Attempted /\ i \in Place
    BY Groups DEF IInv
  <1>1. /\ records' \in [Place -> Records \cup {NoRecord}]
        /\ records'[i] = r
        /\ \A j \in Place : j # i => records'[j] = records[j]
    BY <1>0 DEF TypeOK
  <1>2. Queued' = Queued /\ Fetching' = Fetching \ {i}
    <2>1. ASSUME NEW j \in Place
          PROVE  /\ j \in Queued' <=> j \in Queued
                 /\ j \in Fetching' <=> j \in Fetching \ {i}
      <3>1. CASE j = i
        BY <1>0, <1>1, <3>1, Member, MemberAfter
      <3>2. CASE j # i
        BY <1>1, <3>2, Member, MemberAfter
      <3>. QED
        BY <3>1, <3>2
    <2>2. Queued' \subseteq Place /\ Fetching' \subseteq Place
      BY DEF Queued, Fetching, With
    <2>. QED
      BY <2>1, <2>2, Groups
  <1>3. /\ Cardinality(Fetching') = Cardinality(Fetching) - 1
        /\ Cardinality(Fetching) \in Nat /\ Cardinality(Fetching') \in Nat
    <2>1. Fetching \in SUBSET Place /\ Fetching' \in SUBSET Place /\ {i} \in SUBSET Fetching
      BY <1>2, Groups
    <2>2. Cardinality(Fetching \ {i}) = Cardinality(Fetching) - Cardinality({i})
      BY <2>1, CountWithout
    <2>. QED
      BY <1>2, <2>1, <2>2, Counted, FS_Singleton
  <1>4. SlotsExact' /\ TypeOK'
    <2>1. /\ activeFetches \in 0 .. Concurrency /\ Concurrency \in Nat
          /\ activeFetches <= Cardinality(Fetching)
          /\ ~threw => activeFetches = Cardinality(Fetching)
          /\ queuedCount = Cardinality(Queued) /\ queuedCount \in Nat /\ threw \in BOOLEAN
      BY <1>0, DiscoveryAssumption DEF SlotsExact, TypeOK
    <2>2. /\ activeFetches' \in 0 .. Concurrency
          /\ activeFetches' <= Cardinality(Fetching')
          /\ ~threw' => activeFetches' = Cardinality(Fetching')
      BY <1>3, <2>1 DEF AtLeastZero
    <2>3. threw' \in BOOLEAN
      BY <2>1
    <2>. QED
      BY <1>1, <1>2, <2>1, <2>2, <2>3 DEF SlotsExact, TypeOK
  <1>5. \A j \in Place : FirstAttempt(j)' => FirstAttempt(j)
    <2>1. ASSUME NEW j \in Place, FirstAttempt(j)'
          PROVE  FirstAttempt(j)
      <3>1. CASE j = i
        BY <1>0, <1>2, <2>1, <3>1, Groups DEF FirstAttempt
      <3>2. CASE j # i
        BY <1>1, <1>2, <2>1, <3>2 DEF FirstAttempt
      <3>. QED
        BY <3>1, <3>2
    <2>. QED
      BY <2>1
  <1>6. OneFirstAttempt'
    BY <1>0, <1>5 DEF OneFirstAttempt
  <1>7. Attempted'
    <2>1. SUFFICES ASSUME NEW j \in Place
                   PROVE  /\ j \in Failed' => records'[j].attempts = 1
                          /\ j \in Fetching' => records'[j].attempts > 0
      BY DEF Attempted
    <2>2. CASE j = i
      BY <1>1, <1>2, <2>2, MemberAfter
    <2>3. CASE j # i
      BY <1>0, <1>1, <2>3, Member, MemberAfter DEF Attempted
    <2>. QED
      BY <2>2, <2>3
  <1>. QED
    BY <1>4, <1>6, <1>7 DEF IInv

LEMMA ScanKeeps ==
  ASSUME IInv, NEW i \in Place, ScanFails(i) \/ ScanThrows(i) \/ ScanCompletes(i)
  PROVE  IInv'
  <1>1. /\ i \in Fetching
        /\ records[i] \in Records
        /\ cache \in [Symbol -> {"telemetry", "failure", "none"}]
        /\ SymbolOf(i) \in Symbol
    BY Member DEF IInv, TypeOK, ScanFails, ScanThrows, ScanCompletes, SymbolOf, Place
  <1>2. CASE ScanFails(i) \/ ScanThrows(i)
    <2>. DEFINE r == AfterFailure(records[i])
    <2>1. /\ records' = [records EXCEPT ![i] = r]
          /\ cache' \in [Symbol -> {"telemetry", "failure", "none"}]
      BY <1>1, <1>2 DEF ScanFails, ScanThrows, MarkFailed
    <2>2. r \in Records \cup {NoRecord} /\ (r = NoRecord \/ (r.status = "FAILED" /\ r.attempts = 1))
      BY <1>1, FailedRecord
    <2>3. \/ activeFetches' = AtLeastZero(activeFetches - 1) /\ threw' = threw
          \/ /\ activeFetches' = AtLeastZero(AtLeastZero(activeFetches - 1) - 1)
             /\ threw' = TRUE
      BY <1>2 DEF ScanFails, ScanThrows, Release
    <2>4. queuedCount' = queuedCount
      BY <1>2 DEF ScanFails, ScanThrows
    <2>. HIDE DEF r
    <2>. QED
      BY <1>1, <2>1, <2>2, <2>3, <2>4, ScanEndKeeps
  <1>3. CASE ScanCompletes(i)
    <2>1. /\ records' = [records EXCEPT ![i] = NoRecord]
          /\ cache' \in [Symbol -> {"telemetry", "failure", "none"}]
          /\ activeFetches' = AtLeastZero(activeFetches - 1) /\ threw' = threw
          /\ queuedCount' = queuedCount
      BY <1>1, <1>3 DEF ScanCompletes, MarkComplete, Release
    <2>. QED
      BY <1>1, <2>1, ScanEndKeeps
  <1>. QED
    BY <1>2, <1>3

\* Nothing but the cache and the ages of records, which the invariant does not
\* look at.
LEMMA QuietKeeps ==
  ASSUME IInv, UNCHANGED <<records, activeFetches, queuedCount, threw>>,
         cache' \in [Symbol -> {"telemetry", "failure", "none"}]
  PROVE  IInv'
  <1>1. Queued' = Queued /\ Fetching' = Fetching /\ Failed' = Failed
    BY DEF Queued, Fetching, Failed, With
  <1>. QED
    BY <1>1 DEF IInv, TypeOK, SlotsExact, OneFirstAttempt, FirstAttempt, Attempted

-----------------------------------------------------------------------------
LEMMA Initial == Init => IInv
  <1>1. SUFFICES ASSUME Init PROVE IInv
    OBVIOUS
  <1>2. Queued = {} /\ Fetching = {} /\ Failed = {}
    BY <1>1 DEF Init, Queued, Fetching, Failed, With
  <1>3. Cardinality(Queued) = 0 /\ Cardinality(Fetching) = 0
    BY <1>2, FS_EmptySet
  <1>4. TypeOK
    <2>1. records \in [Place -> Records \cup {NoRecord}]
      BY <1>1 DEF Init
    <2>2. cache \in [Symbol -> {"telemetry", "failure", "none"}]
      BY <1>1 DEF Init
    <2>3. activeFetches = 0 /\ queuedCount = 0
      BY <1>1 DEF Init
    <2>4. activeFetches \in 0 .. Concurrency /\ queuedCount \in Nat
      BY <2>3, DiscoveryAssumption
    <2>5. threw \in BOOLEAN
      BY <1>1, Zenon DEF Init
    <2>. QED
      BY <2>1, <2>2, <2>4, <2>5 DEF TypeOK
  <1>5. SlotsExact
    BY <1>1, <1>3, DiscoveryAssumption DEF Init, SlotsExact
  <1>6. OneFirstAttempt /\ Attempted
    BY <1>2 DEF OneFirstAttempt, FirstAttempt, Attempted
  <1>. QED
    BY <1>4, <1>5, <1>6 DEF IInv

LEMMA Inductive == IInv /\ [Next]_vars => IInv'
  <1>1. SUFFICES ASSUME IInv, [Next]_vars PROVE IInv'
    OBVIOUS
  <1>2. CASE Tick
    BY <1>1, <1>2, TickKeeps
  <1>3. CASE \E i \in Place : ScanFails(i) \/ ScanThrows(i) \/ ScanCompletes(i)
    BY <1>1, <1>3, ScanKeeps
  <1>4. CASE \E s \in Symbol : CacheLapses(s)
    <2>1. cache' \in [Symbol -> {"telemetry", "failure", "none"}]
      BY <1>1, <1>4 DEF IInv, TypeOK, CacheLapses
    <2>. QED
      BY <1>1, <1>4, <2>1, QuietKeeps DEF CacheLapses
  <1>5. CASE UNCHANGED vars
    <2>1. cache' \in [Symbol -> {"telemetry", "failure", "none"}]
      BY <1>1, <1>5 DEF IInv, TypeOK, vars
    <2>. QED
      BY <1>1, <1>5, <2>1, QuietKeeps DEF vars
  <1>. QED
    BY <1>1, <1>2, <1>3, <1>4, <1>5 DEF Next

LEMMA Invariance == Spec => []IInv
  BY Initial, Inductive, PTL DEF Spec

\* Every variable of the queue keeps its type, for any finite universe.
THEOREM TypeCorrect == Spec => []TypeOK
  <1>1. IInv => TypeOK
    BY DEF IInv
  <1>. QED
    BY <1>1, Invariance, PTL

\* However ticks overlap and scans end, no slot is lost: never more scans are
\* counted than run, and without a throw after a completion the count is exact,
\* so that at most deepScanConcurrency scans run.
THEOREM SlotsAreExact == Spec => []SlotsExact
  <1>1. IInv => SlotsExact
    BY DEF IInv
  <1>. QED
    BY <1>1, Invariance, PTL

\* Whatever ways the earlier scans of a symbol ended, at most one of its records
\* waits for its first scan or is in it.
THEOREM FirstAttemptsAreSingle == Spec => []OneFirstAttempt
  <1>1. IInv => OneFirstAttempt
    BY DEF IInv
  <1>. QED
    BY <1>1, Invariance, PTL
=============================================================================
