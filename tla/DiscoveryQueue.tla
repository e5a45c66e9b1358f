--------------------------- MODULE DiscoveryQueue ---------------------------
(***************************************************************************)
(* The queue of AES discovery and the interval that feeds it, takes        *)
(* batches from it and scans their symbols.                                *)
(*                                                                         *)
(* The interval is an async function without a busy flag: scans of several *)
(* ticks may be in flight together.  A tick is one action up to its only   *)
(* await, the end of a scan another.  A tick that finds the rate limit     *)
(* used changes nothing and is left out; one that goes on has a budget for *)
(* any batch, because it pauses at half the limit and the budget is what   *)
(* is left below the freeze ceiling, so SKIPPED_RATE_BUDGET does not occur. *)
(*                                                                         *)
(* Records.  One that is complete, expired, skipped or has failed twice is *)
(* never looked at again but for display: its place is free.               *)
(*                                                                         *)
(* Time.  TTL is counted in ticks.  A cache entry lapses at any moment, a  *)
(* failure is old enough for a retry at any tick.                          *)
(*                                                                         *)
(* The list of active shadow trades that a tick leaves out of the          *)
(* selection (activeSyms) is the one its effect closed over when storage   *)
(* became ready, which is empty for the life of the page.                  *)
(***************************************************************************)
EXTENDS Integers, FiniteSets

CONSTANTS
    Symbol,
    Concurrency,  \* deepScanConcurrency
    TTL,          \* candidateQueueTtlMs in ticks
    MaxRecords,   \* bound: the records of a symbol that are kept at a time
    NoRecord      \* a place without a record

Place   == Symbol \X (1 .. MaxRecords)
Records == [status : {"QUEUED", "FETCHING", "FAILED"}, attempts : Nat, age : Nat]

ASSUME DiscoveryAssumption ==
    /\ IsFiniteSet(Symbol)
    /\ {Concurrency, TTL, MaxRecords} \subseteq Nat
    /\ Concurrency > 0
    /\ NoRecord \notin Records

VARIABLES
    records,        \* the queue's records that may still be taken
    activeFetches,  \* _activeFetches
    queuedCount,    \* metrics.queuedCount
    cache,          \* "telemetry", "failure" or "none", by symbol
    threw           \* whether a scan ever failed after it was complete

vars == <<records, activeFetches, queuedCount, cache, threw>>

SymbolOf(i) == i[1]
SymbolsOf(places) == {SymbolOf(i) : i \in places}

With(status) == {i \in Place : records[i] # NoRecord /\ records[i].status = status}
Queued   == With("QUEUED")
Fetching == With("FETCHING")
Failed   == With("FAILED")

AtLeastZero(n) == IF n < 0 THEN 0 ELSE n
-----------------------------------------------------------------------------
(***************************************************************************)
(* A tick.                                                                 *)
(***************************************************************************)
\* Mutant of Selectable: a symbol that is being fetched is selected again.
SelectableUnlessQueued ==
    {s \in Symbol : s \notin SymbolsOf(Queued) /\ cache[s] # "telemetry"}

\* Neither queued nor being fetched, which the selection and enqueue both look
\* at, nor with telemetry in the cache.
Selectable ==
    {s \in Symbol : s \notin SymbolsOf(Queued \cup Fetching) /\ cache[s] # "telemetry"}

\* A fresh failure in the cache: the record is SKIPPED_CACHE_FRESH at once.
Enqueued(new) ==
    LET free(s) == CHOOSE n \in 1 .. MaxRecords : records[<<s, n>>] = NoRecord
    IN  {<<s, free(s)>> : s \in {t \in new : cache[t] = "none"}}

HasPlace(s) == \E n \in 1 .. MaxRecords : records[<<s, n>>] = NoRecord

\* One that was tried once is queued again by a later tick, before any tick may
\* remove it; the others are never looked at again.
AfterFailure(r) == IF r.attempts = 1 THEN [r EXCEPT !.status = "FAILED"] ELSE NoRecord

Slots == Concurrency - activeFetches

\* Records expire when a batch is looked for, not when there is no slot.
Overdue(places) == {i \in places : Slots > 0 /\ records[i].age > TTL}

\* As many as there are slots; which of them come first is left open.
Batches(waiting) ==
    {b \in SUBSET waiting :
        \/ Slots <= 0 /\ b = {}
        \/ Slots > 0 /\ Cardinality(b) = Slots
        \/ Slots > 0 /\ Cardinality(b) < Slots /\ b = waiting}

Fresh == [status |-> "QUEUED", attempts |-> 0, age |-> 0]

RecordAt(i) == IF records[i] = NoRecord THEN Fresh ELSE records[i]

Older(r) == IF r.age > TTL THEN r ELSE [r EXCEPT !.age = @ + 1]

Tried(r) == [r EXCEPT !.attempts = @ + 1, !.status = "FETCHING"]

Waits(r) == [r EXCEPT !.status = "QUEUED"]

\* joined and retried records are queued, the others of waiting stay; those of
\* the batch are fetched, but for symbols that have left the universe.
TickWith(joined, retry, expired, waiting, batch, gone) ==
    /\ records' = [i \in Place |->
          LET r == Older(RecordAt(i)) IN
          IF i \in expired THEN NoRecord
          ELSE IF i \in gone THEN AfterFailure(Tried(r))
          ELSE IF i \in batch THEN Tried(r)
          ELSE IF i \in waiting THEN Waits(r)
          ELSE IF records[i] = NoRecord THEN NoRecord ELSE r]
    /\ activeFetches' = activeFetches + Cardinality(batch \ gone)
    /\ queuedCount' = queuedCount + Cardinality(joined) + Cardinality(retry)
                                  - Cardinality(expired) - Cardinality(batch)
    /\ cache' = [s \in Symbol |-> IF s \in SymbolsOf(gone) THEN "failure" ELSE cache[s]]
    /\ UNCHANGED threw

Tick ==
    \E new \in SUBSET {s \in Selectable : HasPlace(s)}, retry \in SUBSET Failed :
    LET joined  == Enqueued(new)
        expired == Overdue(Queued \cup retry)
        waiting == (Queued \cup retry \cup joined) \ expired
    IN  \E batch \in Batches(waiting) : \E gone \in SUBSET (batch \ joined) :
            TickWith(joined, retry, expired, waiting, batch, gone)
-----------------------------------------------------------------------------
(***************************************************************************)
(* The end of a scan.                                                      *)
(***************************************************************************)
\* Mutant of Release: a failed scan keeps its slot.
ReleaseIfComplete(status) == IF status = "FAILED" THEN activeFetches ELSE AtLeastZero(activeFetches - 1)

\* Called by markComplete and markFailed, whatever the record's status was.
Release(status) == AtLeastZero(activeFetches - 1)

MarkFailed(i) ==
    /\ records' = [records EXCEPT ![i] = AfterFailure(@)]
    /\ cache' = [cache EXCEPT ![SymbolOf(i)] = "failure"]

MarkComplete(i) ==
    /\ records' = [records EXCEPT ![i] = NoRecord]
    /\ cache' = [cache EXCEPT ![SymbolOf(i)] = "telemetry"]

ScanFails(i) ==
    /\ i \in Fetching
    /\ MarkFailed(i)
    /\ activeFetches' = Release("FAILED")
    /\ UNCHANGED <<queuedCount, threw>>

\* Something throws after markComplete: the same catch marks the record again.
ScanThrows(i) ==
    /\ i \in Fetching
    /\ MarkFailed(i)
    /\ activeFetches' = AtLeastZero(AtLeastZero(activeFetches - 1) - 1)
    /\ threw' = TRUE
    /\ UNCHANGED queuedCount

ScanCompletes(i) ==
    /\ i \in Fetching
    /\ MarkComplete(i)
    /\ activeFetches' = Release("COMPLETE")
    /\ UNCHANGED <<queuedCount, threw>>

\* What was fetched is fresh for two minutes, a failure for 15 seconds.
CacheLapses(s) ==
    /\ cache[s] # "none"
    /\ cache' = [cache EXCEPT ![s] = "none"]
    /\ UNCHANGED <<records, activeFetches, queuedCount, threw>>

Init ==
    /\ records = [i \in Place |-> NoRecord]
    /\ activeFetches = 0
    /\ queuedCount = 0
    /\ cache = [s \in Symbol |-> "none"]
    /\ threw = FALSE

Next ==
    \/ Tick
    \/ \E i \in Place : ScanFails(i) \/ ScanThrows(i) \/ ScanCompletes(i)
    \/ \E s \in Symbol : CacheLapses(s)

\* The interval ticks, again and again with the rate limit free, and the
\* exchange answers (or fails) each scan.
Fairness == WF_vars(Tick) /\ \A i \in Place : WF_vars(ScanFails(i) \/ ScanCompletes(i))

Spec == Init /\ [][Next]_vars /\ Fairness
-----------------------------------------------------------------------------
\* Every variable has its type.
TypeOK ==
    /\ records \in [Place -> Records \cup {NoRecord}]
    /\ activeFetches \in 0 .. Concurrency
    /\ queuedCount \in Nat
    /\ cache \in [Symbol -> {"telemetry", "failure", "none"}]
    /\ threw \in BOOLEAN

\* No slot is lost, whatever way a scan ends and however ticks overlap: those
\* counted as active are being fetched, and without a throw after a completion
\* the count is exact, so that at most deepScanConcurrency are.
SlotsExact ==
    /\ activeFetches \in 0 .. Concurrency
    /\ activeFetches <= Cardinality(Fetching)
    /\ ~threw => activeFetches = Cardinality(Fetching)
    /\ queuedCount = Cardinality(Queued)

FirstAttempt(i) == \/ i \in Queued /\ records[i].attempts = 0
                   \/ i \in Fetching /\ records[i].attempts = 1

\* A symbol has at most one record whose first scan waits or runs, whatever ways
\* its earlier scans ended; beside it there may be a retry of an older record.
OneFirstAttempt ==
    \A i, j \in Place :
        (SymbolOf(i) = SymbolOf(j) /\ FirstAttempt(i) /\ FirstAttempt(j)) => i = j

\* A record that is queued is fetched or expires.
QueueDrains == \A i \in Place : i \in Queued ~> i \notin Queued
=============================================================================
