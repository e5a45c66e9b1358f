-------------------------- MODULE RuntimeRecovery --------------------------
(***************************************************************************)
(* What the app keeps across a reload, and how: the load at startup, the   *)
(* chain of checkpoints into IndexedDB, the synchronous journal that is    *)
(* written to localStorage when the page hides, and the two effects that   *)
(* store the discovery records.                                            *)
(*                                                                         *)
(* Data.  Every edit of the state is numbered, so a stored value is the    *)
(* number of the edit it holds: Nothing if the key is absent, Blank for    *)
(* the initial state of a page, later numbers for later edits.             *)
(*                                                                         *)
(* The database.  Every request is a transaction of its own over the one   *)
(* object store, so IndexedDB runs them one at a time, those of a key in   *)
(* the order in which they are made; io holds a queue per key, and which   *)
(* key comes next is left open.  idbRequest resolves when the request has  *)
(* succeeded and hears no more of the transaction: the commit is a later   *)
(* step, which may abort.  What a success sets off runs before it.  The    *)
(* page closes or crashes at any moment; the writes that have not been     *)
(* committed by then may or may not reach the store.                       *)
(*                                                                         *)
(* Left out: what migration and normalizeAutoRunForResume make of a value  *)
(* (the value stands for the same edit), the watchlist and the hold time,  *)
(* which are written like the discovery records but read before LOADED,    *)
(* and the legacy localStorage copy of a key, removed by its first write.  *)
(***************************************************************************)
EXTENDS Naturals, Sequences

CONSTANTS
    Core,          \* the keys a checkpoint writes: samples, run and autoRun
    Discovery,     \* the key of the discovery records
    NoJournal,
    Waiting,       \* in the place of a value that is not read yet
    ReadsFail,     \* the keys of which a read of IndexedDB may fail
    MaxEdits,      \* bounds: edits in all,
    MaxFailures,   \* database requests and journal writes that fail,
    MaxMounts,     \* lives of the page,
    MaxRevision    \* and the revision up to which hiding the page is tried

ASSUME KeyAssumption ==
    /\ Discovery \notin Core
    /\ Waiting \notin Nat
    /\ NoJournal \notin [rev : Nat, snap : [Core -> Nat]]
    /\ ReadsFail \subseteq Core \cup {Discovery}

ASSUME BoundAssumption == {MaxEdits, MaxFailures, MaxMounts, MaxRevision} \subseteq Nat

VARIABLES
    disk,      \* what IndexedDB holds of each key
    journal,   \* what localStorage holds under RUNTIME_RECOVERY_LOCAL_KEY
    page,      \* "closed", or storageState
    mem,       \* the state of the app, by key
    load,      \* the load in progress: the journal it saw, the answers it has
    revision,  \* runtimeCheckpointRevisionRef
    chain,     \* checkpoints queued on runtimeCheckpointChainRef
    started,   \* whether the writes of the first of them were made
    writing,   \* and the keys of which the write has not succeeded yet
    io,        \* requests that are not over yet, by key
    \* History, which nothing reads but the properties:
    known,     \* keys of which this page has read or committed what disk holds
    behind,    \* keys of which a write succeeded that was not committed
    safe,      \* the newest state the app could rely on to be kept
    spent      \* edits, failures and mounts so far

vars == <<disk, journal, page, mem, load, revision, chain, started, writing,
          io, known, behind, safe, spent>>

Nothing == 0
Blank   == 1

Key       == Core \cup {Discovery}
Snapshot  == [Core -> Nat]
NewPage   == [k \in Key |-> Blank]
Unread    == [k \in Core |-> Waiting]
Empty     == [k \in Key |-> <<>>]
Larger(m, n) == IF m >= n THEN m ELSE n

\* The part of the state that a checkpoint takes.
Now == [k \in Core |-> mem[k]]

Get(k)         == [op |-> "get", key |-> k, value |-> Nothing, rev |-> 0]
Put(k, v, rev) == [op |-> "put", key |-> k, value |-> v, rev |-> rev]
Done(r)        == [r EXCEPT !.op = "done"]

Fails == /\ spent.failures < MaxFailures
         /\ spent' = [spent EXCEPT !.failures = @ + 1]

-----------------------------------------------------------------------------
(* Startup.                                                                *)

LoadedRevision == IF journal = NoJournal THEN 0 ELSE journal.rev

\* The journal is read at once; the stored values are asked for.
Mount ==
    /\ page = "closed" /\ spent.mounts < MaxMounts
    /\ page' = "LOADING"
    /\ mem' = NewPage
    /\ load' = [journal |-> journal, got |-> Unread]
    /\ revision' = LoadedRevision
    /\ io' = [k \in Key |-> IF k \in Core THEN <<Get(k)>> ELSE <<>>]
    /\ spent' = [spent EXCEPT !.mounts = @ + 1]
    /\ UNCHANGED <<disk, journal, chain, started, writing, known, behind, safe>>

AllRead == page = "LOADING" /\ \A k \in Core : load.got[k] # Waiting

\* Mutant of Restored: without a journal the page starts blank.
RestoredFromJournal(k) == IF load.journal # NoJournal THEN load.journal.snap[k] ELSE Blank

Restored(k) == IF load.journal # NoJournal
               THEN load.journal.snap[k]
               ELSE Larger(load.got[k], Blank)

Checkpoint(rev, snap) == [rev |-> rev, snap |-> snap]

\* storageState becomes LOADED, and every effect that waits for it runs: the
\* loop's first checkpoint, the structural one, the write of the discovery
\* records as they are on this page, and the read of the stored ones.
Restore ==
    /\ AllRead
    /\ page' = "LOADED"
    /\ mem' = [k \in Key |-> IF k \in Core THEN Restored(k) ELSE mem[k]]
    /\ LET snap == [k \in Core |-> Restored(k)]
       IN  chain' = <<Checkpoint(revision + 1, snap), Checkpoint(revision + 2, snap)>>
    /\ revision' = revision + 2
    /\ io' = [io EXCEPT ![Discovery] = <<Put(Discovery, mem[Discovery], 0), Get(Discovery)>>]
    /\ load' = [load EXCEPT !.got = Unread]
    /\ UNCHANGED <<disk, journal, started, writing, known, behind, safe, spent>>

\* A stored record that cannot be parsed or migrated: writes stay disabled.
LoadThrows ==
    /\ AllRead
    /\ load.journal # NoJournal \/ \E k \in Core : load.got[k] # Nothing
    /\ page' = "LOAD_FAILED"
    /\ UNCHANGED <<disk, journal, mem, load, revision, chain, started, writing, io,
                   known, behind, safe, spent>>

-----------------------------------------------------------------------------
(* The state changes.                                                      *)

\* A price, a trade, the run number or the auto-run: it is stored by the next
\* checkpoint.  The discovery records are written by an effect of their own.
\* What happens in a page whose load failed is never kept, and left out.
Edit(k) ==
    /\ page \in {"LOADING", "LOADED"} /\ spent.edits < MaxEdits
    /\ mem' = [mem EXCEPT ![k] = Blank + spent.edits + 1]
    /\ io' = IF k = Discovery /\ page = "LOADED"
             THEN [io EXCEPT ![k] = Append(@, Put(k, Blank + spent.edits + 1, 0))] ELSE io
    /\ spent' = [spent EXCEPT !.edits = @ + 1]
    /\ UNCHANGED <<disk, journal, page, load, revision, chain, started, writing, known, behind, safe>>

-----------------------------------------------------------------------------
(* Checkpoints.                                                            *)

\* What the store comes to hold of k if no write fails.
Coming(k) == IF io[k] = <<>> THEN disk[k] ELSE io[k][Len(io[k])].value

\* The timer and the structural effect also queue a checkpoint of a state that
\* is queued already, or is stored without a journal to clear; those change
\* nothing and are left out.
Unsaved == IF chain = <<>>
           THEN journal # NoJournal \/ \E k \in Core : Coming(k) # mem[k]
           ELSE chain[Len(chain)].snap # Now

QueueRuntimeCheckpoint ==
    /\ page = "LOADED" /\ Unsaved
    /\ revision' = revision + 1
    /\ chain' = Append(chain, Checkpoint(revision + 1, Now))
    /\ UNCHANGED <<disk, journal, page, mem, load, started, writing, io, known, behind, safe, spent>>

Journal == [rev |-> revision + 1, snap |-> Now]

\* pagehide, or visibilitychange to hidden: the journal, then a checkpoint of
\* the same revision.  A full localStorage leaves the journal as it was.
CheckpointForNavigation ==
    /\ page = "LOADED" /\ revision < MaxRevision
    /\ revision' = revision + 1
    /\ chain' = Append(chain, Checkpoint(revision + 1, Now))
    /\ \/ /\ journal' = Journal
          /\ safe' = Now
          /\ UNCHANGED spent
       \/ Fails /\ UNCHANGED <<journal, safe>>
    /\ UNCHANGED <<disk, page, mem, load, started, writing, io, known, behind>>

\* The next link of the chain: its writes are made together.
StartCheckpoint ==
    /\ chain # <<>> /\ ~started
    /\ started' = TRUE /\ writing' = Core
    /\ io' = [k \in Key |-> IF k \in Core
                            THEN Append(io[k], Put(k, chain[1].snap[k], chain[1].rev))
                            ELSE io[k]]
    /\ UNCHANGED <<disk, journal, page, mem, load, revision, chain, known, behind, safe, spent>>

-----------------------------------------------------------------------------
(* IndexedDB and the page's callbacks.                                     *)

AtHead(k, op) == io[k] # <<>> /\ Head(io[k]).op = op
Taken(k)      == io' = [io EXCEPT ![k] = Tail(@)]

\* The transaction of a write that succeeded is still open, and no other begins.
Committing == \E k \in Key : AtHead(k, "done")

\* The first checkpoint of the chain waits for request r.  The writes of one
\* that was rejected are not waited for any more.
Awaited(k, r) == started /\ k \in writing /\ r.rev = chain[1].rev

\* request.onsuccess of a put.
WriteSucceeds(k) ==
    /\ AtHead(k, "put") /\ ~Committing
    /\ io' = [io EXCEPT ![k][1] = Done(@)]
    /\ writing' = IF Awaited(k, Head(io[k])) THEN writing \ {k} ELSE writing
    /\ behind' = behind \cup {k}
    /\ UNCHANGED <<disk, journal, page, mem, load, revision, chain, started, known, safe, spent>>

\* Every write of the first checkpoint has succeeded.
Written == started /\ writing = {}

\* The transaction is committed, once the callbacks of the success have run.
Commit(k) ==
    /\ AtHead(k, "done") /\ ~Written
    /\ Taken(k)
    /\ disk' = [disk EXCEPT ![k] = Head(io[k]).value]
    /\ known' = known \cup {k} /\ behind' = behind \ {k}
    /\ UNCHANGED <<journal, page, mem, load, revision, chain, started, writing, safe, spent>>

\* The commit fails (the quota, the disk): nobody listens to onabort.
CommitAborts(k) ==
    /\ AtHead(k, "done") /\ ~Written /\ Fails
    /\ Taken(k)
    /\ UNCHANGED <<disk, journal, page, mem, load, revision, chain, started, writing,
                   known, behind, safe>>

\* One of the values the load waits for.  A journal makes it of no account.
ReadPerformed(k) ==
    /\ k \in Core /\ AtHead(k, "get") /\ ~Committing
    /\ Taken(k)
    /\ load' = [load EXCEPT !.got[k] = disk[k]]
    /\ known' = IF load.journal = NoJournal THEN known \cup {k} ELSE known
    /\ UNCHANGED <<disk, journal, page, mem, revision, chain, started, writing, behind, safe, spent>>

\* The stored discovery records replace those of the page, and the effect
\* writes them again.
DiscoveryRead ==
    /\ AtHead(Discovery, "get") /\ ~Committing
    /\ IF disk[Discovery] \notin {Nothing, mem[Discovery]}
       THEN /\ mem' = [mem EXCEPT ![Discovery] = disk[Discovery]]
            /\ io' = [io EXCEPT ![Discovery] = Append(Tail(@), Put(Discovery, disk[Discovery], 0))]
       ELSE Taken(Discovery) /\ UNCHANGED mem
    /\ UNCHANGED <<disk, journal, page, load, revision, chain, started, writing,
                   known, behind, safe, spent>>

\* Mutant of Reject: a rejected link is not caught, and no other follows it.
RejectUncaught(k) == UNCHANGED <<chain, started, writing>>

\* Promise.all settles at the first rejection: the other writes may still be
\* under way when the next checkpoint starts.
Reject(k) ==
    IF Awaited(k, Head(io[k]))
    THEN chain' = Tail(chain) /\ started' = FALSE /\ writing' = {}
    ELSE UNCHANGED <<chain, started, writing>>

WriteFails(k) ==
    /\ AtHead(k, "put") /\ ~Committing /\ Fails
    /\ Taken(k)
    /\ Reject(k)
    /\ UNCHANGED <<disk, journal, page, mem, load, revision, known, behind, safe>>

\* storage.get() swallows the error and answers null, as for an absent key: if
\* there is no journal either, what could be relied on is given up.
ReadFails(k) ==
    /\ k \in ReadsFail /\ AtHead(k, "get") /\ ~Committing /\ Fails
    /\ Taken(k)
    /\ load' = IF k \in Core THEN [load EXCEPT !.got[k] = Nothing] ELSE load
    /\ safe' = IF k \in Core /\ load.journal = NoJournal THEN [safe EXCEPT ![k] = Blank] ELSE safe
    /\ UNCHANGED <<disk, journal, page, mem, revision, chain, started, writing, known, behind>>

\* Mutant of Cleared: the journal is removed whatever its revision.
ClearedAlways(rev) == TRUE

\* clearRuntimeRecoveryThrough.
Cleared(rev) == journal # NoJournal => journal.rev <= rev

\* Promise.all resolves: the journal goes, whether or not all is committed.
Confirm ==
    /\ Written
    /\ safe' = [k \in Core |-> Larger(safe[k], chain[1].snap[k])]
    /\ journal' = IF Cleared(chain[1].rev) THEN NoJournal ELSE journal
    /\ chain' = Tail(chain) /\ started' = FALSE
    /\ UNCHANGED <<disk, page, mem, load, revision, writing, io, known, behind, spent>>

-----------------------------------------------------------------------------
\* What the open and pending writes of a key may leave behind.
Leftovers(k) == {disk[k]} \cup {io[k][i].value : i \in {j \in DOMAIN io[k] : io[k][j].op # "get"}}

\* What a restart would restore.
Stored(k)  == Larger(disk[k], Blank)
Restart(k) == IF journal = NoJournal THEN Stored(k) ELSE journal.snap[k]

\* The page is closed, reloaded or killed.  Of a key whose last write is not
\* committed, and which no journal holds, what the store is left with is what
\* can still be relied on.
Leave ==
    /\ page # "closed"
    /\ page' = "closed"
    /\ \E d \in [Key -> UNION {Leftovers(k) : k \in Key}] :
         /\ \A k \in Key : d[k] \in Leftovers(k)
         /\ disk' = d
    /\ safe' = [k \in Core |-> IF journal = NoJournal /\ k \in behind THEN Stored(k)' ELSE safe[k]]
    /\ mem' = NewPage
    /\ load' = [journal |-> NoJournal, got |-> Unread]
    /\ revision' = 0 /\ chain' = <<>> /\ started' = FALSE /\ writing' = {}
    /\ io' = Empty
    /\ known' = {} /\ behind' = {}
    /\ UNCHANGED <<journal, spent>>

Init ==
    /\ disk = [k \in Key |-> Nothing]
    /\ journal = NoJournal
    /\ page = "closed"
    /\ mem = NewPage
    /\ load = [journal |-> NoJournal, got |-> Unread]
    /\ revision = 0 /\ chain = <<>> /\ started = FALSE /\ writing = {}
    /\ io = Empty
    /\ known = {} /\ behind = {}
    /\ safe = [k \in Core |-> Blank]
    /\ spent = [edits |-> 0, failures |-> 0, mounts |-> 0]

Request(k) == WriteSucceeds(k) \/ ReadPerformed(k)

Next == \/ Mount \/ Restore \/ LoadThrows \/ Leave
        \/ QueueRuntimeCheckpoint \/ CheckpointForNavigation \/ StartCheckpoint \/ Confirm
        \/ DiscoveryRead
        \/ \E k \in Key : \/ Edit(k) \/ Request(k) \/ WriteFails(k) \/ ReadFails(k)
                          \/ Commit(k) \/ CommitAborts(k)

Spec == Init /\ [][Next]_vars

\* The checkpoint interval fires, IndexedDB performs what it is asked and ends
\* its transactions, and the page's callbacks run.
FairSpec == /\ Spec
            /\ WF_vars(QueueRuntimeCheckpoint) /\ WF_vars(StartCheckpoint) /\ WF_vars(Confirm)
            /\ \A k \in Core : WF_vars(Request(k))
            /\ \A k \in Key : WF_vars(Commit(k))

-----------------------------------------------------------------------------
(* Properties.                                                             *)

RequestType == [op : {"get", "put", "done"}, key : Key, value : Nat, rev : Nat]
JournalType == [rev : Nat, snap : Snapshot] \cup {NoJournal}

\* The type of every variable.
TypeOK ==
    /\ disk \in [Key -> Nat] /\ mem \in [Key -> Nat]
    /\ journal \in JournalType
    /\ page \in {"closed", "LOADING", "LOADED", "LOAD_FAILED"}
    /\ load \in [journal : JournalType, got : [Core -> Nat \cup {Waiting}]]
    /\ revision \in Nat
    /\ chain \in Seq([rev : Nat, snap : Snapshot])
    /\ started \in BOOLEAN /\ writing \subseteq Core
    /\ io \in [Key -> Seq(RequestType)]
    /\ known \subseteq Key /\ behind \subseteq Key
    /\ safe \in Snapshot
    /\ spent \in [edits : Nat, failures : Nat, mounts : Nat]

\* "prefer it at startup, and clear it only after a matching/newer IndexedDB
\* checkpoint succeeds": what a restart would restore at this moment is at least
\* as new, key by key, as every journal that was written and every checkpoint
\* that was confirmed, in this life of the page or an earlier one.  So it is for
\* every key while there is a journal, and for a key whose last write has been
\* committed when there is none.  Given up is only what was confirmed and still
\* not committed when the page was left, and what a failed read left out.
RestartLosesOnlyUncommitted ==
    \A k \in Core : journal # NoJournal \/ k \notin behind => safe[k] <= Restart(k)

\* "older IndexedDB writes cannot finish after and overwrite newer state":
\* whatever fails or aborts, a page never takes back a key that it has read from
\* the store or has once committed itself.
StoreNeverGoesBack ==
    [][page = "LOADED" /\ page' = "LOADED"
         => \A k \in known \cap Core : disk'[k] >= disk[k]]_vars

\* While the page lives its state reaches IndexedDB, whatever fails once: a
\* failed checkpoint never silences the chain, and what an aborted commit took
\* back is written again though every checkpoint was confirmed.
CheckpointsCatchUp ==
    (page = "LOADED") ~> (page # "LOADED" \/ \A k \in Core : disk[k] = mem[k])

-----------------------------------------------------------------------------
(* What the comments claim and the code does not keep.                     *)

\* LongLabApp.jsx: the journal goes only after a matching or newer checkpoint
\* succeeds, so closing the page loses nothing that was journaled or confirmed.
RestartLosesNothing ==
    [][page' = "closed" => \A k \in Core : safe[k] <= Restart(k)']_vars

\* LongLabApp.jsx: LOAD_FAILED keeps writes disabled, so a transient IndexedDB
\* error does not overwrite accumulated research data.
TransientErrorKeepsData ==
    [][page = "LOADED" /\ page' = "LOADED" /\ load.journal = NoJournal
         => \A k \in Core : disk'[k] >= disk[k]]_vars

\* LongLabApp.jsx, "AES Discovery persistence": after a reload the records that
\* were stored are not replaced by the blank ones of the new page.
DiscoveryPersists ==
    [][page = "LOADED" /\ page' = "LOADED" /\ spent.mounts > 1
         => disk'[Discovery] >= disk[Discovery]]_vars
=============================================================================
