------------------------ MODULE RuntimeRecovery_proofs ------------------------
(***************************************************************************)
(* For any keys, bounds and failures: the types, that a restart loses      *)
(* nothing that was journaled or confirmed but what was not committed yet, *)
(* and that the store never goes back on what a page knows of it.          *)
(*                                                                         *)
(* The inductive invariant follows one key through the places its value    *)
(* is in while the page lives: the store, the requests not yet over, the   *)
(* queued checkpoints, the state.  From left to right the values never get *)
(* older (QueueOrder, ChainOrder), with one exception: a page that started *)
(* from a journal, or whose read failed, may find a newer store, until a   *)
(* write of its own is committed.  A journal has its place among the       *)
(* checkpoints by its revision (JournalOrder), and what the app could rely *)
(* on lies before everything that is still to be committed (Above).        *)
(***************************************************************************)
EXTENDS RuntimeRecovery, TLAPS

Top == Blank + spent.edits

\* Everything of k that is still to be committed is at least v.
Above(v, k) ==
    /\ \A i \in 1 .. Len(io[k]) : v <= io[k][i].value
    /\ \A i \in 1 .. Len(chain) : v <= chain[i].snap[k]
    /\ v <= mem[k]

\* Nothing is under way outside of a loaded page, except the reads of a load.
PageInv ==
    /\ page # "LOADED" => chain = <<>> /\ started = FALSE /\ writing = {}
    /\ page = "LOADING" => load.journal = journal /\ revision = LoadedRevision
    /\ started => chain # <<>>

\* What a read may have answered: what is stored or, if it failed, nothing.
Answered(k) ==
    \/ load.got[k] = disk[k]
    \/ /\ load.got[k] = Nothing /\ k \notin known
       /\ journal = NoJournal => safe[k] <= Blank

LoadInv(k) ==
    /\ page # "LOADED" => k \notin behind
    /\ page = "closed" => k \notin known
    /\ page \in {"closed", "LOAD_FAILED"} => io[k] = <<>>
    /\ page = "LOADING" =>
         /\ k \in known => load.journal = NoJournal
         /\ \/ io[k] = <<Get(k)>> /\ load.got[k] = Waiting /\ k \notin known
            \/ io[k] = <<>> /\ Answered(k)

Bounded(k) == mem[k] <= Top /\ disk[k] <= Top

\* The revisions of the chain count up.
Numbered ==
    \A i \in 1 .. Len(chain) :
        /\ chain[i].rev <= revision
        /\ \A j \in 1 .. Len(chain) : i < j => chain[i].rev < chain[j].rev

ChainOrder(k) ==
    \A i \in 1 .. Len(chain) :
        /\ chain[i].snap[k] <= mem[k]
        /\ \A j \in 1 .. Len(chain) : i < j => chain[i].snap[k] <= chain[j].snap[k]

JournalOrder(k) ==
    journal # NoJournal =>
        /\ safe[k] <= journal.snap[k] /\ journal.snap[k] <= Top
        /\ page = "LOADED" =>
             /\ journal.rev <= revision /\ journal.snap[k] <= mem[k]
             /\ \A i \in 1 .. Len(chain) :
                  /\ journal.rev <= chain[i].rev => journal.snap[k] <= chain[i].snap[k]
                  /\ chain[i].rev <= journal.rev => chain[i].snap[k] <= journal.snap[k]

\* The write that the first checkpoint makes of k.
LastWrite(k) == Put(k, chain[1].snap[k], chain[1].rev)

QueueOrder(k) ==
    page = "LOADED" => \A i \in 1 .. Len(io[k]) :
        /\ io[k][i].op # "get"
        /\ io[k][i].value <= mem[k] /\ io[k][i].rev <= revision
        /\ \A j \in 1 .. Len(io[k]) : i < j => io[k][i].value <= io[k][j].value
        /\ \A j \in 1 .. Len(chain) :
             /\ io[k][i].value <= chain[j].snap[k]
             /\ \/ io[k][i].rev < chain[j].rev
                \/ started /\ j = 1 /\ i = Len(io[k])

\* The write of the first checkpoint ends its queue until it has succeeded, and
\* is then the only one, until it is committed or aborted.
UnderWay(k) ==
    started => IF k \in writing
               THEN io[k] # <<>> /\ io[k][Len(io[k])] = LastWrite(k)
               ELSE \/ io[k] = <<Done(LastWrite(k))>> /\ k \in behind
                    \/ io[k] = <<>> /\ (k \in behind \/ disk[k] = chain[1].snap[k])

Reliable(k) ==
    /\ journal = NoJournal /\ k \notin behind => safe[k] <= Stored(k)
    /\ page = "LOADED" /\ journal = NoJournal => Above(safe[k], k)
    /\ page = "LOADED" /\ k \in known => Above(disk[k], k)

KeyInv(k) == /\ LoadInv(k) /\ Bounded(k) /\ ChainOrder(k) /\ JournalOrder(k)
             /\ QueueOrder(k) /\ UnderWay(k) /\ Reliable(k)

OrderInv == PageInv /\ Numbered /\ \A k \in Core : KeyInv(k)

IInv == TypeOK /\ OrderInv

-----------------------------------------------------------------------------
(* Types.                                                                  *)

LEMMA PutType ==
  ASSUME NEW k \in Key, NEW v \in Nat, NEW rev \in Nat
  PROVE  /\ Put(k, v, rev) \in RequestType
         /\ Put(k, v, rev).op = "put" /\ Put(k, v, rev).value = v /\ Put(k, v, rev).rev = rev
  BY DEF Put, RequestType

LEMMA GetType ==
  ASSUME NEW k \in Key
  PROVE  Get(k) \in RequestType /\ Get(k).op = "get"
  BY DEF Get, RequestType, Nothing

LEMMA DoneType ==
  ASSUME NEW r \in RequestType
  PROVE  /\ Done(r) \in RequestType
         /\ Done(r).op = "done" /\ Done(r).value = r.value /\ Done(r).rev = r.rev
  BY DEF Done, RequestType

LEMMA CheckpointType ==
  ASSUME NEW rev \in Nat, NEW snap \in Snapshot
  PROVE  /\ Checkpoint(rev, snap) \in [rev : Nat, snap : Snapshot]
         /\ Checkpoint(rev, snap).rev = rev /\ Checkpoint(rev, snap).snap = snap
  BY DEF Checkpoint

LEMMA SpentFails ==
  ASSUME TypeOK, Fails
  PROVE  /\ spent' \in [edits : Nat, failures : Nat, mounts : Nat]
         /\ spent'.edits = spent.edits
  <1>1. spent \in [edits : Nat, failures : Nat, mounts : Nat]
    BY DEF TypeOK
  <1>2. spent' = [spent EXCEPT !.failures = spent.failures + 1]
    BY DEF Fails
  <1>. QED
    BY <1>1, <1>2

LEMMA JournalParts ==
  ASSUME TypeOK, journal # NoJournal
  PROVE  journal \in [rev : Nat, snap : Snapshot] /\ journal.rev \in Nat /\ journal.snap \in Snapshot
  BY DEF TypeOK, JournalType

LEMMA NowType ==
  ASSUME TypeOK
  PROVE  Now \in Snapshot /\ \A k \in Core : Now[k] = mem[k]
  BY DEF TypeOK, Now, Snapshot, Key

LEMMA ElementOf ==
  ASSUME NEW S, NEW s \in Seq(S), NEW i \in 1 .. Len(s)
  PROVE  s[i] \in S
  OBVIOUS

LEMMA ChainParts ==
  ASSUME TypeOK, NEW i \in 1 .. Len(chain)
  PROVE  /\ chain[i] \in [rev : Nat, snap : Snapshot]
         /\ chain[i].rev \in Nat /\ chain[i].snap \in Snapshot
         /\ \A k \in Core : chain[i].snap[k] \in Nat
  <1>1. chain \in Seq([rev : Nat, snap : Snapshot])
    BY DEF TypeOK
  <1>2. chain[i] \in [rev : Nat, snap : Snapshot]
    BY <1>1, ElementOf
  <1>. QED
    BY <1>2 DEF Snapshot

LEMMA QueueParts ==
  ASSUME TypeOK, NEW k \in Key, NEW i \in 1 .. Len(io[k])
  PROVE  /\ io[k][i] \in RequestType
         /\ io[k][i].value \in Nat /\ io[k][i].rev \in Nat
  <1>1. io[k] \in Seq(RequestType)
    BY DEF TypeOK
  <1>2. io[k][i] \in RequestType
    BY <1>1, ElementOf
  <1>. QED
    BY <1>2 DEF RequestType

LEMMA InitType == Init => TypeOK
  <1>. SUFFICES ASSUME Init PROVE TypeOK
    OBVIOUS
  <1>1. /\ <<>> \in Seq(RequestType) /\ <<>> \in Seq([rev : Nat, snap : Snapshot])
    OBVIOUS
  <1>. QED
    BY <1>1 DEF Init, TypeOK, NewPage, Unread, Empty, Snapshot, JournalType, Nothing, Blank

\* One queue changes.
LEMMA QueueType ==
  ASSUME TypeOK, NEW k \in Key, NEW q \in Seq(RequestType), io' = [io EXCEPT ![k] = q]
  PROVE  io' \in [Key -> Seq(RequestType)]
  BY DEF TypeOK

LEMMA TailType ==
  ASSUME NEW S, NEW s \in Seq(S), s # <<>>
  PROVE  /\ Tail(s) \in Seq(S) /\ Head(s) \in S /\ Head(s) = s[1]
         /\ Len(Tail(s)) = Len(s) - 1
         /\ \A i \in 1 .. Len(Tail(s)) : Tail(s)[i] = s[i + 1]
  OBVIOUS

LEMMA AppendType ==
  ASSUME NEW S, NEW s \in Seq(S), NEW e \in S
  PROVE  /\ Append(s, e) \in Seq(S) /\ Append(s, e) # <<>>
         /\ Len(Append(s, e)) = Len(s) + 1
         /\ Append(s, e)[Len(s) + 1] = e
         /\ \A i \in 1 .. Len(s) : Append(s, e)[i] = s[i]
  OBVIOUS

LEMMA FirstReplaced ==
  ASSUME NEW S, NEW s \in Seq(S), s # <<>>, NEW e \in S
  PROVE  /\ [s EXCEPT ![1] = e] \in Seq(S) /\ Len([s EXCEPT ![1] = e]) = Len(s)
         /\ [s EXCEPT ![1] = e][1] = e
         /\ \A i \in 1 .. Len(s) : i # 1 => [s EXCEPT ![1] = e][i] = s[i]
  OBVIOUS

LEMMA TakenType ==
  ASSUME TypeOK, NEW k \in Key, io[k] # <<>>, Taken(k)
  PROVE  /\ io' \in [Key -> Seq(RequestType)]
         /\ Head(io[k]) \in RequestType
  <1>1. io[k] \in Seq(RequestType)
    BY DEF TypeOK
  <1>2. Tail(io[k]) \in Seq(RequestType) /\ Head(io[k]) \in RequestType
    BY <1>1, TailType
  <1>3. io' = [io EXCEPT ![k] = Tail(io[k])]
    BY DEF Taken, TypeOK
  <1>. QED
    BY <1>2, <1>3, QueueType

LEMMA MountSpends ==
  ASSUME TypeOK, spent' = [spent EXCEPT !.mounts = @ + 1]
  PROVE  spent' \in [edits : Nat, failures : Nat, mounts : Nat] /\ spent'.edits = spent.edits
  BY DEF TypeOK

LEMMA EditSpends ==
  ASSUME TypeOK, spent' = [spent EXCEPT !.edits = @ + 1]
  PROVE  spent' \in [edits : Nat, failures : Nat, mounts : Nat] /\ spent'.edits = spent.edits + 1
  BY DEF TypeOK

LEMMA MountType == TypeOK /\ Mount => TypeOK'
  <1>. SUFFICES ASSUME TypeOK, Mount PROVE TypeOK'
    OBVIOUS
  <1>1. \A k \in Key : <<Get(k)>> \in Seq(RequestType) /\ <<>> \in Seq(RequestType)
    BY GetType
  <1>2. io' \in [Key -> Seq(RequestType)]
    BY <1>1 DEF Mount
  <1>3. revision' \in Nat
    BY JournalParts DEF Mount, LoadedRevision
  <1>4. load' \in [journal : JournalType, got : [Core -> Nat \cup {Waiting}]]
    BY DEF Mount, TypeOK, Unread
  <1>5. spent' \in [edits : Nat, failures : Nat, mounts : Nat]
    BY MountSpends DEF Mount
  <1>6. mem' \in [Key -> Nat]
    BY DEF Mount, NewPage, Blank
  <1>. QED
    BY <1>2, <1>3, <1>4, <1>5, <1>6 DEF Mount, TypeOK

LEMMA RestoredType ==
  ASSUME TypeOK, AllRead, NEW k \in Core
  PROVE  Restored(k) \in Nat
  <1>1. load.got[k] \in Nat
    BY DEF TypeOK, AllRead
  <1>2. load.journal # NoJournal => load.journal.snap[k] \in Nat
    BY DEF TypeOK, JournalType, Snapshot
  <1>. QED
    BY <1>1, <1>2 DEF Restored, Larger, Blank

\* What Restore queues.
FirstChain == LET snap == [k \in Core |-> Restored(k)]
              IN  <<Checkpoint(revision + 1, snap), Checkpoint(revision + 2, snap)>>

LEMMA FirstChainParts ==
  ASSUME TypeOK, AllRead
  PROVE  /\ FirstChain \in Seq([rev : Nat, snap : Snapshot]) /\ Len(FirstChain) = 2
         /\ FirstChain[1].rev = revision + 1 /\ FirstChain[2].rev = revision + 2
         /\ \A k \in Core : /\ FirstChain[1].snap[k] = Restored(k)
                            /\ FirstChain[2].snap[k] = Restored(k)
  <1>. DEFINE snap == [k \in Core |-> Restored(k)]
  <1>1. snap \in Snapshot
    BY RestoredType DEF Snapshot
  <1>2. \A k \in Core : snap[k] = Restored(k)
    OBVIOUS
  <1>3. FirstChain = <<Checkpoint(revision + 1, snap), Checkpoint(revision + 2, snap)>>
    BY DEF FirstChain
  <1>. HIDE DEF snap
  <1>4. revision + 1 \in Nat /\ revision + 2 \in Nat
    BY DEF TypeOK
  <1>5. /\ Checkpoint(revision + 1, snap) \in [rev : Nat, snap : Snapshot]
        /\ Checkpoint(revision + 2, snap) \in [rev : Nat, snap : Snapshot]
    BY <1>1, <1>4, CheckpointType
  <1>6. /\ FirstChain[1].rev = revision + 1 /\ FirstChain[2].rev = revision + 2
        /\ FirstChain[1].snap = snap /\ FirstChain[2].snap = snap
    BY <1>1, <1>3, <1>4, CheckpointType
  <1>. QED
    BY <1>2, <1>3, <1>5, <1>6

LEMMA RestoreType == TypeOK /\ Restore => TypeOK'
  <1>. SUFFICES ASSUME TypeOK, Restore PROVE TypeOK'
    OBVIOUS
  <1>1. chain' \in Seq([rev : Nat, snap : Snapshot])
    BY FirstChainParts DEF Restore, FirstChain
  <1>2. mem' \in [Key -> Nat]
    BY RestoredType DEF Restore, TypeOK
  <1>3. mem[Discovery] \in Nat /\ Discovery \in Key
    BY DEF TypeOK, Key
  <1>4. <<Put(Discovery, mem[Discovery], 0), Get(Discovery)>> \in Seq(RequestType)
    BY <1>3, PutType, GetType
  <1>5. io' \in [Key -> Seq(RequestType)]
    BY <1>3, <1>4, QueueType DEF Restore
  <1>6. load' \in [journal : JournalType, got : [Core -> Nat \cup {Waiting}]]
    BY DEF Restore, TypeOK, Unread
  <1>7. revision' \in Nat
    BY DEF Restore, TypeOK
  <1>. QED
    BY <1>1, <1>2, <1>5, <1>6, <1>7 DEF Restore, TypeOK

LEMMA EditType ==
  ASSUME TypeOK, NEW k \in Key, Edit(k)
  PROVE  TypeOK'
  <1>1. Blank + spent.edits + 1 \in Nat
    BY DEF TypeOK, Blank
  <1>2. spent' \in [edits : Nat, failures : Nat, mounts : Nat]
    BY EditSpends DEF Edit
  <1>3. mem' \in [Key -> Nat]
    BY <1>1 DEF TypeOK, Edit
  <1>4. io[k] \in Seq(RequestType)
    BY DEF TypeOK
  <1>5. Append(io[k], Put(k, Blank + spent.edits + 1, 0)) \in Seq(RequestType)
    BY <1>1, <1>4, PutType, AppendType
  <1>6. io' = io \/ io' = [io EXCEPT ![k] = Append(io[k], Put(k, Blank + spent.edits + 1, 0))]
    BY DEF Edit, TypeOK
  <1>7. io' \in [Key -> Seq(RequestType)]
    BY <1>5, <1>6, QueueType DEF TypeOK
  <1>. QED
    BY <1>2, <1>3, <1>7 DEF Edit, TypeOK

\* A checkpoint of the present state joins the chain.
LEMMA QueuedType ==
  ASSUME TypeOK, chain' = Append(chain, Checkpoint(revision + 1, Now)), revision' = revision + 1
  PROVE  /\ chain' \in Seq([rev : Nat, snap : Snapshot]) /\ revision' \in Nat
         /\ Len(chain') = Len(chain) + 1
         /\ \A i \in 1 .. Len(chain) : chain'[i] = chain[i]
         /\ chain'[Len(chain) + 1].rev = revision + 1
         /\ \A k \in Core : chain'[Len(chain) + 1].snap[k] = mem[k]
  <1>1. revision + 1 \in Nat /\ chain \in Seq([rev : Nat, snap : Snapshot])
    BY DEF TypeOK
  <1>2. /\ Checkpoint(revision + 1, Now) \in [rev : Nat, snap : Snapshot]
        /\ Checkpoint(revision + 1, Now).rev = revision + 1
        /\ Checkpoint(revision + 1, Now).snap = Now
    BY <1>1, NowType, CheckpointType
  <1>. QED
    BY <1>1, <1>2, AppendType, NowType

LEMMA QueueCheckpointType == TypeOK /\ QueueRuntimeCheckpoint => TypeOK'
  <1>. SUFFICES ASSUME TypeOK, QueueRuntimeCheckpoint PROVE TypeOK'
    OBVIOUS
  <1>1. chain' \in Seq([rev : Nat, snap : Snapshot]) /\ revision' \in Nat
    BY QueuedType DEF QueueRuntimeCheckpoint
  <1>. QED
    BY <1>1 DEF QueueRuntimeCheckpoint, TypeOK

LEMMA NavigationType == TypeOK /\ CheckpointForNavigation => TypeOK'
  <1>. SUFFICES ASSUME TypeOK, CheckpointForNavigation PROVE TypeOK'
    OBVIOUS
  <1>1. chain' \in Seq([rev : Nat, snap : Snapshot]) /\ revision' \in Nat
    BY QueuedType DEF CheckpointForNavigation
  <1>2. Journal \in JournalType /\ Now \in Snapshot
    BY NowType DEF Journal, JournalType, TypeOK
  <1>3. journal' \in JournalType /\ safe' \in Snapshot
    BY <1>2 DEF CheckpointForNavigation, TypeOK
  <1>4. spent' \in [edits : Nat, failures : Nat, mounts : Nat]
    BY SpentFails DEF CheckpointForNavigation, TypeOK
  <1>. QED
    BY <1>1, <1>3, <1>4 DEF CheckpointForNavigation, TypeOK

LEMMA FirstParts ==
  ASSUME TypeOK, chain # <<>>
  PROVE  /\ Len(chain) >= 1 /\ 1 \in 1 .. Len(chain)
         /\ chain[1] \in [rev : Nat, snap : Snapshot]
         /\ chain[1].rev \in Nat /\ chain[1].snap \in Snapshot
         /\ \A k \in Core : chain[1].snap[k] \in Nat
         /\ Tail(chain) \in Seq([rev : Nat, snap : Snapshot])
         /\ Len(Tail(chain)) = Len(chain) - 1
         /\ \A i \in 1 .. Len(Tail(chain)) : Tail(chain)[i] = chain[i + 1]
  <1>1. chain \in Seq([rev : Nat, snap : Snapshot])
    BY DEF TypeOK
  <1>2. Len(chain) >= 1
    BY <1>1
  <1>3. /\ Tail(chain) \in Seq([rev : Nat, snap : Snapshot])
        /\ Len(Tail(chain)) = Len(chain) - 1
        /\ \A i \in 1 .. Len(Tail(chain)) : Tail(chain)[i] = chain[i + 1]
    BY <1>1, TailType
  <1>4. 1 \in 1 .. Len(chain)
    BY <1>1, <1>2
  <1>. QED
    BY <1>2, <1>3, <1>4, ChainParts

LEMMA StartType == TypeOK /\ StartCheckpoint => TypeOK'
  <1>. SUFFICES ASSUME TypeOK, StartCheckpoint PROVE TypeOK'
    OBVIOUS
  <1>1. chain # <<>>
    BY DEF StartCheckpoint
  <1>2. ASSUME NEW k \in Core
        PROVE  Append(io[k], Put(k, chain[1].snap[k], chain[1].rev)) \in Seq(RequestType)
    <2>1. k \in Key /\ io[k] \in Seq(RequestType)
      BY DEF TypeOK, Key
    <2>2. Put(k, chain[1].snap[k], chain[1].rev) \in RequestType
      BY <1>1, <2>1, FirstParts, PutType
    <2>. QED
      BY <2>1, <2>2, AppendType
  <1>3. io' \in [Key -> Seq(RequestType)]
    BY <1>2 DEF StartCheckpoint, TypeOK
  <1>. QED
    BY <1>3 DEF StartCheckpoint, TypeOK

LEMMA ConfirmType == TypeOK /\ Confirm => (PageInv => TypeOK')
  <1>. SUFFICES ASSUME TypeOK, Confirm, PageInv PROVE TypeOK'
    OBVIOUS
  <1>1. chain # <<>>
    BY DEF Confirm, Written, PageInv
  <1>2. chain' \in Seq([rev : Nat, snap : Snapshot])
    BY <1>1, FirstParts DEF Confirm
  <1>3. safe' \in Snapshot
    BY <1>1, FirstParts DEF Confirm, TypeOK, Snapshot, Larger
  <1>4. journal' \in JournalType
    BY DEF Confirm, TypeOK, JournalType
  <1>. QED
    BY <1>2, <1>3, <1>4 DEF Confirm, TypeOK

\* What a write that succeeds changes, and what it leaves alone.
LEMMA SucceedsFrame ==
  ASSUME TypeOK, NEW w \in Key, WriteSucceeds(w)
  PROVE  /\ page' = page /\ mem' = mem /\ chain' = chain /\ started' = started
         /\ load' = load /\ revision' = revision /\ journal' = journal /\ safe' = safe
         /\ disk' = disk /\ known' = known /\ spent' = spent /\ behind' = behind \cup {w}
         /\ writing' \in {writing, writing \ {w}}
         /\ io[w] \in Seq(RequestType) /\ io[w] # <<>> /\ Head(io[w]).op = "put"
         /\ io[w][1] \in RequestType /\ Done(io[w][1]) \in RequestType
         /\ io' = [io EXCEPT ![w] = [io[w] EXCEPT ![1] = Done(io[w][1])]]
  <1>1. io[w] \in Seq(RequestType) /\ io[w] # <<>>
    BY DEF WriteSucceeds, AtHead, TypeOK
  <1>2. io[w][1] \in RequestType
    BY <1>1, TailType
  <1>3. io' = [io EXCEPT ![w] = [io[w] EXCEPT ![1] = Done(io[w][1])]]
    BY DEF WriteSucceeds, TypeOK
  <1>. QED
    BY <1>1, <1>2, <1>3, DoneType DEF WriteSucceeds, AtHead

LEMMA WriteSucceedsType ==
  ASSUME TypeOK, NEW k \in Key, WriteSucceeds(k)
  PROVE  TypeOK'
  <1>1. [io[k] EXCEPT ![1] = Done(io[k][1])] \in Seq(RequestType)
    BY SucceedsFrame, FirstReplaced
  <1>2. io' \in [Key -> Seq(RequestType)]
    BY <1>1, SucceedsFrame, QueueType
  <1>3. writing' \subseteq Core /\ behind' \subseteq Key
    BY SucceedsFrame DEF TypeOK
  <1>. QED
    BY <1>2, <1>3, SucceedsFrame DEF TypeOK

LEMMA CommitType ==
  ASSUME TypeOK, NEW k \in Key, Commit(k)
  PROVE  TypeOK'
  <1>1. io' \in [Key -> Seq(RequestType)] /\ Head(io[k]) \in RequestType
    BY TakenType DEF Commit, AtHead
  <1>2. Head(io[k]).value \in Nat
    BY <1>1 DEF RequestType
  <1>3. disk' \in [Key -> Nat] /\ known' \subseteq Key /\ behind' \subseteq Key
    BY <1>2 DEF Commit, TypeOK
  <1>. QED
    BY <1>1, <1>3 DEF Commit, TypeOK

LEMMA CommitAbortsType ==
  ASSUME TypeOK, NEW k \in Key, CommitAborts(k)
  PROVE  TypeOK'
  <1>1. io' \in [Key -> Seq(RequestType)]
    BY TakenType DEF CommitAborts, AtHead
  <1>2. spent' \in [edits : Nat, failures : Nat, mounts : Nat]
    BY SpentFails DEF CommitAborts
  <1>. QED
    BY <1>1, <1>2 DEF CommitAborts, TypeOK

LEMMA ReadPerformedType ==
  ASSUME TypeOK, NEW k \in Key, ReadPerformed(k)
  PROVE  TypeOK'
  <1>1. io' \in [Key -> Seq(RequestType)]
    BY TakenType DEF ReadPerformed, AtHead
  <1>2. k \in Core /\ disk[k] \in Nat
    BY DEF ReadPerformed, TypeOK
  <1>3. load' \in [journal : JournalType, got : [Core -> Nat \cup {Waiting}]]
    BY <1>2 DEF ReadPerformed, TypeOK
  <1>4. known' \subseteq Key
    BY DEF ReadPerformed, TypeOK
  <1>. QED
    BY <1>1, <1>3, <1>4 DEF ReadPerformed, TypeOK

LEMMA DiscoveryReadType == TypeOK /\ DiscoveryRead => TypeOK'
  <1>. SUFFICES ASSUME TypeOK, DiscoveryRead PROVE TypeOK'
    OBVIOUS
  <1>1. Discovery \in Key /\ disk[Discovery] \in Nat /\ io[Discovery] \in Seq(RequestType)
    BY DEF Key, TypeOK
  <1>2. io[Discovery] # <<>>
    BY DEF DiscoveryRead, AtHead
  <1>3. Tail(io[Discovery]) \in Seq(RequestType)
    BY <1>1, <1>2, TailType
  <1>4. Append(Tail(io[Discovery]), Put(Discovery, disk[Discovery], 0)) \in Seq(RequestType)
    BY <1>1, <1>3, PutType, AppendType
  <1>5. CASE disk[Discovery] \notin {Nothing, mem[Discovery]}
    <2>1. /\ mem' = [mem EXCEPT ![Discovery] = disk[Discovery]]
          /\ io' = [io EXCEPT ![Discovery] = Append(Tail(io[Discovery]), Put(Discovery, disk[Discovery], 0))]
      BY <1>1, <1>5 DEF DiscoveryRead, TypeOK
    <2>2. io' \in [Key -> Seq(RequestType)]
      BY <1>1, <1>4, <2>1, QueueType
    <2>. QED
      BY <1>1, <2>1, <2>2 DEF DiscoveryRead, TypeOK
  <1>6. CASE disk[Discovery] \in {Nothing, mem[Discovery]}
    <2>1. Taken(Discovery) /\ mem' = mem
      BY <1>6 DEF DiscoveryRead
    <2>2. io' \in [Key -> Seq(RequestType)]
      BY <1>1, <1>2, <2>1, TakenType
    <2>. QED
      BY <2>1, <2>2 DEF DiscoveryRead, TypeOK
  <1>. QED
    BY <1>5, <1>6

LEMMA WriteFailsType ==
  ASSUME TypeOK, PageInv, NEW k \in Key, WriteFails(k)
  PROVE  TypeOK'
  <1>1. io' \in [Key -> Seq(RequestType)]
    BY TakenType DEF WriteFails, AtHead
  <1>2. spent' \in [edits : Nat, failures : Nat, mounts : Nat]
    BY SpentFails DEF WriteFails
  <1>3. /\ chain' \in Seq([rev : Nat, snap : Snapshot])
        /\ started' \in BOOLEAN /\ writing' \subseteq Core
    <2>1. CASE Awaited(k, Head(io[k]))
      <3>1. chain # <<>>
        BY <2>1 DEF Awaited, PageInv
      <3>. QED
        BY <2>1, <3>1, FirstParts DEF WriteFails, Reject
    <2>2. CASE ~Awaited(k, Head(io[k]))
      BY <2>2 DEF WriteFails, Reject, TypeOK
    <2>. QED
      BY <2>1, <2>2
  <1>. QED
    BY <1>1, <1>2, <1>3 DEF WriteFails, TypeOK

LEMMA ReadFailsType ==
  ASSUME TypeOK, NEW k \in Key, ReadFails(k)
  PROVE  TypeOK'
  <1>1. io' \in [Key -> Seq(RequestType)]
    BY TakenType DEF ReadFails, AtHead
  <1>2. spent' \in [edits : Nat, failures : Nat, mounts : Nat]
    BY SpentFails DEF ReadFails
  <1>3. load' \in [journal : JournalType, got : [Core -> Nat \cup {Waiting}]]
    BY DEF ReadFails, TypeOK, Nothing
  <1>4. safe' \in Snapshot
    BY DEF ReadFails, TypeOK, Snapshot, Blank
  <1>. QED
    BY <1>1, <1>2, <1>3, <1>4 DEF ReadFails, TypeOK

LEMMA LeftoverType ==
  ASSUME TypeOK, NEW k \in Key, NEW v \in Leftovers(k)
  PROVE  v \in Nat
  <1>1. CASE v = disk[k]
    BY <1>1 DEF TypeOK
  <1>2. CASE \E i \in DOMAIN io[k] : v = io[k][i].value
    <2>1. io[k] \in Seq(RequestType)
      BY DEF TypeOK
    <2>2. DOMAIN io[k] = 1 .. Len(io[k])
      BY <2>1
    <2>. QED
      BY <1>2, <2>2, QueueParts
  <1>. QED
    BY <1>1, <1>2 DEF Leftovers

LEMMA LeaveType == TypeOK /\ Leave => TypeOK'
  <1>. SUFFICES ASSUME TypeOK, Leave PROVE TypeOK'
    OBVIOUS
  <1>1. disk' \in [Key -> Nat]
    <2>1. PICK d \in [Key -> UNION {Leftovers(k) : k \in Key}] :
              (\A k \in Key : d[k] \in Leftovers(k)) /\ disk' = d
      BY DEF Leave
    <2>. QED
      BY <2>1, LeftoverType
  <1>2. /\ mem' \in [Key -> Nat]
        /\ load' \in [journal : JournalType, got : [Core -> Nat \cup {Waiting}]]
    BY DEF Leave, NewPage, Blank, Unread, JournalType
  <1>3. io' \in [Key -> Seq(RequestType)] /\ chain' \in Seq([rev : Nat, snap : Snapshot])
    <2>1. <<>> \in Seq(RequestType) /\ <<>> \in Seq([rev : Nat, snap : Snapshot])
      OBVIOUS
    <2>. QED
      BY <2>1 DEF Leave, Empty
  <1>4. safe' \in Snapshot
    <2>1. \A k \in Core : disk'[k] \in Nat /\ safe[k] \in Nat
      BY <1>1 DEF TypeOK, Key, Snapshot
    <2>2. \A k \in Core : Stored(k)' \in Nat
      BY <2>1 DEF Stored, Larger, Blank
    <2>. QED
      BY <2>1, <2>2 DEF Leave, Snapshot
  <1>. QED
    BY <1>1, <1>2, <1>3, <1>4 DEF Leave, TypeOK

LEMMA StutterType ==
  ASSUME TypeOK, UNCHANGED vars
  PROVE  TypeOK'
  BY DEF TypeOK, vars

LEMMA NextType == TypeOK /\ PageInv /\ [Next]_vars => TypeOK'
  <1>. SUFFICES ASSUME TypeOK, PageInv, [Next]_vars PROVE TypeOK'
    OBVIOUS
  <1>1. CASE Mount \/ Restore \/ LoadThrows \/ Leave
    <2>1. LoadThrows => TypeOK'
      BY DEF LoadThrows, TypeOK
    <2>. QED
      BY <1>1, <2>1, MountType, RestoreType, LeaveType
  <1>2. CASE QueueRuntimeCheckpoint \/ CheckpointForNavigation \/ StartCheckpoint \/ Confirm
    BY <1>2, QueueCheckpointType, NavigationType, StartType, ConfirmType
  <1>3. CASE DiscoveryRead
    BY <1>3, DiscoveryReadType
  <1>4. ASSUME NEW k \in Key,
               \/ Edit(k) \/ Request(k) \/ WriteFails(k) \/ ReadFails(k)
               \/ Commit(k) \/ CommitAborts(k)
        PROVE  TypeOK'
    BY <1>4, EditType, WriteSucceedsType, ReadPerformedType, WriteFailsType, ReadFailsType,
       CommitType, CommitAbortsType DEF Request
  <1>5. CASE UNCHANGED vars
    BY <1>5, StutterType
  <1>. QED
    BY <1>1, <1>2, <1>3, <1>4, <1>5 DEF Next

\* PageInv with the types is inductive by itself, whatever a read answers.
LEMMA PageKeeps == TypeOK /\ PageInv /\ [Next]_vars => PageInv'
  <1>. SUFFICES ASSUME TypeOK, PageInv, [Next]_vars PROVE PageInv'
    OBVIOUS
  <1>1. CASE Mount
    BY <1>1 DEF PageInv, Mount, LoadedRevision
  <1>2. CASE Restore
    BY <1>2 DEF PageInv, Restore, AllRead
  <1>3. CASE LoadThrows \/ Leave
    BY <1>3 DEF PageInv, LoadThrows, AllRead, Leave
  <1>4. CASE QueueRuntimeCheckpoint \/ CheckpointForNavigation
    <2>1. /\ chain \in Seq([rev : Nat, snap : Snapshot]) /\ revision + 1 \in Nat
          /\ chain' = Append(chain, Checkpoint(revision + 1, Now))
      BY <1>4 DEF TypeOK, QueueRuntimeCheckpoint, CheckpointForNavigation
    <2>2. chain' # <<>>
      BY <2>1, NowType, CheckpointType, AppendType
    <2>. QED
      BY <1>4, <2>2 DEF PageInv, QueueRuntimeCheckpoint, CheckpointForNavigation
  <1>5. CASE StartCheckpoint \/ Confirm
    BY <1>5 DEF PageInv, StartCheckpoint, Confirm, Written
  <1>6. CASE DiscoveryRead
    BY <1>6 DEF PageInv, DiscoveryRead, LoadedRevision
  <1>7. ASSUME NEW k \in Key, Edit(k) PROVE PageInv'
    BY <1>7 DEF PageInv, Edit, LoadedRevision
  <1>8. ASSUME NEW k \in Key, WriteSucceeds(k) PROVE PageInv'
    BY <1>8, SucceedsFrame DEF PageInv, LoadedRevision
  <1>9. ASSUME NEW k \in Key, ReadPerformed(k) \/ ReadFails(k) PROVE PageInv'
    <2>1. load'.journal = load.journal
      BY <1>9 DEF ReadPerformed, ReadFails, TypeOK
    <2>. QED
      BY <1>9, <2>1 DEF PageInv, ReadPerformed, ReadFails, LoadedRevision
  <1>10. ASSUME NEW k \in Key, WriteFails(k) PROVE PageInv'
    <2>1. Awaited(k, Head(io[k])) => page = "LOADED"
      BY DEF Awaited, PageInv
    <2>. QED
      BY <1>10, <2>1 DEF PageInv, WriteFails, Reject, LoadedRevision
  <1>11. ASSUME NEW k \in Key, Commit(k) \/ CommitAborts(k) PROVE PageInv'
    BY <1>11 DEF PageInv, Commit, CommitAborts, LoadedRevision
  <1>12. CASE UNCHANGED vars
    BY <1>12 DEF PageInv, vars, LoadedRevision
  <1>. QED
    BY <1>1, <1>2, <1>3, <1>4, <1>5, <1>6, <1>7, <1>8, <1>9, <1>10, <1>11, <1>12 DEF Next, Request

-----------------------------------------------------------------------------
(* The invariant, step by step.                                            *)

\* A step that leaves the line of k as it is.
SameLine(k) ==
    /\ page' = page /\ chain' = chain /\ started' = started
    /\ k \in writing' <=> k \in writing
    /\ io'[k] = io[k] /\ disk'[k] = disk[k] /\ mem'[k] = mem[k]
    /\ load'.journal = load.journal /\ load'.got[k] = load.got[k]
    /\ journal' = journal /\ safe'[k] = safe[k] /\ revision' = revision
    /\ k \in known' <=> k \in known
    /\ k \in behind' <=> k \in behind
    /\ spent'.edits >= spent.edits

LEMMA TopRises ==
  ASSUME TypeOK, TypeOK', spent'.edits >= spent.edits
  PROVE  Top \in Nat /\ Top' \in Nat /\ Top <= Top'
  BY DEF TypeOK, Top, Blank

LEMMA KeyNumbers ==
  ASSUME TypeOK, NEW k \in Core
  PROVE  /\ mem[k] \in Nat /\ disk[k] \in Nat /\ safe[k] \in Nat
         /\ journal # NoJournal => journal.rev \in Nat /\ journal.snap[k] \in Nat
         /\ \A i \in 1 .. Len(chain) : chain[i].rev \in Nat /\ chain[i].snap[k] \in Nat
         /\ \A i \in 1 .. Len(io[k]) : io[k][i].value \in Nat /\ io[k][i].rev \in Nat
         /\ revision \in Nat
  <1>1. k \in Key
    BY DEF Key
  <1>. QED
    BY <1>1, JournalParts, ChainParts, QueueParts DEF TypeOK, Snapshot

LEMMA SameLineKeepsInv ==
  ASSUME TypeOK, TypeOK', NEW k \in Core, KeyInv(k), SameLine(k)
  PROVE  KeyInv(k)'
  <1>1. LoadInv(k)'
    BY DEF KeyInv, SameLine, LoadInv, Answered, Get
  <1>2. Bounded(k)'
    BY TopRises, KeyNumbers DEF KeyInv, SameLine, Bounded
  <1>3. ChainOrder(k)'
    BY DEF KeyInv, SameLine, ChainOrder
  <1>4. JournalOrder(k)'
    BY TopRises, KeyNumbers DEF KeyInv, SameLine, JournalOrder
  <1>5. LastWrite(k)' = LastWrite(k)
    BY DEF SameLine, LastWrite
  <1>6. QueueOrder(k)'
    BY <1>5 DEF KeyInv, SameLine, QueueOrder
  <1>7. UnderWay(k)'
    BY <1>5 DEF KeyInv, SameLine, UnderWay
  <1>8. Reliable(k)'
    BY DEF KeyInv, SameLine, Reliable, Above, Stored
  <1>. QED
    BY <1>1, <1>2, <1>3, <1>4, <1>6, <1>7, <1>8 DEF KeyInv

\* Outside of a loaded page, only the store and the journal matter.
LEMMA OutsideKeepsInv ==
  ASSUME TypeOK', PageInv', NEW k \in Core, page' # "LOADED",
         LoadInv(k)', Bounded(k)',
         journal' # NoJournal => safe'[k] <= journal'.snap[k] /\ journal'.snap[k] <= Top',
         journal' = NoJournal /\ k \notin behind' => safe'[k] <= Stored(k)'
  PROVE  KeyInv(k)'
  <1>1. chain' = <<>> /\ started' = FALSE
    BY DEF PageInv
  <1>2. ChainOrder(k)'
    BY <1>1 DEF ChainOrder
  <1>3. JournalOrder(k)'
    BY DEF JournalOrder
  <1>4. QueueOrder(k)' /\ UnderWay(k)'
    BY <1>1 DEF QueueOrder, UnderWay
  <1>5. Reliable(k)'
    BY DEF Reliable
  <1>. QED
    BY <1>2, <1>3, <1>4, <1>5 DEF KeyInv

LEMMA CoreIsKey == ASSUME NEW k \in Core PROVE k \in Key /\ k # Discovery
  BY KeyAssumption DEF Key

LEMMA LastWriteParts ==
  ASSUME NEW k \in Core, chain[1].snap[k] \in Nat, chain[1].rev \in Nat
  PROVE  /\ LastWrite(k) \in RequestType /\ LastWrite(k).op = "put"
         /\ LastWrite(k).value = chain[1].snap[k] /\ LastWrite(k).rev = chain[1].rev
         /\ Done(LastWrite(k)).op = "done"
         /\ Done(LastWrite(k)).value = chain[1].snap[k] /\ Done(LastWrite(k)).rev = chain[1].rev
  <1>1. /\ LastWrite(k) \in RequestType /\ LastWrite(k).op = "put"
        /\ LastWrite(k).value = chain[1].snap[k] /\ LastWrite(k).rev = chain[1].rev
    BY CoreIsKey, PutType DEF LastWrite
  <1>. QED
    BY <1>1, DoneType

LEMMA InitOrder == Init => OrderInv
  <1>. SUFFICES ASSUME Init PROVE OrderInv
    OBVIOUS
  <1>1. PageInv /\ Numbered
    BY DEF Init, PageInv, Numbered
  <1>2. ASSUME NEW k \in Core PROVE KeyInv(k)
    <2>1. k \in Key
      BY CoreIsKey
    <2>2. LoadInv(k) /\ Bounded(k)
      BY <2>1 DEF Init, LoadInv, Bounded, Empty, NewPage, Blank, Nothing, Top
    <2>3. ChainOrder(k) /\ JournalOrder(k) /\ QueueOrder(k) /\ UnderWay(k)
      BY DEF Init, ChainOrder, JournalOrder, QueueOrder, UnderWay
    <2>4. Reliable(k)
      BY <2>1 DEF Init, Reliable, Stored, Larger, Nothing, Blank
    <2>. QED
      BY <2>2, <2>3, <2>4 DEF KeyInv
  <1>. QED
    BY <1>1, <1>2 DEF OrderInv

LEMMA MountKeeps == IInv /\ TypeOK' /\ Mount => OrderInv'
  <1>. SUFFICES ASSUME IInv, TypeOK', Mount PROVE OrderInv'
    OBVIOUS
  <1>. USE DEF IInv, OrderInv
  <1>1. PageInv' /\ Numbered'
    BY DEF Mount, PageInv, Numbered, LoadedRevision
  <1>2. ASSUME NEW k \in Core PROVE KeyInv(k)'
    <2>1. KeyInv(k) /\ k \in Key
      BY CoreIsKey
    <2>2. LoadInv(k)'
      BY <2>1 DEF Mount, KeyInv, LoadInv, Unread, Get
    <2>3. spent'.edits = spent.edits
      BY MountSpends DEF Mount
    <2>4. Bounded(k)'
      BY <2>1, <2>3, KeyNumbers DEF Mount, KeyInv, Bounded, Top, NewPage, Blank, TypeOK
    <2>5. journal' # NoJournal => safe'[k] <= journal'.snap[k] /\ journal'.snap[k] <= Top'
      BY <2>1, <2>3 DEF Mount, KeyInv, JournalOrder, Top
    <2>6. journal' = NoJournal /\ k \notin behind' => safe'[k] <= Stored(k)'
      BY <2>1 DEF Mount, KeyInv, Reliable, Stored
    <2>7. page' # "LOADED"
      BY DEF Mount
    <2>. QED
      BY <1>1, <2>2, <2>4, <2>5, <2>6, <2>7, OutsideKeepsInv
  <1>. QED
    BY <1>1, <1>2

LEMMA LoadThrowsKeeps == IInv /\ TypeOK' /\ LoadThrows => OrderInv'
  <1>. SUFFICES ASSUME IInv, TypeOK', LoadThrows PROVE OrderInv'
    OBVIOUS
  <1>. USE DEF IInv, OrderInv
  <1>1. PageInv' /\ Numbered'
    BY DEF LoadThrows, AllRead, PageInv, Numbered
  <1>2. ASSUME NEW k \in Core PROVE KeyInv(k)'
    <2>1. KeyInv(k)
      OBVIOUS
    <2>2. LoadInv(k)'
      BY <2>1 DEF LoadThrows, AllRead, KeyInv, LoadInv
    <2>3. Bounded(k)'
      BY <2>1 DEF LoadThrows, KeyInv, Bounded, Top
    <2>4. journal' # NoJournal => safe'[k] <= journal'.snap[k] /\ journal'.snap[k] <= Top'
      BY <2>1 DEF LoadThrows, KeyInv, JournalOrder, Top
    <2>5. journal' = NoJournal /\ k \notin behind' => safe'[k] <= Stored(k)'
      BY <2>1 DEF LoadThrows, KeyInv, Reliable, Stored
    <2>6. page' # "LOADED"
      BY DEF LoadThrows
    <2>. QED
      BY <1>1, <2>2, <2>3, <2>4, <2>5, <2>6, OutsideKeepsInv
  <1>. QED
    BY <1>1, <1>2

LEMMA LeaveKeeps == IInv /\ TypeOK' /\ Leave => OrderInv'
  <1>. SUFFICES ASSUME IInv, TypeOK', Leave PROVE OrderInv'
    OBVIOUS
  <1>. USE DEF IInv, OrderInv
  <1>1. PageInv' /\ Numbered'
    BY DEF Leave, PageInv, Numbered
  <1>2. ASSUME NEW k \in Core PROVE KeyInv(k)'
    <2>1. KeyInv(k) /\ k \in Key
      BY CoreIsKey
    <2>2. LoadInv(k)'
      BY <2>1 DEF Leave, LoadInv, Empty
    <2>3. /\ disk'[k] \in Nat /\ disk'[k] <= Top
          /\ journal = NoJournal /\ k \notin behind => safe[k] <= Stored(k)'
      <3>1. disk'[k] \in Leftovers(k)
        BY <2>1 DEF Leave
      <3>2. CASE disk'[k] = disk[k]
        BY <2>1, <3>2, KeyNumbers DEF KeyInv, Bounded, Reliable, Stored
      <3>3. CASE \E i \in DOMAIN io[k] : io[k][i].op # "get" /\ disk'[k] = io[k][i].value
        <4>1. io[k] \in Seq(RequestType)
          BY <2>1 DEF TypeOK
        <4>2. PICK i \in 1 .. Len(io[k]) : io[k][i].op # "get" /\ disk'[k] = io[k][i].value
          BY <3>3, <4>1
        <4>3. page = "LOADED"
          <5>1. CASE page \in {"closed", "LOAD_FAILED"}
            BY <2>1, <4>2, <5>1 DEF KeyInv, LoadInv
          <5>2. CASE page = "LOADING"
            BY <2>1, <4>2, <5>2, GetType DEF KeyInv, LoadInv
          <5>. QED
            BY <5>1, <5>2 DEF TypeOK
        <4>4. io[k][i].value <= mem[k] /\ mem[k] <= Top
          BY <2>1, <4>3 DEF KeyInv, QueueOrder, Bounded
        <4>5. journal = NoJournal => safe[k] <= io[k][i].value
          BY <2>1, <4>3 DEF KeyInv, Reliable, Above
        <4>6. io[k][i].value \in Nat /\ safe[k] \in Nat /\ mem[k] \in Nat
          BY KeyNumbers
        <4>7. Top \in Nat
          BY DEF Top, TypeOK, Blank
        <4>. QED
          BY <4>2, <4>4, <4>5, <4>6, <4>7 DEF Stored, Larger, Blank
      <3>. QED
        BY <3>1, <3>2, <3>3 DEF Leftovers
    <2>4. Top' = Top /\ Top \in Nat
      BY DEF Leave, Top, TypeOK, Blank
    <2>5. Bounded(k)'
      BY <2>1, <2>3, <2>4 DEF Leave, Bounded, NewPage, Top, Blank, TypeOK
    <2>6. journal' # NoJournal => safe'[k] <= journal'.snap[k] /\ journal'.snap[k] <= Top'
      BY <2>1, <2>4 DEF Leave, KeyInv, JournalOrder
    <2>7. journal' = NoJournal => safe'[k] <= Stored(k)'
      <3>1. Stored(k)' \in Nat
        BY <2>3 DEF Stored, Larger, Blank
      <3>. QED
        BY <2>3, <3>1 DEF Leave
    <2>8. page' # "LOADED"
      BY DEF Leave
    <2>. QED
      BY <1>1, <2>2, <2>5, <2>6, <2>7, <2>8, OutsideKeepsInv
  <1>. QED
    BY <1>1, <1>2

LEMMA RestoreKeeps == IInv /\ TypeOK' /\ Restore => OrderInv'
  <1>. SUFFICES ASSUME IInv, TypeOK', Restore PROVE OrderInv'
    OBVIOUS
  <1>. USE DEF IInv, OrderInv
  <1>1. AllRead /\ page' = "LOADED" /\ page = "LOADING" /\ chain' = FirstChain
    BY DEF Restore, AllRead, FirstChain
  <1>2. /\ Len(chain') = 2
        /\ chain'[1].rev = revision + 1 /\ chain'[2].rev = revision + 2
        /\ \A k \in Core : chain'[1].snap[k] = Restored(k) /\ chain'[2].snap[k] = Restored(k)
    BY <1>1, FirstChainParts
  <1>3. revision' = revision + 2 /\ revision \in Nat
    BY DEF Restore, TypeOK
  <1>4. /\ started' = FALSE /\ journal' = journal
        /\ load'.journal = load.journal /\ known' = known /\ behind' = behind
    BY <1>1 DEF Restore, PageInv, TypeOK
  <1>5. load.journal = journal /\ revision = LoadedRevision
    BY <1>1 DEF PageInv
  <1>6. PageInv'
    BY <1>1, <1>2, <1>4 DEF PageInv
  <1>7. Numbered'
    BY <1>2, <1>3 DEF Numbered
  <1>8. ASSUME NEW k \in Core PROVE KeyInv(k)'
    <2>1. KeyInv(k) /\ k \in Key /\ k # Discovery
      BY CoreIsKey
    <2>2. io[k] = <<>> /\ Answered(k) /\ k \notin behind /\ (k \in known => journal = NoJournal)
      BY <1>1, <1>5, <2>1 DEF KeyInv, LoadInv, AllRead
    <2>3. io'[k] = <<>> /\ mem'[k] = Restored(k) /\ disk'[k] = disk[k] /\ safe'[k] = safe[k]
      BY <2>1, <2>2 DEF Restore, TypeOK
    <2>4. Top' = Top /\ Top \in Nat /\ Blank <= Top
      BY DEF Restore, Top, TypeOK, Blank
    <2>5. Restored(k) = IF journal # NoJournal THEN journal.snap[k] ELSE Larger(load.got[k], Blank)
      BY <1>5 DEF Restored
    <2>6. Restored(k) \in Nat
      BY <1>1, RestoredType
    <2>7. Restored(k) <= Top /\ disk[k] <= Top
      <3>1. load.got[k] = disk[k] \/ load.got[k] = 0
        BY <2>2 DEF Answered, Nothing
      <3>. QED
        BY <2>1, <2>4, <2>5, <3>1, KeyNumbers DEF KeyInv, Bounded, JournalOrder, Larger
    <2>8. LoadInv(k)' /\ Bounded(k)'
      BY <1>1, <2>3, <2>4, <2>7 DEF LoadInv, Bounded
    <2>9. ChainOrder(k)'
      BY <1>2, <2>3, <2>6 DEF ChainOrder
    <2>10. JournalOrder(k)'
      <3>1. SUFFICES ASSUME journal # NoJournal PROVE JournalOrder(k)'
        BY <1>4 DEF JournalOrder
      <3>2. revision = journal.rev /\ Restored(k) = journal.snap[k] /\ journal.rev \in Nat
        BY <1>5, <2>5, <3>1, JournalParts DEF LoadedRevision
      <3>3. safe[k] <= journal.snap[k] /\ journal.snap[k] <= Top
        BY <2>1, <3>1 DEF KeyInv, JournalOrder
      <3>. QED
        BY <1>2, <1>3, <1>4, <2>3, <2>4, <2>6, <3>2, <3>3 DEF JournalOrder
    <2>11. QueueOrder(k)' /\ UnderWay(k)'
      BY <1>4, <2>3 DEF QueueOrder, UnderWay
    <2>12. \A v \in Nat : v <= Restored(k) =>
             /\ \A i \in 1 .. Len(io'[k]) : v <= io'[k][i].value
             /\ \A i \in 1 .. Len(chain') : v <= chain'[i].snap[k]
             /\ v <= mem'[k]
      BY <1>2, <2>3
    <2>13. journal = NoJournal => safe[k] <= Restored(k)
      <3>1. SUFFICES ASSUME journal = NoJournal PROVE safe[k] <= Larger(load.got[k], Blank)
        BY <2>5
      <3>2. CASE load.got[k] = disk[k]
        BY <2>1, <2>2, <3>1, <3>2 DEF KeyInv, Reliable, Stored
      <3>3. CASE load.got[k] = Nothing /\ safe[k] <= Blank
        BY <3>3 DEF Larger, Nothing, Blank
      <3>. QED
        BY <2>2, <3>1, <3>2, <3>3 DEF Answered
    <2>14. journal' = NoJournal /\ k \notin behind' => safe'[k] <= Stored(k)'
      BY <1>4, <2>1, <2>3 DEF KeyInv, Reliable, Stored
    <2>15. (journal = NoJournal => Above(safe[k], k))'
      <3>1. SUFFICES ASSUME journal' = NoJournal PROVE Above(safe[k], k)'
        OBVIOUS
      <3>2. safe'[k] \in Nat /\ safe'[k] <= Restored(k)
        BY <1>4, <2>3, <2>13, <3>1, KeyNumbers
      <3>. QED
        BY <2>12, <3>2 DEF Above
    <2>16. k \in known => disk[k] <= Restored(k)
      <3>1. k \in known => Restored(k) = Larger(disk[k], Blank)
        BY <2>2, <2>5 DEF Answered
      <3>. QED
        BY <3>1, KeyNumbers DEF Larger, Blank
    <2>17. (k \in known => Above(disk[k], k))'
      <3>1. SUFFICES ASSUME k \in known' PROVE Above(disk[k], k)'
        OBVIOUS
      <3>2. disk'[k] \in Nat /\ disk'[k] <= Restored(k)
        BY <1>4, <2>3, <2>16, <3>1, KeyNumbers
      <3>. QED
        BY <2>12, <3>2 DEF Above
    <2>18. Reliable(k)'
      BY <2>14, <2>15, <2>17 DEF Reliable
    <2>. QED
      BY <2>8, <2>9, <2>10, <2>11, <2>18 DEF KeyInv
  <1>. QED
    BY <1>6, <1>7, <1>8

LEMMA EditKeeps ==
  ASSUME IInv, TypeOK', NEW e \in Key, Edit(e)
  PROVE  OrderInv'
  <1>. USE DEF IInv, OrderInv
  <1>1. /\ page' = page /\ chain' = chain /\ started' = started /\ writing' = writing
        /\ load' = load /\ revision' = revision /\ journal' = journal
        /\ known' = known /\ behind' = behind /\ safe' = safe /\ disk' = disk
    BY DEF Edit
  <1>2. spent'.edits = spent.edits + 1 /\ spent.edits \in Nat
    BY EditSpends DEF Edit, TypeOK
  <1>3. Top' = Top + 1 /\ Top \in Nat
    BY <1>2 DEF Top, Blank
  <1>4. PageInv' /\ Numbered'
    BY <1>1 DEF PageInv, Numbered, LoadedRevision
  <1>5. ASSUME NEW k \in Core PROVE KeyInv(k)'
    <2>1. KeyInv(k) /\ k \in Key /\ k # Discovery
      BY CoreIsKey
    <2>2. io'[k] = io[k]
      BY <2>1 DEF Edit, TypeOK
    <2>3. CASE k # e
      <3>1. mem'[k] = mem[k]
        BY <2>1, <2>3 DEF Edit, TypeOK
      <3>. QED
        BY <1>1, <1>2, <2>1, <2>2, <3>1, SameLineKeepsInv DEF SameLine
    <2>4. CASE k = e
      <3>1. mem'[k] = Top' /\ mem[k] <= mem'[k] /\ mem[k] \in Nat /\ mem'[k] \in Nat
        <4>1. mem'[k] = Blank + spent.edits + 1
          BY <2>1, <2>4 DEF Edit, TypeOK
        <4>2. mem'[k] = Top' /\ mem[k] <= Top
          BY <1>2, <1>3, <2>1, <4>1 DEF Top, KeyInv, Bounded, Blank
        <4>. QED
          BY <1>3, <2>1, <4>2, KeyNumbers
      <3>2. LoadInv(k)'
        BY <1>1, <2>1, <2>2 DEF KeyInv, LoadInv, Answered, Get
      <3>3. Bounded(k)'
        BY <1>1, <1>3, <2>1, <3>1, KeyNumbers DEF KeyInv, Bounded
      <3>4. ChainOrder(k)'
        BY <1>1, <2>1, <3>1, KeyNumbers DEF KeyInv, ChainOrder
      <3>5. JournalOrder(k)'
        BY <1>1, <1>3, <2>1, <3>1, KeyNumbers DEF KeyInv, JournalOrder
      <3>6. LastWrite(k)' = LastWrite(k)
        BY <1>1 DEF LastWrite
      <3>7. QueueOrder(k)'
        BY <1>1, <2>1, <2>2, <3>1, <3>6, KeyNumbers DEF KeyInv, QueueOrder
      <3>8. UnderWay(k)'
        BY <1>1, <2>1, <2>2, <3>6 DEF KeyInv, UnderWay
      <3>9. Reliable(k)'
        BY <1>1, <2>1, <2>2, <3>1, KeyNumbers DEF KeyInv, Reliable, Above, Stored
      <3>. QED
        BY <3>2, <3>3, <3>4, <3>5, <3>7, <3>8, <3>9 DEF KeyInv
    <2>. QED
      BY <2>3, <2>4
  <1>. QED
    BY <1>4, <1>5

\* A checkpoint of the present state joins the chain.
Joins ==
    /\ chain' = Append(chain, Checkpoint(revision + 1, Now))
    /\ revision' = revision + 1
    /\ page = "LOADED"
    /\ UNCHANGED <<disk, page, mem, load, started, writing, io, known, behind>>
    /\ spent'.edits = spent.edits

LEMMA JoinsNumbered ==
  ASSUME IInv, Joins
  PROVE  PageInv' /\ Numbered'
  <1>. USE DEF IInv, OrderInv
  <1>1. /\ Len(chain') = Len(chain) + 1 /\ Len(chain) \in Nat
        /\ \A i \in 1 .. Len(chain) : chain'[i] = chain[i]
        /\ chain'[Len(chain) + 1].rev = revision + 1
    BY QueuedType DEF Joins, TypeOK
  <1>2. chain' # <<>>
    BY <1>1
  <1>3. PageInv'
    BY <1>2 DEF PageInv, Joins
  <1>4. \A i \in 1 .. Len(chain') : i \in 1 .. Len(chain) \/ i = Len(chain) + 1
    BY <1>1
  <1>5. revision \in Nat /\ revision' = revision + 1
    BY DEF Joins, TypeOK
  <1>6. \A i \in 1 .. Len(chain) : chain[i].rev \in Nat
    BY ChainParts
  <1>7. Numbered'
    <2>1. SUFFICES ASSUME NEW i \in 1 .. Len(chain')
                   PROVE  /\ chain'[i].rev <= revision + 1
                          /\ \A j \in 1 .. Len(chain') : i < j => chain'[i].rev < chain'[j].rev
      BY <1>5 DEF Numbered
    <2>2. CASE i \in 1 .. Len(chain)
      <3>1. chain'[i] = chain[i] /\ chain[i].rev \in Nat /\ chain[i].rev <= revision
        BY <1>1, <1>6, <2>2 DEF Numbered
      <3>2. \A j \in 1 .. Len(chain) : i < j => chain'[i].rev < chain'[j].rev
        BY <1>1, <2>2, <3>1 DEF Numbered
      <3>3. chain'[i].rev < chain'[Len(chain) + 1].rev /\ chain'[i].rev <= revision + 1
        BY <1>1, <1>5, <3>1
      <3>. QED
        BY <1>4, <3>2, <3>3
    <2>3. CASE i = Len(chain) + 1
      <3>1. chain'[i].rev = revision + 1
        BY <1>1, <2>3
      <3>2. \A j \in 1 .. Len(chain') : ~(i < j)
        BY <1>1, <2>3
      <3>. QED
        BY <1>5, <3>1, <3>2
    <2>. QED
      BY <1>4, <2>2, <2>3
  <1>. QED
    BY <1>3, <1>7

\* What that does to the line of a key, the journal apart.
LEMMA JoinsLine ==
  ASSUME IInv, Joins, NEW k \in Core
  PROVE  /\ LoadInv(k)' /\ Bounded(k)' /\ ChainOrder(k)' /\ QueueOrder(k)' /\ UnderWay(k)'
         /\ \A v \in Nat : Above(v, k) =>
              /\ \A i \in 1 .. Len(io'[k]) : v <= io'[k][i].value
              /\ \A i \in 1 .. Len(chain') : v <= chain'[i].snap[k]
              /\ v <= mem'[k]
  <1>. USE DEF IInv, OrderInv
  <1>1. /\ Len(chain') = Len(chain) + 1 /\ Len(chain) \in Nat
        /\ \A i \in 1 .. Len(chain) : chain'[i] = chain[i]
        /\ chain'[Len(chain) + 1].rev = revision + 1
        /\ chain'[Len(chain) + 1].snap[k] = mem[k]
    BY QueuedType DEF Joins, TypeOK
  <1>2. \A i \in 1 .. Len(chain') : i \in 1 .. Len(chain) \/ i = Len(chain) + 1
    BY <1>1
  <1>3. /\ page' = page /\ page = "LOADED" /\ started' = started /\ writing' = writing
        /\ io' = io /\ disk' = disk /\ mem' = mem /\ load' = load
        /\ revision' = revision + 1 /\ revision \in Nat
        /\ known' = known /\ behind' = behind
    BY DEF Joins, TypeOK
  <1>4. KeyInv(k)
    OBVIOUS
  <1>5. LoadInv(k)' /\ Bounded(k)'
    BY <1>3, <1>4 DEF KeyInv, LoadInv, Bounded, Top, Joins
  <1>6. ChainOrder(k)'
    <2>1. ChainOrder(k) /\ mem[k] \in Nat
      BY <1>4, KeyNumbers DEF KeyInv
    <2>2. ASSUME NEW i \in 1 .. Len(chain)
          PROVE  /\ chain'[i].snap[k] <= mem'[k]
                 /\ \A j \in 1 .. Len(chain') : i < j => chain'[i].snap[k] <= chain'[j].snap[k]
      BY <1>1, <1>2, <1>3, <2>1 DEF ChainOrder
    <2>3. /\ chain'[Len(chain) + 1].snap[k] <= mem'[k]
          /\ \A j \in 1 .. Len(chain') : ~(Len(chain) + 1 < j)
      BY <1>1, <1>3, <2>1
    <2>. QED
      BY <1>2, <2>2, <2>3 DEF ChainOrder
  <1>7. started => chain # <<>> /\ LastWrite(k)' = LastWrite(k)
    <2>1. started => chain # <<>>
      BY DEF PageInv
    <2>2. chain # <<>> => 1 \in 1 .. Len(chain)
      BY FirstParts
    <2>. QED
      BY <1>1, <2>1, <2>2 DEF LastWrite
  <1>8. QueueOrder(k)'
    <2>1. SUFFICES ASSUME NEW i \in 1 .. Len(io[k])
                   PROVE /\ io[k][i].op # "get"
                         /\ io[k][i].value <= mem[k] /\ io[k][i].rev <= revision + 1
                         /\ \A j \in 1 .. Len(io[k]) : i < j => io[k][i].value <= io[k][j].value
                         /\ \A j \in 1 .. Len(chain') :
                              /\ io[k][i].value <= chain'[j].snap[k]
                              /\ \/ io[k][i].rev < chain'[j].rev
                                 \/ started /\ j = 1 /\ i = Len(io[k])
      BY <1>3 DEF QueueOrder
    <2>2. io[k][i].value \in Nat /\ io[k][i].rev \in Nat
      BY KeyNumbers
    <2>3. /\ io[k][i].op # "get" /\ io[k][i].value <= mem[k] /\ io[k][i].rev <= revision
          /\ \A j \in 1 .. Len(io[k]) : i < j => io[k][i].value <= io[k][j].value
      BY <1>3, <1>4 DEF KeyInv, QueueOrder
    <2>4. ASSUME NEW j \in 1 .. Len(chain)
          PROVE  /\ io[k][i].value <= chain'[j].snap[k]
                 /\ \/ io[k][i].rev < chain'[j].rev
                    \/ started /\ j = 1 /\ i = Len(io[k])
      BY <1>1, <1>3, <1>4, <1>7 DEF KeyInv, QueueOrder
    <2>5. io[k][i].value <= chain'[Len(chain) + 1].snap[k] /\ io[k][i].rev < chain'[Len(chain) + 1].rev
      BY <1>1, <1>3, <2>2, <2>3
    <2>6. io[k][i].rev <= revision + 1
      BY <1>3, <2>2, <2>3
    <2>. QED
      BY <1>2, <2>3, <2>4, <2>5, <2>6
  <1>9. UnderWay(k)'
    <2>1. started => chain'[1] = chain[1]
      BY <1>1, <1>7, FirstParts
    <2>. QED
      BY <1>3, <1>4, <1>7, <2>1 DEF KeyInv, UnderWay
  <1>10. ASSUME NEW v \in Nat, Above(v, k)
         PROVE  /\ \A i \in 1 .. Len(io'[k]) : v <= io'[k][i].value
                /\ \A i \in 1 .. Len(chain') : v <= chain'[i].snap[k]
                /\ v <= mem'[k]
    BY <1>1, <1>2, <1>3, <1>10 DEF Above
  <1>. QED
    BY <1>5, <1>6, <1>8, <1>9, <1>10

LEMMA JoinsJournal ==
  ASSUME IInv, Joins, journal' = journal, safe' = safe, NEW k \in Core
  PROVE  JournalOrder(k)'
  <1>. SUFFICES ASSUME journal # NoJournal PROVE JournalOrder(k)'
    BY DEF JournalOrder
  <1>1. /\ Len(chain') = Len(chain) + 1 /\ Len(chain) \in Nat
        /\ \A i \in 1 .. Len(chain) : chain'[i] = chain[i]
        /\ chain'[Len(chain) + 1].rev = revision + 1
        /\ chain'[Len(chain) + 1].snap[k] = mem[k]
    BY QueuedType DEF Joins, IInv, TypeOK
  <1>2. \A i \in 1 .. Len(chain') : i \in 1 .. Len(chain) \/ i = Len(chain) + 1
    BY <1>1
  <1>3. /\ page' = page /\ page = "LOADED" /\ mem' = mem /\ Top' = Top
        /\ revision' = revision + 1 /\ revision \in Nat
    BY DEF Joins, IInv, TypeOK, Top
  <1>4. /\ safe[k] <= journal.snap[k] /\ journal.snap[k] <= Top
        /\ journal.rev <= revision /\ journal.snap[k] <= mem[k] /\ journal.rev \in Nat
        /\ \A i \in 1 .. Len(chain) :
             /\ journal.rev <= chain[i].rev => journal.snap[k] <= chain[i].snap[k]
             /\ chain[i].rev <= journal.rev => chain[i].snap[k] <= journal.snap[k]
    BY <1>3, JournalParts DEF IInv, OrderInv, KeyInv, JournalOrder
  <1>5. ~(revision + 1 <= journal.rev) /\ journal.rev <= revision + 1
    BY <1>3, <1>4
  <1>6. ASSUME NEW i \in 1 .. Len(chain')
        PROVE  /\ journal.rev <= chain'[i].rev => journal.snap[k] <= chain'[i].snap[k]
               /\ chain'[i].rev <= journal.rev => chain'[i].snap[k] <= journal.snap[k]
    BY <1>1, <1>2, <1>4, <1>5
  <1>. QED
    BY <1>3, <1>4, <1>5, <1>6 DEF JournalOrder

LEMMA JoinsReliable ==
  ASSUME IInv, Joins, journal' = journal, safe' = safe, NEW k \in Core
  PROVE  Reliable(k)'
  <1>1. /\ Reliable(k) /\ page = "LOADED" /\ disk' = disk
        /\ known' = known /\ behind' = behind
    BY DEF IInv, OrderInv, KeyInv, Joins
  <1>2. safe[k] \in Nat /\ disk[k] \in Nat
    BY KeyNumbers DEF IInv
  <1>3. (journal = NoJournal => Above(safe[k], k))'
    BY <1>1, <1>2, JoinsLine DEF Reliable, Above
  <1>4. (k \in known => Above(disk[k], k))'
    BY <1>1, <1>2, JoinsLine DEF Reliable, Above
  <1>. QED
    BY <1>1, <1>3, <1>4 DEF Reliable, Stored

LEMMA JoinsJournaled ==
  ASSUME IInv, TypeOK', Joins, journal' = Journal, safe' = Now, NEW k \in Core
  PROVE  JournalOrder(k)' /\ Reliable(k)'
  <1>1. /\ journal' # NoJournal
        /\ journal'.rev = revision + 1 /\ journal'.snap[k] = mem[k] /\ safe'[k] = mem[k]
    <2>1. Now \in [Core -> Nat] /\ Now[k] = mem[k]
      BY NowType DEF IInv, Snapshot
    <2>2. Journal \in [rev : Nat, snap : [Core -> Nat]]
      BY <2>1 DEF Journal, IInv, TypeOK
    <2>. QED
      BY <2>1, <2>2, KeyAssumption DEF Journal
  <1>2. /\ Len(chain') = Len(chain) + 1 /\ Len(chain) \in Nat
        /\ \A i \in 1 .. Len(chain) : chain'[i] = chain[i]
        /\ chain'[Len(chain) + 1].rev = revision + 1
        /\ chain'[Len(chain) + 1].snap[k] = mem[k]
    BY QueuedType DEF Joins, IInv, TypeOK
  <1>3. \A i \in 1 .. Len(chain') : i \in 1 .. Len(chain) \/ i = Len(chain) + 1
    BY <1>2
  <1>4. /\ page' = page /\ page = "LOADED" /\ mem' = mem /\ Top' = Top
        /\ revision' = revision + 1 /\ revision \in Nat
        /\ disk' = disk /\ known' = known /\ behind' = behind
    BY DEF Joins, IInv, TypeOK, Top
  <1>5. mem[k] \in Nat /\ mem[k] <= Top /\ disk[k] \in Nat
    BY KeyNumbers DEF IInv, OrderInv, KeyInv, Bounded
  <1>6. \A i \in 1 .. Len(chain) :
          /\ chain[i].rev \in Nat /\ chain[i].rev <= revision
          /\ chain[i].snap[k] \in Nat /\ chain[i].snap[k] <= mem[k]
    BY KeyNumbers DEF IInv, OrderInv, KeyInv, Numbered, ChainOrder
  <1>7. ASSUME NEW i \in 1 .. Len(chain')
        PROVE  /\ journal'.rev <= chain'[i].rev => journal'.snap[k] <= chain'[i].snap[k]
               /\ chain'[i].rev <= journal'.rev => chain'[i].snap[k] <= journal'.snap[k]
    <2>1. CASE i \in 1 .. Len(chain)
      <3>1. ~(revision + 1 <= chain[i].rev) /\ chain[i].snap[k] <= mem[k]
        BY <1>4, <1>6, <2>1
      <3>. QED
        BY <1>1, <1>2, <2>1, <3>1
    <2>2. CASE i = Len(chain) + 1
      <3>1. mem[k] <= mem[k]
        BY <1>5
      <3>. QED
        BY <1>1, <1>2, <2>2, <3>1
    <2>. QED
      BY <1>3, <2>1, <2>2
  <1>8. journal'.rev <= revision' /\ journal'.snap[k] <= mem'[k] /\ safe'[k] <= journal'.snap[k]
    BY <1>1, <1>4, <1>5
  <1>9. JournalOrder(k)'
    BY <1>1, <1>4, <1>5, <1>7, <1>8 DEF JournalOrder
  <1>10. (k \in known => Above(disk[k], k))'
    BY <1>4, <1>5, JoinsLine DEF IInv, OrderInv, KeyInv, Reliable, Above
  <1>11. Reliable(k)'
    BY <1>1, <1>10 DEF Reliable
  <1>. QED
    BY <1>9, <1>11

LEMMA QueueCheckpointKeeps == IInv /\ TypeOK' /\ QueueRuntimeCheckpoint => OrderInv'
  <1>. SUFFICES ASSUME IInv, TypeOK', QueueRuntimeCheckpoint PROVE OrderInv'
    OBVIOUS
  <1>. USE DEF IInv, OrderInv
  <1>1. Joins
    BY DEF QueueRuntimeCheckpoint, Joins
  <1>2. journal' = journal /\ safe' = safe /\ spent' = spent
    BY DEF QueueRuntimeCheckpoint
  <1>3. PageInv' /\ Numbered'
    BY <1>1, JoinsNumbered
  <1>4. ASSUME NEW k \in Core PROVE KeyInv(k)'
    <2>1. /\ LoadInv(k)' /\ Bounded(k)' /\ ChainOrder(k)' /\ QueueOrder(k)' /\ UnderWay(k)'
      BY <1>1, JoinsLine
    <2>2. JournalOrder(k)'
      BY <1>1, <1>2, JoinsJournal
    <2>3. Reliable(k)'
      BY <1>1, <1>2, JoinsReliable
    <2>. QED
      BY <2>1, <2>2, <2>3 DEF KeyInv
  <1>. QED
    BY <1>3, <1>4

LEMMA NavigationKeeps == IInv /\ TypeOK' /\ CheckpointForNavigation => OrderInv'
  <1>. SUFFICES ASSUME IInv, TypeOK', CheckpointForNavigation PROVE OrderInv'
    OBVIOUS
  <1>. USE DEF IInv, OrderInv
  <1>1. spent'.edits = spent.edits
    BY SpentFails DEF CheckpointForNavigation
  <1>2. Joins
    BY <1>1 DEF CheckpointForNavigation, Joins
  <1>3. PageInv' /\ Numbered'
    BY <1>2, JoinsNumbered
  <1>4. ASSUME NEW k \in Core PROVE KeyInv(k)'
    <2>1. /\ LoadInv(k)' /\ Bounded(k)' /\ ChainOrder(k)' /\ QueueOrder(k)' /\ UnderWay(k)'
      BY <1>2, JoinsLine
    <2>2. CASE journal' = journal /\ safe' = safe
      BY <1>2, <2>1, <2>2, JoinsJournal, JoinsReliable DEF KeyInv
    <2>3. CASE journal' = Journal /\ safe' = Now
      BY <1>2, <2>1, <2>3, JoinsJournaled DEF KeyInv
    <2>. QED
      BY <2>2, <2>3 DEF CheckpointForNavigation
  <1>. QED
    BY <1>3, <1>4

LEMMA StartKeeps == IInv /\ TypeOK' /\ StartCheckpoint => OrderInv'
  <1>. SUFFICES ASSUME IInv, TypeOK', StartCheckpoint PROVE OrderInv'
    OBVIOUS
  <1>. USE DEF IInv, OrderInv
  <1>1. /\ chain # <<>> /\ started = FALSE /\ started' = TRUE /\ writing' = Core
        /\ page' = page /\ chain' = chain /\ mem' = mem /\ disk' = disk /\ load' = load
        /\ journal' = journal /\ safe' = safe /\ revision' = revision
        /\ known' = known /\ behind' = behind /\ spent' = spent
    BY DEF StartCheckpoint, TypeOK
  <1>2. page = "LOADED"
    BY <1>1 DEF PageInv
  <1>3. PageInv' /\ Numbered'
    BY <1>1, <1>2 DEF PageInv, Numbered
  <1>4. ASSUME NEW k \in Core PROVE KeyInv(k)'
    <2>1. KeyInv(k) /\ k \in Key
      BY CoreIsKey
    <2>2. /\ 1 \in 1 .. Len(chain) /\ chain[1].snap[k] \in Nat /\ chain[1].rev \in Nat
      BY <1>1, FirstParts
    <2>3. LastWrite(k) \in RequestType /\ LastWrite(k).op = "put"
          /\ LastWrite(k).value = chain[1].snap[k] /\ LastWrite(k).rev = chain[1].rev
      BY <2>1, <2>2, PutType DEF LastWrite
    <2>4. io'[k] = Append(io[k], LastWrite(k)) /\ io[k] \in Seq(RequestType)
      BY <2>1 DEF StartCheckpoint, LastWrite, TypeOK
    <2>5. /\ Len(io'[k]) = Len(io[k]) + 1 /\ Len(io[k]) \in Nat /\ io'[k] # <<>>
          /\ \A i \in 1 .. Len(io[k]) : io'[k][i] = io[k][i]
          /\ io'[k][Len(io[k]) + 1] = LastWrite(k)
      BY <2>3, <2>4, AppendType
    <2>6. \A i \in 1 .. Len(io'[k]) : i \in 1 .. Len(io[k]) \/ i = Len(io[k]) + 1
      BY <2>5
    <2>7. LastWrite(k)' = LastWrite(k)
      BY <1>1 DEF LastWrite
    <2>8. LoadInv(k)' /\ Bounded(k)' /\ ChainOrder(k)' /\ JournalOrder(k)'
      BY <1>1, <1>2, <2>1 DEF KeyInv, LoadInv, Bounded, ChainOrder, JournalOrder, Top
    <2>9. QueueOrder(k)'
      <3>1. SUFFICES ASSUME NEW i \in 1 .. Len(io'[k])
                     PROVE /\ io'[k][i].op # "get"
                           /\ io'[k][i].value <= mem[k] /\ io'[k][i].rev <= revision
                           /\ \A j \in 1 .. Len(io'[k]) : i < j => io'[k][i].value <= io'[k][j].value
                           /\ \A j \in 1 .. Len(chain) :
                                /\ io'[k][i].value <= chain[j].snap[k]
                                /\ \/ io'[k][i].rev < chain[j].rev
                                   \/ j = 1 /\ i = Len(io'[k])
        BY <1>1, <2>7 DEF QueueOrder
      <3>2. CASE i \in 1 .. Len(io[k])
        <4>1. /\ io[k][i].op # "get" /\ io[k][i].value <= mem[k] /\ io[k][i].rev <= revision
              /\ \A j \in 1 .. Len(io[k]) : i < j => io[k][i].value <= io[k][j].value
              /\ \A j \in 1 .. Len(chain) : io[k][i].value <= chain[j].snap[k]
                                            /\ io[k][i].rev < chain[j].rev
          BY <1>1, <1>2, <2>1, <3>2 DEF KeyInv, QueueOrder
        <4>2. io[k][i].value <= io'[k][Len(io[k]) + 1].value
          BY <2>2, <2>3, <2>5, <4>1
        <4>. QED
          BY <2>5, <2>6, <3>2, <4>1, <4>2
      <3>3. CASE i = Len(io[k]) + 1
        <4>1. io'[k][i] = LastWrite(k) /\ i = Len(io'[k])
          BY <2>5, <3>3
        <4>2. chain[1].snap[k] <= mem[k] /\ chain[1].rev <= revision
          BY <2>1, <2>2 DEF KeyInv, ChainOrder, Numbered
        <4>3. \A j \in 1 .. Len(io'[k]) : ~(i < j)
          BY <2>5, <4>1
        <4>4. ASSUME NEW j \in 1 .. Len(chain), j # 1
              PROVE  chain[1].snap[k] <= chain[j].snap[k] /\ chain[1].rev < chain[j].rev
          <5>1. 1 < j
            BY <4>4
          <5>. QED
            BY <2>1, <2>2, <5>1 DEF KeyInv, ChainOrder, Numbered
        <4>5. chain[1].snap[k] <= chain[1].snap[k]
          BY <2>2
        <4>6. ASSUME NEW j \in 1 .. Len(chain)
              PROVE  /\ LastWrite(k).value <= chain[j].snap[k]
                     /\ LastWrite(k).rev < chain[j].rev \/ j = 1
          BY <2>3, <4>4, <4>5
        <4>. QED
          BY <2>3, <4>1, <4>2, <4>3, <4>6
      <3>. QED
        BY <2>6, <3>2, <3>3
    <2>10. UnderWay(k)'
      BY <1>1, <2>5, <2>7 DEF UnderWay
    <2>11. ASSUME NEW v \in Nat, Above(v, k)
           PROVE  /\ \A i \in 1 .. Len(io'[k]) : v <= io'[k][i].value
                  /\ \A i \in 1 .. Len(chain) : v <= chain[i].snap[k]
                  /\ v <= mem[k]
      BY <2>2, <2>3, <2>5, <2>6, <2>11 DEF Above
    <2>12. safe[k] \in Nat /\ disk[k] \in Nat
      BY KeyNumbers
    <2>13. (journal = NoJournal => Above(safe[k], k))'
      BY <1>1, <1>2, <2>1, <2>11, <2>12 DEF KeyInv, Reliable, Above
    <2>14. (k \in known => Above(disk[k], k))'
      BY <1>1, <1>2, <2>1, <2>11, <2>12 DEF KeyInv, Reliable, Above
    <2>15. Reliable(k)'
      BY <1>1, <2>1, <2>13, <2>14 DEF KeyInv, Reliable, Stored
    <2>. QED
      BY <2>8, <2>9, <2>10, <2>15 DEF KeyInv
  <1>. QED
    BY <1>3, <1>4

\* The first checkpoint leaves the chain: what is left is numbered and ordered
\* as before, and beyond what was first.
LEMMA FirstLeaves ==
  ASSUME IInv, chain # <<>>, chain' = Tail(chain), revision' = revision, mem' = mem
  PROVE  /\ \A i \in 1 .. Len(chain') : i + 1 \in 1 .. Len(chain) /\ chain'[i] = chain[i + 1]
         /\ Numbered'
         /\ \A i \in 1 .. Len(chain') : chain[1].rev < chain'[i].rev
         /\ \A k \in Core : /\ ChainOrder(k)'
                            /\ chain[1].snap[k] <= mem[k]
                            /\ \A i \in 1 .. Len(chain') : chain[1].snap[k] <= chain'[i].snap[k]
  <1>. USE DEF IInv, OrderInv
  <1>1. /\ Len(chain) \in Nat /\ 1 \in 1 .. Len(chain) /\ Len(chain') = Len(chain) - 1
        /\ \A i \in 1 .. Len(chain') : chain'[i] = chain[i + 1]
    BY FirstParts DEF TypeOK
  <1>2. \A i \in 1 .. Len(chain') : i + 1 \in 1 .. Len(chain) /\ chain'[i] = chain[i + 1] /\ 1 < i + 1
    BY <1>1
  <1>3. Numbered'
    <2>1. SUFFICES ASSUME NEW i \in 1 .. Len(chain')
                   PROVE  /\ chain'[i].rev <= revision
                          /\ \A j \in 1 .. Len(chain') : i < j => chain'[i].rev < chain'[j].rev
      BY DEF Numbered
    <2>2. \A j \in 1 .. Len(chain') : i < j => i + 1 < j + 1
      OBVIOUS
    <2>. QED
      BY <1>2, <2>2 DEF Numbered
  <1>4. \A i \in 1 .. Len(chain') : chain[1].rev < chain'[i].rev
    BY <1>1, <1>2 DEF Numbered
  <1>5. ASSUME NEW k \in Core
        PROVE  /\ ChainOrder(k)' /\ chain[1].snap[k] <= mem[k]
               /\ \A i \in 1 .. Len(chain') : chain[1].snap[k] <= chain'[i].snap[k]
    <2>1. ChainOrder(k)
      BY DEF KeyInv
    <2>2. ASSUME NEW i \in 1 .. Len(chain')
          PROVE  /\ chain'[i].snap[k] <= mem[k]
                 /\ \A j \in 1 .. Len(chain') : i < j => chain'[i].snap[k] <= chain'[j].snap[k]
      <3>1. \A j \in 1 .. Len(chain') : i < j => i + 1 < j + 1
        OBVIOUS
      <3>. QED
        BY <1>2, <2>1, <3>1 DEF ChainOrder
    <2>3. ChainOrder(k)'
      BY <2>2 DEF ChainOrder
    <2>. QED
      BY <1>1, <1>2, <2>1, <2>3 DEF ChainOrder
  <1>. QED
    BY <1>2, <1>3, <1>4, <1>5

LEMMA ConfirmKeeps == IInv /\ TypeOK' /\ Confirm => OrderInv'
  <1>. SUFFICES ASSUME IInv, TypeOK', Confirm PROVE OrderInv'
    OBVIOUS
  <1>. USE DEF IInv, OrderInv
  <1>1. /\ started /\ writing = {} /\ started' = FALSE /\ chain' = Tail(chain)
        /\ page' = page /\ mem' = mem /\ disk' = disk /\ load' = load /\ io' = io
        /\ writing' = writing /\ revision' = revision /\ spent' = spent
        /\ known' = known /\ behind' = behind
    BY DEF Confirm, Written
  <1>2. chain # <<>> /\ page = "LOADED"
    BY <1>1 DEF PageInv
  <1>3. PageInv' /\ Numbered'
    BY <1>1, <1>2, FirstLeaves DEF PageInv
  <1>4. ASSUME NEW k \in Core PROVE KeyInv(k)'
    <2>1. KeyInv(k) /\ k \in Key
      BY CoreIsKey
    <2>2. /\ 1 \in 1 .. Len(chain) /\ chain[1].snap[k] \in Nat /\ chain[1].rev \in Nat
      BY <1>2, FirstParts
    <2>3. \/ io[k] = <<Done(LastWrite(k))>> /\ k \in behind
          \/ io[k] = <<>> /\ (k \in behind \/ disk[k] = chain[1].snap[k])
      BY <1>1, <2>1 DEF KeyInv, UnderWay
    <2>a. ASSUME NEW i \in 1 .. Len(io[k])
          PROVE  /\ i = 1 /\ Len(io[k]) = 1 /\ io[k][i].op = "done"
                 /\ io[k][i].value = chain[1].snap[k] /\ io[k][i].rev = chain[1].rev
      <3>1. io[k] = <<Done(LastWrite(k))>>
        BY <2>3
      <3>2. /\ Done(LastWrite(k)).op = "done"
            /\ Done(LastWrite(k)).value = chain[1].snap[k] /\ Done(LastWrite(k)).rev = chain[1].rev
        BY <2>1, <2>2, LastWriteParts
      <3>. QED
        BY <3>1, <3>2
    <2>b. /\ \A i \in 1 .. Len(chain') : /\ chain[1].snap[k] <= chain'[i].snap[k]
                                        /\ chain[1].rev < chain'[i].rev
          /\ chain[1].snap[k] <= mem[k] /\ chain[1].rev <= revision
      BY <1>1, <1>2, <2>2, FirstLeaves DEF Numbered
    <2>4. LoadInv(k)' /\ Bounded(k)'
      BY <1>1, <1>2, <2>1 DEF KeyInv, LoadInv, Bounded, Top
    <2>5. ChainOrder(k)'
      BY <1>1, <1>2, FirstLeaves
    <2>6. QueueOrder(k)' /\ UnderWay(k)'
      <3>1. ASSUME NEW i \in 1 .. Len(io[k])
            PROVE  /\ io[k][i].op # "get"
                   /\ io[k][i].value <= mem[k] /\ io[k][i].rev <= revision
                   /\ \A j \in 1 .. Len(io[k]) : ~(i < j)
                   /\ \A j \in 1 .. Len(chain') : /\ io[k][i].value <= chain'[j].snap[k]
                                                 /\ io[k][i].rev < chain'[j].rev
        BY <2>a, <2>b
      <3>. QED
        BY <1>1, <3>1 DEF QueueOrder, UnderWay
    <2>7. safe'[k] = Larger(safe[k], chain[1].snap[k]) /\ safe[k] \in Nat
      BY KeyNumbers DEF Confirm
    <2>8. (k \in known => Above(disk[k], k))'
      BY <1>1, <1>2, <2>1, FirstLeaves DEF KeyInv, Reliable, Above
    <2>9. JournalOrder(k)'
      <3>1. SUFFICES ASSUME journal' # NoJournal PROVE JournalOrder(k)'
        BY DEF JournalOrder
      <3>2. journal' = journal /\ journal # NoJournal /\ ~(journal.rev <= chain[1].rev)
        BY <3>1 DEF Confirm, Cleared
      <3>3. journal.rev \in Nat /\ journal.snap[k] \in Nat
        BY <3>2, KeyNumbers
      <3>4. chain[1].rev <= journal.rev
        BY <2>2, <3>2, <3>3
      <3>5. chain[1].snap[k] <= journal.snap[k] /\ safe[k] <= journal.snap[k]
        BY <1>2, <2>1, <2>2, <3>2, <3>4 DEF KeyInv, JournalOrder
      <3>6. safe'[k] <= journal.snap[k]
        BY <2>2, <2>7, <3>3, <3>5 DEF Larger
      <3>7. \A i \in 1 .. Len(chain') :
              /\ journal.rev <= chain'[i].rev => journal.snap[k] <= chain'[i].snap[k]
              /\ chain'[i].rev <= journal.rev => chain'[i].snap[k] <= journal.snap[k]
        BY <1>1, <1>2, <2>1, <3>2, FirstLeaves DEF KeyInv, JournalOrder
      <3>8. /\ journal.snap[k] <= Top /\ journal.rev <= revision /\ journal.snap[k] <= mem[k]
        BY <1>2, <2>1, <3>2 DEF KeyInv, JournalOrder
      <3>9. Top' = Top
        BY <1>1 DEF Top
      <3>. QED
        BY <1>1, <3>2, <3>6, <3>7, <3>8, <3>9 DEF JournalOrder
    <2>10. journal' = NoJournal => safe'[k] = chain[1].snap[k]
      <3>1. SUFFICES ASSUME journal' = NoJournal PROVE safe[k] <= chain[1].snap[k]
        BY <2>2, <2>7 DEF Larger
      <3>2. CASE journal = NoJournal
        BY <1>2, <2>1, <2>2, <3>2 DEF KeyInv, Reliable, Above
      <3>3. CASE journal # NoJournal
        <4>1. journal.rev <= chain[1].rev
          BY <3>1, <3>3 DEF Confirm, Cleared
        <4>2. journal.snap[k] <= chain[1].snap[k] /\ safe[k] <= journal.snap[k]
          BY <1>2, <2>1, <2>2, <3>3, <4>1 DEF KeyInv, JournalOrder
        <4>. QED
          BY <2>2, <2>7, <3>3, <4>2, KeyNumbers
      <3>. QED
        BY <3>2, <3>3
    <2>11. (journal = NoJournal => Above(safe[k], k))'
      <3>1. SUFFICES ASSUME journal' = NoJournal PROVE Above(safe[k], k)'
        OBVIOUS
      <3>2. \A i \in 1 .. Len(io[k]) : chain[1].snap[k] <= io[k][i].value
        BY <2>2, <2>a
      <3>. QED
        BY <1>1, <2>b, <2>10, <3>1, <3>2 DEF Above
    <2>12. journal' = NoJournal /\ k \notin behind' => safe'[k] <= Stored(k)'
      BY <1>1, <2>2, <2>3, <2>10 DEF Stored, Larger, Blank
    <2>13. Reliable(k)'
      BY <1>1, <2>8, <2>11, <2>12 DEF Reliable
    <2>. QED
      BY <2>4, <2>5, <2>6, <2>9, <2>13 DEF KeyInv
  <1>. QED
    BY <1>3, <1>4

\* In a loaded page the requests for the keys of a checkpoint are writes; in one
\* that is loading they are reads.
LEMMA OpTellsPage ==
  ASSUME IInv, NEW k \in Core, io[k] # <<>>
  PROVE  /\ io[k] \in Seq(RequestType) /\ Head(io[k]) = io[k][1] /\ 1 \in 1 .. Len(io[k])
         /\ io[k][1].value \in Nat /\ io[k][1].rev \in Nat
         /\ io[k][1].op # "get" => page = "LOADED"
         /\ io[k][1].op = "get" => page = "LOADING" /\ io[k] = <<Get(k)>>
  <1>. USE DEF IInv, OrderInv
  <1>1. k \in Key /\ io[k] \in Seq(RequestType)
    BY CoreIsKey DEF TypeOK
  <1>2. Head(io[k]) = io[k][1] /\ 1 \in 1 .. Len(io[k])
    BY <1>1
  <1>3. page = "LOADED" => io[k][1].op # "get"
    BY <1>2 DEF KeyInv, QueueOrder
  <1>4. page = "LOADING" => io[k][1].op = "get" /\ io[k] = <<Get(k)>>
    BY GetType, <1>1 DEF KeyInv, LoadInv
  <1>5. page \in {"LOADED", "LOADING"}
    BY DEF KeyInv, LoadInv, TypeOK
  <1>. QED
    BY <1>1, <1>2, <1>3, <1>4, <1>5, KeyNumbers

\* The first write of a queue leaves it, and no checkpoint waits for it.
Passes(k) ==
    /\ io[k] # <<>> /\ io[k][1].op # "get"
    /\ io[k][1].op = "put" => ~Awaited(k, io[k][1])
    /\ io'[k] = Tail(io[k])
    /\ page' = page /\ mem' = mem /\ chain' = chain /\ started' = started
    /\ revision' = revision /\ writing' = writing

LEMMA Minus ==
  ASSUME NEW m \in Nat, NEW n, n = m - 1, m # 0, m # 1
  PROVE  n + 1 = m /\ n >= 1 /\ n \in Nat
  OBVIOUS

LEMMA EmptySeq ==
  ASSUME NEW S, NEW s \in Seq(S), Len(s) = 0
  PROVE  s = <<>>
  OBVIOUS

LEMMA OneLeft ==
  ASSUME NEW S, NEW s \in Seq(S), Len(s) = 1
  PROVE  Tail(s) = <<>>
  <1>1. Tail(s) \in Seq(S) /\ Len(Tail(s)) = 0
    BY TailType
  <1>. QED
    BY <1>1, EmptySeq

LEMMA PassesQueue ==
  ASSUME IInv, NEW k \in Core, Passes(k)
  PROVE  /\ QueueOrder(k)'
         /\ started => IF k \in writing
                       THEN io'[k] # <<>> /\ io'[k][Len(io'[k])] = LastWrite(k)
                       ELSE io[k] = <<Done(LastWrite(k))>> /\ io'[k] = <<>> /\ k \in behind
         /\ \A i \in 1 .. Len(io'[k]) : i + 1 \in 1 .. Len(io[k]) /\ io'[k][i] = io[k][i + 1]
  <1>. USE DEF IInv, OrderInv
  <1>1. /\ io[k] # <<>> /\ io[k][1].op # "get"
        /\ io[k][1].op = "put" => ~Awaited(k, io[k][1])
        /\ io'[k] = Tail(io[k])
        /\ page' = page /\ mem' = mem /\ chain' = chain /\ started' = started
        /\ revision' = revision /\ writing' = writing
    BY DEF Passes
  <1>2. /\ io[k] \in Seq(RequestType) /\ 1 \in 1 .. Len(io[k]) /\ page = "LOADED"
        /\ Len(io[k]) \in Nat
    BY <1>1, OpTellsPage
  <1>3. /\ Len(io'[k]) = Len(io[k]) - 1
        /\ \A i \in 1 .. Len(io'[k]) : i + 1 \in 1 .. Len(io[k]) /\ io'[k][i] = io[k][i + 1]
    BY <1>1, <1>2
  <1>4. LastWrite(k)' = LastWrite(k)
    BY <1>1 DEF LastWrite
  <1>5. QueueOrder(k)'
    <2>1. SUFFICES ASSUME NEW i \in 1 .. Len(io'[k])
                   PROVE /\ io'[k][i].op # "get"
                         /\ io'[k][i].value <= mem[k] /\ io'[k][i].rev <= revision
                         /\ \A j \in 1 .. Len(io'[k]) : i < j => io'[k][i].value <= io'[k][j].value
                         /\ \A j \in 1 .. Len(chain) :
                              /\ io'[k][i].value <= chain[j].snap[k]
                              /\ \/ io'[k][i].rev < chain[j].rev
                                 \/ started /\ j = 1 /\ i = Len(io'[k])
      BY <1>1, <1>4 DEF QueueOrder
    <2>2. \A j \in 1 .. Len(io'[k]) : i < j => i + 1 < j + 1
      OBVIOUS
    <2>3. i + 1 = Len(io[k]) => i = Len(io'[k])
      BY <1>2, <1>3
    <2>4. QueueOrder(k)
      BY DEF KeyInv
    <2>. QED
      BY <1>2, <1>3, <2>2, <2>3, <2>4 DEF QueueOrder
  <1>6. ASSUME started, k \in writing
        PROVE  io'[k] # <<>> /\ io'[k][Len(io'[k])] = LastWrite(k)
    <2>1. io[k][Len(io[k])] = LastWrite(k)
      BY <1>6 DEF KeyInv, UnderWay
    <2>2. chain # <<>>
      BY <1>6 DEF PageInv
    <2>3. LastWrite(k).rev = chain[1].rev /\ LastWrite(k).op = "put"
      BY <2>2, FirstParts, PutType, CoreIsKey DEF LastWrite
    <2>4. io[k][1].op = "put" => io[k][1].rev # chain[1].rev
      BY <1>1, <1>6 DEF Awaited
    <2>5. Len(io[k]) # 1
      BY <2>1, <2>3, <2>4
    <2>6. Len(io'[k]) + 1 = Len(io[k]) /\ Len(io'[k]) >= 1 /\ Len(io'[k]) \in Nat
      <3>1. Len(io[k]) # 0
        BY <1>2
      <3>. QED
        BY <1>2, <1>3, <2>5, <3>1, Minus
    <2>7. Len(io'[k]) \in 1 .. Len(io'[k])
      BY <2>6
    <2>8. io'[k] # <<>>
      BY <2>6
    <2>. QED
      BY <1>3, <2>1, <2>6, <2>7, <2>8
  <1>7. ASSUME started, k \notin writing
        PROVE  io[k] = <<Done(LastWrite(k))>> /\ io'[k] = <<>> /\ k \in behind
    <2>1. io[k] = <<Done(LastWrite(k))>> /\ k \in behind
      BY <1>1, <1>7 DEF KeyInv, UnderWay
    <2>2. io'[k] = <<>>
      BY <1>1, <1>2, <2>1, OneLeft
    <2>. QED
      BY <2>1, <2>2
  <1>. QED
    BY <1>3, <1>5, <1>6, <1>7

\* The write that the first checkpoint waits for is alone in its queue.
LEMMA AwaitedIsLast ==
  ASSUME IInv, NEW k \in Core, io[k] # <<>>, io[k][1].op = "put", Awaited(k, io[k][1])
  PROVE  Len(io[k]) = 1 /\ Tail(io[k]) = <<>> /\ io[k][1] = LastWrite(k)
  <1>. USE DEF IInv, OrderInv
  <1>1. /\ io[k] \in Seq(RequestType) /\ 1 \in 1 .. Len(io[k]) /\ page = "LOADED"
        /\ io[k][1].rev \in Nat
    BY OpTellsPage
  <1>2. started /\ k \in writing /\ io[k][1].rev = chain[1].rev /\ chain # <<>>
    BY DEF Awaited, PageInv
  <1>3. 1 \in 1 .. Len(chain) /\ chain[1].rev \in Nat
    BY <1>2, FirstParts
  <1>4. ~(io[k][1].rev < chain[1].rev)
    BY <1>2, <1>3
  <1>5. Len(io[k]) = 1
    BY <1>1, <1>3, <1>4 DEF KeyInv, QueueOrder
  <1>6. io[k][1] = LastWrite(k)
    BY <1>2, <1>5 DEF KeyInv, UnderWay
  <1>7. Tail(io[k]) = <<>>
    BY <1>1, <1>5, OneLeft
  <1>. QED
    BY <1>5, <1>6, <1>7

\* A write succeeds: the value stays where it is, and is no longer waited for.
LEMMA SucceededLine ==
  ASSUME IInv, NEW k \in Core, WriteSucceeds(k)
  PROVE  KeyInv(k)'
  <1>. USE DEF IInv, OrderInv
  <1>1. k \in Key /\ io \in [Key -> Seq(RequestType)]
    BY CoreIsKey DEF TypeOK
  <1>2. /\ page' = page /\ mem' = mem /\ chain' = chain /\ started' = started
        /\ load' = load /\ revision' = revision /\ journal' = journal /\ safe' = safe
        /\ disk' = disk /\ known' = known /\ spent' = spent /\ k \in behind'
        /\ io[k] \in Seq(RequestType) /\ io[k] # <<>> /\ io[k][1].op = "put"
        /\ io[k][1] \in RequestType /\ Done(io[k][1]) \in RequestType
        /\ io'[k] = [io[k] EXCEPT ![1] = Done(io[k][1])]
    <2>1. Head(io[k]) = io[k][1]
      BY <1>1, SucceedsFrame
    <2>2. io' = [io EXCEPT ![k] = [io[k] EXCEPT ![1] = Done(io[k][1])]] /\ k \in behind'
      BY <1>1, SucceedsFrame
    <2>. HIDE DEF IInv, OrderInv
    <2>3. io'[k] = [io[k] EXCEPT ![1] = Done(io[k][1])]
      BY <1>1, <2>2
    <2>. QED
      BY <1>1, <2>1, <2>2, <2>3, SucceedsFrame DEF IInv
  <1>3. /\ Len(io'[k]) = Len(io[k]) /\ io'[k][1] = Done(io[k][1]) /\ io'[k] \in Seq(RequestType)
        /\ \A i \in 1 .. Len(io[k]) : i # 1 => io'[k][i] = io[k][i]
    BY <1>2, FirstReplaced
  <1>4. \A i \in 1 .. Len(io[k]) :
          /\ io'[k][i].value = io[k][i].value /\ io'[k][i].rev = io[k][i].rev
          /\ io'[k][i].op \in {"done", io[k][i].op}
    BY <1>2, <1>3, DoneType
  <1>5. page = "LOADED" /\ Head(io[k]) = io[k][1] /\ 1 \in 1 .. Len(io[k]) /\ Len(io[k]) \in Nat
    BY <1>2, OpTellsPage
  <1>6. KeyInv(k) /\ LastWrite(k)' = LastWrite(k)
    BY <1>2 DEF LastWrite
  <1>7. LoadInv(k)' /\ Bounded(k)' /\ ChainOrder(k)' /\ JournalOrder(k)'
    BY <1>2, <1>5, <1>6 DEF KeyInv, LoadInv, Bounded, ChainOrder, JournalOrder, Top
  <1>8. QueueOrder(k)'
    <2>1. SUFFICES ASSUME NEW i \in 1 .. Len(io[k])
                   PROVE /\ io'[k][i].op # "get"
                         /\ io'[k][i].value <= mem[k] /\ io'[k][i].rev <= revision
                         /\ \A j \in 1 .. Len(io[k]) : i < j => io'[k][i].value <= io'[k][j].value
                         /\ \A j \in 1 .. Len(chain) :
                              /\ io'[k][i].value <= chain[j].snap[k]
                              /\ \/ io'[k][i].rev < chain[j].rev
                                 \/ started /\ j = 1 /\ i = Len(io[k])
      BY <1>2, <1>3 DEF QueueOrder
    <2>. QED
      BY <1>4, <1>5, <1>6 DEF KeyInv, QueueOrder
  <1>9. UnderWay(k)'
    <2>1. SUFFICES ASSUME started
                   PROVE  IF k \in writing'
                          THEN io'[k] # <<>> /\ io'[k][Len(io'[k])] = LastWrite(k)
                          ELSE io'[k] = <<Done(LastWrite(k))>>
      BY <1>2, <1>6 DEF UnderWay
    <2>2. CASE Awaited(k, io[k][1])
      <3>1. Len(io[k]) = 1 /\ io[k][1] = LastWrite(k)
        BY <1>2, <2>2, AwaitedIsLast
      <3>2. io'[k] = <<Done(LastWrite(k))>>
        BY <1>3, <3>1
      <3>3. k \notin writing'
        BY <1>5, <2>2 DEF WriteSucceeds
      <3>. QED
        BY <3>2, <3>3
    <2>3. CASE ~Awaited(k, io[k][1])
      <3>1. writing' = writing
        BY <1>5, <2>3 DEF WriteSucceeds
      <3>2. chain # <<>>
        BY <2>1 DEF PageInv
      <3>3. LastWrite(k).rev = chain[1].rev /\ LastWrite(k) \in RequestType
        BY <1>1, <3>2, FirstParts, PutType DEF LastWrite
      <3>4. io[k] # <<Done(LastWrite(k))>>
        BY <1>2, <3>3, DoneType
      <3>5. k \in writing /\ io[k][Len(io[k])] = LastWrite(k)
        BY <1>2, <1>6, <2>1, <3>4 DEF KeyInv, UnderWay
      <3>6. Len(io[k]) # 1
        BY <2>1, <2>3, <3>3, <3>5 DEF Awaited
      <3>7. Len(io[k]) \in 1 .. Len(io[k])
        BY <1>5
      <3>8. io'[k] # <<>>
        BY <1>3, <1>5
      <3>. QED
        BY <1>3, <3>1, <3>5, <3>6, <3>7, <3>8
    <2>. QED
      BY <2>2, <2>3
  <1>10. Reliable(k)'
    BY <1>2, <1>3, <1>4, <1>6 DEF KeyInv, Reliable, Above
  <1>. QED
    BY <1>7, <1>8, <1>9, <1>10 DEF KeyInv

LEMMA WriteSucceedsKeeps ==
  ASSUME IInv, TypeOK', NEW w \in Key, WriteSucceeds(w)
  PROVE  OrderInv'
  <1>. USE DEF IInv, OrderInv
  <1>1. /\ page' = page /\ mem' = mem /\ chain' = chain /\ started' = started
        /\ load' = load /\ revision' = revision /\ journal' = journal /\ safe' = safe
        /\ disk' = disk /\ known' = known /\ spent' = spent /\ behind' = behind \cup {w}
        /\ writing' \in {writing, writing \ {w}}
        /\ io' = [io EXCEPT ![w] = [io[w] EXCEPT ![1] = Done(io[w][1])]]
    BY SucceedsFrame
  <1>2. PageInv' /\ Numbered'
    BY <1>1 DEF PageInv, Numbered, LoadedRevision
  <1>3. ASSUME NEW k \in Core, k # w PROVE KeyInv(k)'
    <2>1. io'[k] = io[k] /\ (k \in writing' <=> k \in writing) /\ (k \in behind' <=> k \in behind)
      BY <1>1, <1>3, CoreIsKey DEF TypeOK
    <2>2. spent'.edits >= spent.edits
      BY <1>1 DEF TypeOK
    <2>. QED
      BY <1>1, <2>1, <2>2, SameLineKeepsInv DEF SameLine
  <1>. QED
    BY <1>2, <1>3, SucceededLine

\* What a commit changes, and what it leaves alone.
LEMMA CommitFrame ==
  ASSUME TypeOK, NEW w \in Key, Commit(w)
  PROVE  /\ page' = page /\ mem' = mem /\ chain' = chain /\ started' = started
         /\ load' = load /\ revision' = revision /\ journal' = journal /\ safe' = safe
         /\ writing' = writing /\ spent' = spent
         /\ known' = known \cup {w} /\ behind' = behind \ {w}
         /\ io[w] # <<>> /\ Head(io[w]).op = "done"
         /\ io' = [io EXCEPT ![w] = Tail(io[w])]
         /\ disk' = [disk EXCEPT ![w] = Head(io[w]).value]
  BY DEF Commit, AtHead, Taken, TypeOK

\* The value moves from the head of the queue to the store.
LEMMA CommittedLine ==
  ASSUME IInv, NEW k \in Core, Commit(k)
  PROVE  KeyInv(k)'
  <1>. USE DEF IInv, OrderInv
  <1>1. k \in Key /\ io \in [Key -> Seq(RequestType)] /\ disk \in [Key -> Nat]
    BY CoreIsKey DEF TypeOK
  <1>2. /\ page' = page /\ mem' = mem /\ chain' = chain /\ started' = started
        /\ load' = load /\ revision' = revision /\ journal' = journal /\ safe' = safe
        /\ writing' = writing /\ spent' = spent
        /\ io[k] # <<>> /\ Head(io[k]).op = "done"
        /\ io'[k] = Tail(io[k]) /\ disk'[k] = Head(io[k]).value
    BY <1>1, CommitFrame
  <1>3. /\ page = "LOADED" /\ 1 \in 1 .. Len(io[k]) /\ io[k][1].op = "done"
        /\ disk'[k] = io[k][1].value /\ disk'[k] \in Nat
    BY <1>2, OpTellsPage
  <1>4. KeyInv(k) /\ LastWrite(k)' = LastWrite(k)
    BY <1>2 DEF LastWrite
  <1>5. /\ disk'[k] <= mem[k] /\ mem[k] \in Nat /\ mem[k] <= Top /\ Top \in Nat
        /\ \A j \in 1 .. Len(chain) : disk'[k] <= chain[j].snap[k]
    BY <1>3, <1>4, KeyNumbers DEF KeyInv, QueueOrder, Bounded, Top, Blank, TypeOK
  <1>6. LoadInv(k)' /\ Bounded(k)' /\ ChainOrder(k)' /\ JournalOrder(k)'
    BY <1>2, <1>3, <1>4, <1>5 DEF KeyInv, LoadInv, Bounded, ChainOrder, JournalOrder, Top
  <1>7. Passes(k)
    BY <1>2, <1>3 DEF Passes
  <1>8. /\ QueueOrder(k)'
        /\ \A i \in 1 .. Len(io'[k]) : i + 1 \in 1 .. Len(io[k]) /\ io'[k][i] = io[k][i + 1]
    BY <1>7, PassesQueue
  <1>9. UnderWay(k)'
    <2>1. SUFFICES ASSUME started, k \notin writing
                   PROVE  io'[k] = <<>> /\ disk'[k] = chain[1].snap[k]
      BY <1>2, <1>4, <1>7, PassesQueue DEF UnderWay
    <2>2. io[k] = <<Done(LastWrite(k))>> /\ io'[k] = <<>>
      BY <1>7, <2>1, PassesQueue
    <2>3. chain # <<>>
      BY <2>1 DEF PageInv
    <2>4. Done(LastWrite(k)).value = chain[1].snap[k]
      BY <2>3, FirstParts, LastWriteParts
    <2>. QED
      BY <1>3, <2>2, <2>4
  <1>10. journal = NoJournal => safe[k] <= disk'[k]
    BY <1>3, <1>4 DEF KeyInv, Reliable, Above
  <1>11. journal' = NoJournal => safe'[k] <= Stored(k)'
    <2>1. safe[k] \in Nat
      BY KeyNumbers
    <2>. QED
      BY <1>2, <1>3, <1>10, <2>1 DEF Stored, Larger, Blank
  <1>12. Above(disk[k], k)'
    <2>1. \A i \in 1 .. Len(io'[k]) : 1 < i + 1
      OBVIOUS
    <2>2. \A i \in 1 .. Len(io'[k]) : disk'[k] <= io'[k][i].value
      BY <1>3, <1>4, <1>8, <2>1 DEF KeyInv, QueueOrder
    <2>. QED
      BY <1>2, <1>5, <2>2 DEF Above
  <1>13. (journal = NoJournal => Above(safe[k], k))'
    BY <1>2, <1>3, <1>4, <1>8 DEF KeyInv, Reliable, Above
  <1>14. Reliable(k)'
    BY <1>11, <1>12, <1>13 DEF Reliable
  <1>. QED
    BY <1>6, <1>8, <1>9, <1>14 DEF KeyInv

LEMMA CommitKeeps ==
  ASSUME IInv, TypeOK', NEW w \in Key, Commit(w)
  PROVE  OrderInv'
  <1>. USE DEF IInv, OrderInv
  <1>1. /\ page' = page /\ mem' = mem /\ chain' = chain /\ started' = started
        /\ load' = load /\ revision' = revision /\ journal' = journal /\ safe' = safe
        /\ writing' = writing /\ spent' = spent
        /\ known' = known \cup {w} /\ behind' = behind \ {w}
        /\ io' = [io EXCEPT ![w] = Tail(io[w])]
        /\ disk' = [disk EXCEPT ![w] = Head(io[w]).value]
    BY CommitFrame
  <1>2. PageInv' /\ Numbered'
    BY <1>1 DEF PageInv, Numbered, LoadedRevision
  <1>3. ASSUME NEW k \in Core, k # w PROVE KeyInv(k)'
    <2>1. /\ io'[k] = io[k] /\ disk'[k] = disk[k]
          /\ k \in known' <=> k \in known
          /\ k \in behind' <=> k \in behind
      BY <1>1, <1>3, CoreIsKey DEF TypeOK
    <2>2. spent'.edits >= spent.edits
      BY <1>1 DEF TypeOK
    <2>. QED
      BY <1>1, <2>1, <2>2, SameLineKeepsInv DEF SameLine
  <1>. QED
    BY <1>2, <1>3, CommittedLine

\* A write leaves the queue without a trace, and no checkpoint waits for it: its
\* commit is aborted, or it fails after its checkpoint has been rejected.
LEMMA DroppedLine ==
  ASSUME IInv, NEW k \in Core, Passes(k), spent'.edits = spent.edits,
         UNCHANGED <<disk, journal, load, known, behind, safe>>
  PROVE  KeyInv(k)'
  <1>. USE DEF IInv, OrderInv
  <1>1. /\ page' = page /\ mem' = mem /\ chain' = chain /\ started' = started
        /\ revision' = revision /\ writing' = writing
        /\ io[k] # <<>> /\ io[k][1].op # "get"
    BY DEF Passes
  <1>2. /\ KeyInv(k) /\ LastWrite(k)' = LastWrite(k) /\ page = "LOADED" /\ 1 \in 1 .. Len(io[k])
        /\ Top' = Top
    BY <1>1, OpTellsPage DEF LastWrite, Top
  <1>3. /\ QueueOrder(k)'
        /\ \A i \in 1 .. Len(io'[k]) : i + 1 \in 1 .. Len(io[k]) /\ io'[k][i] = io[k][i + 1]
    BY PassesQueue
  <1>4. UnderWay(k)'
    BY <1>1, <1>2, PassesQueue DEF UnderWay
  <1>5. LoadInv(k)' /\ Bounded(k)' /\ ChainOrder(k)' /\ JournalOrder(k)'
    BY <1>1, <1>2 DEF KeyInv, LoadInv, Bounded, ChainOrder, JournalOrder
  <1>6. (journal = NoJournal => Above(safe[k], k))'
    BY <1>1, <1>2, <1>3 DEF KeyInv, Reliable, Above
  <1>7. (k \in known => Above(disk[k], k))'
    BY <1>1, <1>2, <1>3 DEF KeyInv, Reliable, Above
  <1>8. Reliable(k)'
    BY <1>1, <1>2, <1>6, <1>7 DEF KeyInv, Reliable, Stored
  <1>. QED
    BY <1>3, <1>4, <1>5, <1>8 DEF KeyInv

\* So it is for the other keys too, on which nothing changes.
LEMMA DroppedKeeps ==
  ASSUME IInv, TypeOK', NEW w \in Key, w \in Core => Passes(w), spent'.edits = spent.edits,
         io' = [io EXCEPT ![w] = Tail(io[w])],
         UNCHANGED <<disk, journal, page, mem, load, revision, chain, started, writing,
                     known, behind, safe>>
  PROVE  OrderInv'
  <1>. USE DEF IInv, OrderInv
  <1>1. PageInv' /\ Numbered'
    BY DEF PageInv, Numbered, LoadedRevision
  <1>2. ASSUME NEW k \in Core, k # w PROVE KeyInv(k)'
    <2>1. io'[k] = io[k]
      BY <1>2, CoreIsKey DEF TypeOK
    <2>2. spent'.edits >= spent.edits
      BY DEF TypeOK
    <2>. QED
      BY <2>1, <2>2, SameLineKeepsInv DEF SameLine
  <1>. QED
    BY <1>1, <1>2, DroppedLine

LEMMA CommitAbortsKeeps ==
  ASSUME IInv, TypeOK', NEW w \in Key, CommitAborts(w)
  PROVE  OrderInv'
  <1>1. /\ io[w] # <<>> /\ Head(io[w]).op = "done"
        /\ io' = [io EXCEPT ![w] = Tail(io[w])]
        /\ UNCHANGED <<disk, journal, page, mem, load, revision, chain, started, writing,
                       known, behind, safe>>
    BY DEF CommitAborts, AtHead, Taken, IInv, TypeOK
  <1>2. spent'.edits = spent.edits
    BY SpentFails DEF CommitAborts, IInv
  <1>3. ASSUME w \in Core PROVE Passes(w)
    <2>1. Head(io[w]) = io[w][1] /\ w \in Key /\ io'[w] = Tail(io[w])
      BY <1>1, <1>3, OpTellsPage DEF IInv, TypeOK
    <2>. QED
      BY <1>1, <2>1 DEF Passes
  <1>. QED
    BY <1>1, <1>2, <1>3, DroppedKeeps

\* The write of w fails, the first checkpoint is rejected and leaves the chain.
\* Its other writes stay where they are.
LEMMA RejectedLine ==
  ASSUME IInv, NEW w \in Core, WriteFails(w), Awaited(w, Head(io[w])), NEW k \in Core
  PROVE  KeyInv(k)'
  <1>. USE DEF IInv, OrderInv
  <1>1. /\ page' = page /\ mem' = mem /\ chain' = Tail(chain) /\ started' = FALSE
        /\ load' = load /\ revision' = revision /\ journal' = journal /\ safe' = safe
        /\ known' = known /\ behind' = behind /\ disk' = disk /\ writing' = {}
        /\ io[w] # <<>> /\ Head(io[w]).op = "put" /\ Taken(w)
    BY DEF WriteFails, AtHead, Reject
  <1>2. /\ k \in Key /\ w \in Key /\ io \in [Key -> Seq(RequestType)]
    BY CoreIsKey DEF TypeOK
  <1>3. Top' = Top
    BY SpentFails DEF Top, WriteFails
  <1>4. Head(io[w]) = io[w][1] /\ page = "LOADED"
    BY <1>1, OpTellsPage
  <1>5. chain # <<>>
    BY DEF Awaited, PageInv
  <1>6. \/ \A i \in 1 .. Len(io'[k]) : FALSE
        \/ io'[k] = io[k]
    <2>1. CASE k = w
      <3>1. Tail(io[w]) = <<>>
        BY <1>1, <1>4, AwaitedIsLast
      <3>2. io'[k] = <<>>
        BY <1>1, <1>2, <2>1, <3>1 DEF Taken
      <3>. QED
        BY <3>2
    <2>2. CASE k # w
      BY <1>1, <1>2, <2>2 DEF Taken
    <2>. QED
      BY <2>1, <2>2
  <1>7. KeyInv(k)
    OBVIOUS
  <1>8. /\ \A i \in 1 .. Len(chain') : i + 1 \in 1 .. Len(chain) /\ chain'[i] = chain[i + 1]
        /\ ChainOrder(k)'
    BY <1>1, <1>5, FirstLeaves
  <1>9. LoadInv(k)' /\ Bounded(k)'
    BY <1>1, <1>3, <1>4, <1>7 DEF KeyInv, LoadInv, Bounded
  <1>10. JournalOrder(k)'
    BY <1>1, <1>3, <1>4, <1>7, <1>8 DEF KeyInv, JournalOrder
  <1>11. QueueOrder(k)'
    <2>1. SUFFICES ASSUME io'[k] = io[k], NEW i \in 1 .. Len(io[k])
                   PROVE /\ io[k][i].op # "get"
                         /\ io[k][i].value <= mem[k] /\ io[k][i].rev <= revision
                         /\ \A j \in 1 .. Len(io[k]) : i < j => io[k][i].value <= io[k][j].value
                         /\ \A j \in 1 .. Len(chain') :
                              /\ io[k][i].value <= chain'[j].snap[k]
                              /\ io[k][i].rev < chain'[j].rev
      BY <1>1, <1>6 DEF QueueOrder
    <2>2. \A j \in 1 .. Len(chain') : j + 1 # 1
      OBVIOUS
    <2>. QED
      BY <1>4, <1>7, <1>8, <2>2 DEF KeyInv, QueueOrder
  <1>12. UnderWay(k)'
    BY <1>1 DEF UnderWay
  <1>13. (journal = NoJournal => Above(safe[k], k))'
    BY <1>1, <1>4, <1>6, <1>7, <1>8 DEF KeyInv, Reliable, Above
  <1>14. (k \in known => Above(disk[k], k))'
    BY <1>1, <1>4, <1>6, <1>7, <1>8 DEF KeyInv, Reliable, Above
  <1>15. Reliable(k)'
    BY <1>1, <1>7, <1>13, <1>14 DEF KeyInv, Reliable, Stored
  <1>. QED
    BY <1>8, <1>9, <1>10, <1>11, <1>12, <1>15 DEF KeyInv

LEMMA WriteFailsKeeps ==
  ASSUME IInv, TypeOK', NEW w \in Key, WriteFails(w)
  PROVE  OrderInv'
  <1>. USE DEF IInv, OrderInv
  <1>1. /\ page' = page /\ mem' = mem /\ load' = load /\ revision' = revision
        /\ journal' = journal /\ safe' = safe /\ disk' = disk
        /\ known' = known /\ behind' = behind
        /\ io[w] # <<>> /\ Head(io[w]).op = "put"
        /\ io' = [io EXCEPT ![w] = Tail(io[w])] /\ spent'.edits = spent.edits
    BY SpentFails DEF WriteFails, AtHead, Taken, TypeOK
  <1>2. CASE Awaited(w, Head(io[w]))
    <2>1. w \in Core /\ chain # <<>>
      BY <1>2 DEF Awaited, TypeOK, PageInv
    <2>2. chain' = Tail(chain) /\ started' = FALSE /\ writing' = {}
      BY <1>2 DEF WriteFails, Reject
    <2>3. page = "LOADED"
      BY <2>1 DEF PageInv
    <2>4. PageInv'
      BY <1>1, <2>2, <2>3 DEF PageInv
    <2>5. Numbered'
      BY <1>1, <2>1, <2>2, FirstLeaves
    <2>. QED
      BY <1>2, <2>1, <2>4, <2>5, RejectedLine
  <1>3. CASE ~Awaited(w, Head(io[w]))
    <2>1. chain' = chain /\ started' = started /\ writing' = writing
      BY <1>3 DEF WriteFails, Reject
    <2>2. ASSUME w \in Core PROVE Passes(w)
      <3>1. Head(io[w]) = io[w][1] /\ w \in Key /\ io'[w] = Tail(io[w])
        BY <1>1, <2>2, OpTellsPage DEF TypeOK
      <3>. QED
        BY <1>1, <1>3, <2>1, <3>1 DEF Passes
    <2>. QED
      BY <1>1, <2>1, <2>2, DroppedKeeps
  <1>. QED
    BY <1>2, <1>3

\* What a read of the load, answered or failed, leaves alone.
LEMMA ReadFrame ==
  ASSUME IInv, NEW r \in Core, ReadPerformed(r) \/ ReadFails(r)
  PROVE  /\ page' = page /\ mem' = mem /\ chain' = chain /\ started' = started
         /\ revision' = revision /\ journal' = journal /\ disk' = disk
         /\ behind' = behind /\ writing' = writing /\ spent'.edits = spent.edits
         /\ page = "LOADING" /\ load.journal = journal
         /\ r \notin known /\ r \notin behind /\ io'[r] = <<>>
         /\ load'.journal = load.journal
         /\ \A k \in Core \ {r} : io'[k] = io[k] /\ load'.got[k] = load.got[k]
         /\ PageInv' /\ Numbered'
  <1>. USE DEF IInv, OrderInv
  <1>1. /\ io[r] # <<>> /\ Head(io[r]).op = "get" /\ Taken(r)
        /\ page' = page /\ mem' = mem /\ chain' = chain /\ started' = started
        /\ revision' = revision /\ journal' = journal /\ disk' = disk
        /\ behind' = behind /\ writing' = writing
    BY DEF ReadPerformed, ReadFails, AtHead
  <1>2. spent'.edits = spent.edits
    BY SpentFails DEF ReadPerformed, ReadFails
  <1>3. page = "LOADING" /\ io[r] = <<Get(r)>>
    BY <1>1, OpTellsPage
  <1>4. r \in Key /\ io \in [Key -> Seq(RequestType)] /\ \A k \in Core : k \in Key
    BY CoreIsKey DEF TypeOK
  <1>5. io'[r] = <<>> /\ \A k \in Core \ {r} : io'[k] = io[k]
    BY <1>1, <1>3, <1>4 DEF Taken
  <1>6. load'.journal = load.journal /\ \A k \in Core \ {r} : load'.got[k] = load.got[k]
    BY DEF ReadPerformed, ReadFails, TypeOK
  <1>7. r \notin known /\ r \notin behind
    BY <1>3 DEF KeyInv, LoadInv
  <1>8. load.journal = journal
    BY <1>3 DEF PageInv
  <1>9. PageInv' /\ Numbered'
    BY <1>1, <1>3, <1>6 DEF PageInv, Numbered, LoadedRevision
  <1>. QED
    BY <1>1, <1>2, <1>3, <1>5, <1>6, <1>7, <1>8, <1>9

LEMMA ReadPerformedKeeps ==
  ASSUME IInv, TypeOK', NEW r \in Key, ReadPerformed(r)
  PROVE  OrderInv'
  <1>. USE DEF IInv, OrderInv
  <1>1. /\ r \in Core /\ safe' = safe
        /\ load'.got[r] = disk[r]
        /\ known' = IF load.journal = NoJournal THEN known \cup {r} ELSE known
    BY DEF ReadPerformed, TypeOK
  <1>2. /\ page' = page /\ mem' = mem /\ chain' = chain /\ started' = started
        /\ revision' = revision /\ journal' = journal /\ disk' = disk
        /\ behind' = behind /\ writing' = writing /\ spent'.edits = spent.edits
        /\ page = "LOADING" /\ load.journal = journal
        /\ r \notin known /\ r \notin behind /\ io'[r] = <<>>
        /\ load'.journal = load.journal
        /\ \A k \in Core \ {r} : io'[k] = io[k] /\ load'.got[k] = load.got[k]
        /\ PageInv' /\ Numbered'
    BY <1>1, ReadFrame
  <1>3. ASSUME NEW k \in Core, k # r PROVE KeyInv(k)'
    <2>1. io'[k] = io[k] /\ load'.got[k] = load.got[k] /\ (k \in known' <=> k \in known)
      BY <1>1, <1>2, <1>3
    <2>2. spent'.edits >= spent.edits
      BY <1>2 DEF TypeOK
    <2>. QED
      BY <1>1, <1>2, <2>1, <2>2, SameLineKeepsInv DEF SameLine
  <1>4. KeyInv(r)'
    <2>1. KeyInv(r)
      BY <1>1
    <2>2. LoadInv(r)' /\ Bounded(r)'
      BY <1>1, <1>2, <2>1 DEF KeyInv, LoadInv, Answered, Bounded, Top
    <2>3. journal' # NoJournal => safe'[r] <= journal'.snap[r] /\ journal'.snap[r] <= Top'
      BY <1>1, <1>2, <2>1 DEF KeyInv, JournalOrder, Top
    <2>4. journal' = NoJournal /\ r \notin behind' => safe'[r] <= Stored(r)'
      BY <1>1, <1>2, <2>1 DEF KeyInv, Reliable, Stored
    <2>. QED
      BY <1>1, <1>2, <2>2, <2>3, <2>4, OutsideKeepsInv
  <1>. QED
    BY <1>2, <1>3, <1>4

\* A read of a checkpointed key that fails: without a journal, what could be
\* relied on for the key is given up.
LEMMA ReadMissedKeeps ==
  ASSUME IInv, TypeOK', NEW r \in Core, ReadFails(r)
  PROVE  OrderInv'
  <1>. USE DEF IInv, OrderInv
  <1>1. /\ load'.got[r] = Nothing /\ known' = known
        /\ safe' = IF load.journal = NoJournal THEN [safe EXCEPT ![r] = Blank] ELSE safe
    BY DEF ReadFails, TypeOK
  <1>2. /\ page' = page /\ mem' = mem /\ chain' = chain /\ started' = started
        /\ revision' = revision /\ journal' = journal /\ disk' = disk
        /\ behind' = behind /\ writing' = writing /\ spent'.edits = spent.edits
        /\ page = "LOADING" /\ load.journal = journal
        /\ r \notin known /\ r \notin behind /\ io'[r] = <<>>
        /\ load'.journal = load.journal
        /\ \A k \in Core \ {r} : io'[k] = io[k] /\ load'.got[k] = load.got[k]
        /\ PageInv' /\ Numbered'
    BY ReadFrame
  <1>3. /\ \A k \in Core \ {r} : safe'[k] = safe[k]
        /\ journal = NoJournal => safe'[r] = Blank
        /\ journal # NoJournal => safe'[r] = safe[r]
    BY <1>1, <1>2 DEF TypeOK, Snapshot
  <1>4. ASSUME NEW k \in Core, k # r PROVE KeyInv(k)'
    <2>1. io'[k] = io[k] /\ load'.got[k] = load.got[k] /\ safe'[k] = safe[k]
      BY <1>2, <1>3, <1>4
    <2>2. spent'.edits >= spent.edits
      BY <1>2 DEF TypeOK
    <2>. QED
      BY <1>1, <1>2, <2>1, <2>2, SameLineKeepsInv DEF SameLine
  <1>5. KeyInv(r)'
    <2>1. KeyInv(r) /\ disk[r] \in Nat
      BY KeyNumbers
    <2>2. Answered(r)'
      BY <1>1, <1>2, <1>3 DEF Answered, Blank
    <2>3. LoadInv(r)' /\ Bounded(r)'
      BY <1>1, <1>2, <2>1, <2>2 DEF KeyInv, LoadInv, Bounded, Top
    <2>4. journal' # NoJournal => safe'[r] <= journal'.snap[r] /\ journal'.snap[r] <= Top'
      BY <1>2, <1>3, <2>1 DEF KeyInv, JournalOrder, Top
    <2>5. journal' = NoJournal /\ r \notin behind' => safe'[r] <= Stored(r)'
      BY <1>2, <1>3, <2>1 DEF Stored, Larger, Blank
    <2>. QED
      BY <1>2, <2>3, <2>4, <2>5, OutsideKeepsInv
  <1>. QED
    BY <1>2, <1>4, <1>5

\* A step that concerns the discovery records alone.
LEMMA ElsewhereKeeps ==
  ASSUME IInv, TypeOK',
         \A k \in Core : io'[k] = io[k] /\ mem'[k] = mem[k],
         spent'.edits = spent.edits,
         UNCHANGED <<disk, journal, page, load, revision, chain, started, writing, known,
                     behind, safe>>
  PROVE  OrderInv'
  <1>. USE DEF IInv, OrderInv
  <1>1. PageInv' /\ Numbered'
    BY DEF PageInv, Numbered, LoadedRevision
  <1>2. spent'.edits >= spent.edits
    BY DEF TypeOK
  <1>3. ASSUME NEW k \in Core PROVE KeyInv(k)'
    BY <1>2, SameLineKeepsInv DEF SameLine
  <1>. QED
    BY <1>1, <1>3

LEMMA DiscoveryReadKeeps == IInv /\ TypeOK' /\ DiscoveryRead => OrderInv'
  <1>. SUFFICES ASSUME IInv, TypeOK', DiscoveryRead PROVE OrderInv'
    OBVIOUS
  <1>1. ASSUME NEW k \in Core PROVE io'[k] = io[k] /\ mem'[k] = mem[k]
    <2>1. k \in Key /\ k # Discovery
      BY CoreIsKey
    <2>. QED
      BY <2>1 DEF DiscoveryRead, Taken, IInv, TypeOK
  <1>. QED
    BY <1>1, ElsewhereKeeps DEF DiscoveryRead

LEMMA ReadFailsKeeps ==
  ASSUME IInv, TypeOK', NEW r \in Key, ReadFails(r)
  PROVE  OrderInv'
  <1>1. CASE r \in Core
    BY <1>1, ReadMissedKeeps
  <1>2. CASE r \notin Core
    <2>1. ASSUME NEW k \in Core PROVE io'[k] = io[k] /\ mem'[k] = mem[k]
      BY <1>2, CoreIsKey DEF ReadFails, Taken, IInv, TypeOK
    <2>2. spent'.edits = spent.edits
      BY SpentFails DEF ReadFails, IInv
    <2>. QED
      BY <1>2, <2>1, <2>2, ElsewhereKeeps DEF ReadFails
  <1>. QED
    BY <1>1, <1>2

LEMMA StutterKeeps ==
  ASSUME IInv, TypeOK', UNCHANGED vars
  PROVE  OrderInv'
  BY ElsewhereKeeps DEF vars

-----------------------------------------------------------------------------
(* The theorems.                                                           *)

LEMMA NextKeepsIInv == IInv /\ [Next]_vars => IInv'
  <1>. SUFFICES ASSUME IInv, [Next]_vars PROVE IInv'
    OBVIOUS
  <1>1. TypeOK'
    BY NextType DEF IInv, OrderInv
  <1>2. CASE Mount \/ Restore \/ LoadThrows \/ Leave
    BY <1>1, <1>2, MountKeeps, RestoreKeeps, LoadThrowsKeeps, LeaveKeeps DEF IInv
  <1>3. CASE QueueRuntimeCheckpoint \/ CheckpointForNavigation \/ StartCheckpoint \/ Confirm
    BY <1>1, <1>3, QueueCheckpointKeeps, NavigationKeeps, StartKeeps, ConfirmKeeps DEF IInv
  <1>4. CASE DiscoveryRead
    BY <1>1, <1>4, DiscoveryReadKeeps DEF IInv
  <1>5. ASSUME NEW k \in Key,
               \/ Edit(k) \/ Request(k) \/ WriteFails(k) \/ ReadFails(k)
               \/ Commit(k) \/ CommitAborts(k)
        PROVE  IInv'
    BY <1>1, <1>5, EditKeeps, WriteSucceedsKeeps, ReadPerformedKeeps, WriteFailsKeeps,
       ReadFailsKeeps, CommitKeeps, CommitAbortsKeeps DEF Request, IInv
  <1>6. CASE UNCHANGED vars
    BY <1>1, <1>6, StutterKeeps DEF IInv
  <1>. QED
    BY <1>2, <1>3, <1>4, <1>5, <1>6 DEF Next

LEMMA Invariance == Spec => []IInv
  <1>1. Init => IInv
    BY InitType, InitOrder DEF IInv
  <1>2. IInv /\ [Next]_vars => IInv'
    BY NextKeepsIInv
  <1>. QED
    BY <1>1, <1>2, PTL DEF Spec

\* Every variable keeps its type, whatever reads and writes answer.
THEOREM TypeCorrect == Spec => []TypeOK
  <1>1. Init => TypeOK /\ PageInv
    BY InitType DEF Init, PageInv
  <1>2. TypeOK /\ PageInv /\ [Next]_vars => TypeOK' /\ PageInv'
    BY NextType, PageKeeps
  <1>. QED
    BY <1>1, <1>2, PTL DEF Spec

\* "clear it only after a matching/newer IndexedDB checkpoint succeeds": whatever
\* reads, writes and commits fail, and wherever the page is closed or killed, a
\* restart would restore, key by key, something at least as new as every journal
\* that was written and every checkpoint that was confirmed.  This is said of
\* every key while there is a journal, and of one whose last write is committed
\* when there is none.
THEOREM RestartIsSafe == Spec => []RestartLosesOnlyUncommitted
  <1>1. IInv => RestartLosesOnlyUncommitted
    BY DEF IInv, OrderInv, KeyInv, Reliable, JournalOrder, RestartLosesOnlyUncommitted, Restart
  <1>. QED
    BY <1>1, Invariance, PTL

\* "older IndexedDB writes cannot finish after and overwrite newer state": a
\* loaded page never takes back a key that it has read from the store, or has
\* once committed itself, though a rejected checkpoint leaves writes behind that
\* nothing waits for, and an aborted one leaves the store behind.
THEOREM StoreIsMonotonic == Spec => StoreNeverGoesBack
  <1>. DEFINE Step == page = "LOADED" /\ page' = "LOADED"
                      => \A k \in known \cap Core : disk'[k] >= disk[k]
  <1>1. IInv /\ [Next]_vars => [Step]_vars
    <2>. SUFFICES ASSUME IInv, Next, page = "LOADED", page' = "LOADED",
                         NEW k \in known \cap Core
                  PROVE  disk'[k] >= disk[k]
      OBVIOUS
    <2>. USE DEF IInv, OrderInv
    <2>1. disk[k] \in Nat /\ disk[k] <= disk[k] /\ k \in Core /\ k \in Key
      BY KeyNumbers, CoreIsKey
    <2>2. CASE disk' = disk
      BY <2>1, <2>2
    <2>3. ASSUME NEW w \in Key, Commit(w)
          PROVE  disk'[k] >= disk[k]
      <3>1. disk' = [disk EXCEPT ![w] = Head(io[w]).value] /\ io[w] # <<>>
        BY <2>3, CommitFrame
      <3>2. CASE w = k
        <4>1. Head(io[k]) = io[k][1] /\ 1 \in 1 .. Len(io[k]) /\ io[k][1].value \in Nat
          BY <2>1, <3>1, <3>2, OpTellsPage
        <4>2. disk[k] <= io[k][1].value
          BY <2>1, <4>1 DEF KeyInv, Reliable, Above
        <4>3. disk'[k] = io[k][1].value
          BY <2>1, <3>1, <3>2, <4>1 DEF TypeOK
        <4>. QED
          BY <2>1, <4>1, <4>2, <4>3
      <3>3. CASE w # k
        BY <2>1, <3>1, <3>3 DEF TypeOK
      <3>. QED
        BY <3>2, <3>3
    <2>4. CASE Leave
      BY <2>4 DEF Leave
    <2>. QED
      BY <2>2, <2>3, <2>4
         DEF Next, Mount, Restore, LoadThrows, QueueRuntimeCheckpoint, CheckpointForNavigation,
             StartCheckpoint, Confirm, DiscoveryRead, Edit, Request, WriteSucceeds, ReadPerformed,
             WriteFails, ReadFails, CommitAborts
  <1>2. Spec => [][Step]_vars
    BY <1>1, Invariance, PTL DEF Spec
  <1>. QED
    BY <1>2 DEF StoreNeverGoesBack

=============================================================================
