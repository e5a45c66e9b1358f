------------------------ MODULE CandidateTickStream ------------------------
(***************************************************************************)
(* CandidateTickStream: the research streams of the candidates.  Per kind  *)
(* (book and trade) one persistent socket, whose subscriptions follow the  *)
(* wanted symbols by SUBSCRIBE and UNSUBSCRIBE messages that are queued,   *)
(* sent one per timer and acknowledged by the exchange.                    *)
(*                                                                         *)
(* Connections.  conn[k] is the connection state in _connections and what  *)
(* older ones left behind: sockets that are closing with a handler that    *)
(* reconnects (leaving), and pending reconnect timers.  A message that was *)
(* sent is kept with its fate: "out" until the exchange has processed it,  *)
(* then "ok" or "error" until the reply arrives; awaited says whether it   *)
(* is still in pendingAcks.  Messages and replies keep their order.        *)
(*                                                                         *)
(* Time.  The grace of a symbol that is no longer a candidate, the delay   *)
(* of every timer and the deadline of an acknowledgement are open.         *)
(*                                                                         *)
(* Left out: ticks and their buffer, the health counters, the priority     *)
(* among symbols that compete for the last places, and the rotation timer  *)
(* of a socket that is replaced while it is closing (its onclose clears it *)
(* long before the day is over).  ws.send throws only on a connecting      *)
(* socket, which is tested before.                                         *)
(***************************************************************************)
EXTENDS Naturals, Sequences, FiniteSets, SequencesExt

CONSTANTS
    Candidate,     \* the symbols that may be candidates
    Kind,          \* book and trade
    MaxSymbols,    \* config.maxSymbols
    BatchSize,     \* SUBSCRIPTION_BATCH_SIZE
    MaxMemberships,  \* bounds: memberships set and entries made,
    MaxFailures      \* sockets lost or rotated, messages refused or not
                     \* acknowledged in time

ASSUME TickStreamAssumption ==
    /\ {MaxSymbols, BatchSize, MaxMemberships, MaxFailures} \subseteq Nat
    /\ BatchSize > 0
    /\ IsFiniteSet(Candidate)

VARIABLES
    phase,         \* "made", "started" or "destroyed"
    members,       \* the keys of members
    desired,       \* desired
    handover,      \* the symbols of _handoverPending that are not completed
    applyDue,      \* membershipTimer is pending
    conn,          \* the connection of each kind
    changes, failures

streamVars == <<phase, members, desired, handover, applyDue, conn, changes, failures>>

Message(method, streams) == [method |-> method, streams |-> streams]

\* A connection state.  subs is what the exchange streams on its socket.
\* History: astray tells that the last apply crossed a message that contradicts
\* it or that a message was refused since, late that an acknowledgement came
\* too late on this socket.
NewState == [ws |-> "none", rotation |-> FALSE, active |-> {}, wanted |-> {},
             queue |-> <<>>, ctrl |-> FALSE, sent |-> <<>>, subs |-> {},
             astray |-> FALSE, late |-> FALSE, leaving |-> 0, timers |-> 0]

\* What a message makes of a set of streams.
Applied(streams, m) ==
    IF m.method = "SUBSCRIBE" THEN streams \cup m.streams ELSE streams \ m.streams

Subscribes(m, s)   == m.method = "SUBSCRIBE" /\ s \in m.streams
Unsubscribes(m, s) == m.method # "SUBSCRIBE" /\ s \in m.streams

\* What several make of it in turn: the last one that names a stream decides.
After(streams, messages) ==
    LET Ends(s) == {i \in DOMAIN messages : Unsubscribes(messages[i], s)}
    IN  {s \in streams : Ends(s) = {}} \cup
        {s \in Candidate : \E i \in DOMAIN messages :
            Subscribes(messages[i], s) /\ \A j \in Ends(s) : j < i}

\* What was sent, with nothing in the messages of another fate.
Fates(c, fates) ==
    [i \in DOMAIN c.sent |-> LET m == c.sent[i]
                             IN  Message(m.method, IF m.fate \in fates THEN m.streams ELSE {})]

-----------------------------------------------------------------------------
(***************************************************************************)
(* The private methods, as functions of a connection c.                    *)
(***************************************************************************)

\* Mutant of ScheduleReconnect: a state that is not in the map (its
\* constructor threw) does not reconnect.
ScheduleIfKnown(c) == IF c.ws = "none" THEN c ELSE [c EXCEPT !.timers = @ + 1]

ScheduleReconnect(c) == [c EXCEPT !.timers = @ + 1]

\* The new state replaces the old one in the map; a socket of the old one that
\* is still closing keeps its onclose.
OpenPersistentConnection(c, throws) ==
    CASE c.ws \in {"connecting", "open"} -> c
      [] c.ws \notin {"connecting", "open"} /\ throws -> ScheduleReconnect(c)
      [] OTHER -> [NewState EXCEPT !.ws = "connecting", !.timers = c.timers,
                       !.leaving = IF c.ws = "closing" THEN c.leaving + 1 ELSE c.leaving]

\* Mutant of Chunk: what is beyond the first batch is forgotten.
FirstChunk(method, streams) ==
    LET s == SetToSeq(streams)
    IN  IF s = <<>> THEN <<>>
        ELSE <<Message(method, {s[i] : i \in {j \in DOMAIN s : j <= BatchSize}})>>

Chunk(method, streams) ==
    LET s == SetToSeq(streams)
        Batch(n) == {s[i] : i \in {j \in DOMAIN s : (j - 1) \div BatchSize = n - 1}}
    IN  [n \in 1 .. (Len(s) + BatchSize - 1) \div BatchSize |-> Message(method, Batch(n))]

\* m would take a wanted stream away or bring one that is not wanted.
Contradicts(m) == IF m.method = "SUBSCRIBE" THEN ~(m.streams \subseteq desired)
                                            ELSE m.streams \cap desired # {}

\* The difference is taken to what was acknowledged, not to what is under way.
Reconcile(c) ==
    LET batches == Chunk("SUBSCRIBE", desired \ c.active)
                       \o Chunk("UNSUBSCRIBE", c.active \ desired)
        underway == Fates(c, {"out", "ok"}) \o c.queue
    IN  IF c.ws # "open" THEN c
        ELSE [c EXCEPT !.wanted = desired, !.queue = @ \o batches,
                       !.ctrl = @ \/ batches # <<>>,
                       !.astray = \E i \in DOMAIN underway : Contradicts(underway[i])]

\* Mutant of Drained: the timer is not set again for the rest of the queue.
DrainedOnce(c) == [c EXCEPT !.ctrl = FALSE, !.queue = Tail(@)]

Drained(c) == [c EXCEPT !.queue = Tail(@), !.ctrl = Len(c.queue) > 1]

\* Mutant of Acknowledged: an error is taken for an acknowledgement.
AcknowledgedAny(c, m) == IF m.awaited THEN Applied(c.active, m) ELSE c.active

\* _handleCtrlAck: a reply whose id is no longer pending is ignored.
Acknowledged(c, m) ==
    IF m.awaited /\ m.fate = "ok" THEN Applied(c.active, m) ELSE c.active

-----------------------------------------------------------------------------
(* The app.                                                                *)

ScheduleApply == applyDue' = (applyDue \/ phase = "started")

\* At most MaxFailures times something goes wrong.
Fail(n) == failures + n <= MaxFailures /\ failures' = failures + n

Start ==
    /\ phase = "made" /\ phase' = "started"
    /\ \E refused \in SUBSET Kind :
         /\ Fail(Cardinality(refused))
         /\ conn' = [k \in Kind |-> OpenPersistentConnection(conn[k], k \in refused)]
    /\ applyDue' = (desired # {})
    /\ UNCHANGED <<members, desired, handover, changes>>

\* The incoming symbols rank before those that are kept for their grace, of
\* which as many stay desired as there are places left.
SetMembership(incoming) ==
    /\ phase # "destroyed" /\ changes < MaxMemberships
    /\ Cardinality(incoming) <= MaxSymbols
    /\ \E kept \in SUBSET (members \ incoming) :
         \E chosen \in SUBSET kept :
            /\ \/ chosen = kept /\ Cardinality(incoming \cup kept) <= MaxSymbols
               \/ chosen # kept /\ Cardinality(incoming \cup chosen) = MaxSymbols
            /\ members' = incoming \cup kept
            /\ desired' = incoming \cup chosen
    /\ ScheduleApply
    /\ changes' = changes + 1
    /\ UNCHANGED <<phase, handover, conn, failures>>

\* An entry was made.  A second one of the symbol replaces the record, which
\* the timer of the first then completes.
NotifyLifecycleHandover(s) ==
    /\ phase # "destroyed" /\ changes < MaxMemberships
    /\ handover' = handover \cup {s}
    /\ changes' = changes + 1
    /\ UNCHANGED <<phase, members, desired, applyDue, conn, failures>>

\* Mutant of HandoverEnds: the removal is not applied.
HandoverEndsUnapplied(s) ==
    /\ s \in handover /\ handover' = handover \ {s}
    /\ members' = members \ {s} /\ desired' = desired \ {s}
    /\ UNCHANGED <<phase, applyDue, conn, changes, failures>>

\* No other reason is ever recorded, so the symbol leaves in any case.
HandoverEnds(s) ==
    /\ s \in handover /\ handover' = handover \ {s}
    /\ members' = members \ {s} /\ desired' = desired \ {s}
    /\ ScheduleApply
    /\ UNCHANGED <<phase, conn, changes, failures>>

Apply ==
    /\ applyDue /\ applyDue' = FALSE
    /\ conn' = [k \in Kind |-> Reconcile(conn[k])]
    /\ UNCHANGED <<phase, members, desired, handover, changes, failures>>

Destroy ==
    /\ phase = "started" /\ phase' = "destroyed"
    /\ applyDue' = FALSE
    /\ conn' = [k \in Kind |-> NewState]
    /\ UNCHANGED <<members, desired, handover, changes, failures>>

-----------------------------------------------------------------------------
(* Control messages.                                                       *)

Becomes(k, c) ==
    /\ conn' = [conn EXCEPT ![k] = c]
    /\ UNCHANGED <<phase, members, desired, handover, applyDue, changes>>

\* A message that is due while the socket is not open is dropped: the next
\* socket starts from nothing.  The timer is never pending on an empty queue, so
\* the return for that case is never taken.
CtrlTimerFires(k) ==
    LET c == conn[k]
        m == Head(c.queue)
    IN  /\ c.ctrl /\ c.queue # <<>> /\ UNCHANGED failures
        /\ \/ /\ c.ws # "open"
              /\ Becomes(k, Drained(c))
           \/ /\ c.ws = "open"
              /\ Becomes(k, [Drained(c) EXCEPT !.sent = Append(@,
                     [method |-> m.method, streams |-> m.streams,
                      fate |-> "out", awaited |-> TRUE])])

\* The first message the exchange has not processed yet.
Processes(k, i) ==
    /\ i \in DOMAIN conn[k].sent
    /\ \A j \in 1 .. i : conn[k].sent[j].fate = "out" <=> j = i

Serve(k, i) ==
    /\ Processes(k, i) /\ UNCHANGED failures
    /\ Becomes(k, [conn[k] EXCEPT !.sent[i].fate = "ok",
                                  !.subs = Applied(@, conn[k].sent[i])])

Refuse(k, i) ==
    /\ Processes(k, i) /\ Fail(1)
    /\ Becomes(k, [conn[k] EXCEPT !.sent[i].fate = "error", !.astray = TRUE])

ReplyArrives(k) ==
    LET c == conn[k]
        m == Head(c.sent)
    IN  /\ c.sent # <<>> /\ m.fate # "out" /\ UNCHANGED failures
        /\ Becomes(k, [c EXCEPT !.sent = Tail(@), !.active = Acknowledged(c, m)])

\* The deadlines pass in the order of the messages.
AckTimesOut(k, i) ==
    LET sent == conn[k].sent
    IN  /\ i \in DOMAIN sent
        /\ \A j \in 1 .. i : sent[j].awaited <=> j = i
        /\ Fail(1)
        /\ Becomes(k, [conn[k] EXCEPT !.sent[i].awaited = FALSE, !.late = TRUE])

-----------------------------------------------------------------------------
(* Sockets and their timers.                                               *)

\* The exchange forgets a socket's streams, and what was on its way is lost.
Parted(c, ws) == [c EXCEPT !.ws = ws, !.sent = <<>>, !.subs = {}]

Opens(k) ==
    /\ conn[k].ws = "connecting" /\ UNCHANGED failures
    /\ Becomes(k, Reconcile([conn[k] EXCEPT !.ws = "open", !.rotation = TRUE,
                                            !.active = {}]))

OnClose(c) == ScheduleReconnect([c EXCEPT !.ws = "closed", !.rotation = FALSE])

ConnectFails(k) ==
    /\ conn[k].ws = "connecting" /\ Fail(1)
    /\ Becomes(k, OnClose(conn[k]))

BeginsToClose(k) ==
    /\ conn[k].ws = "open" /\ Fail(1)
    /\ Becomes(k, Parted(conn[k], "closing"))

Closes(k) ==
    /\ conn[k].ws = "closing" /\ UNCHANGED failures
    /\ Becomes(k, OnClose(conn[k]))

\* Mutant of Rotated: the handlers are detached as when the stream is destroyed.
RotatedForGood(c) == [Parted(c, "none") EXCEPT !.rotation = FALSE]

\* _closeConnectionForRotation: the socket reconnects when it has closed, and
\* one that is closing already at once as well.
Rotated(c) ==
    LET r == [Parted(c, "none") EXCEPT !.rotation = FALSE, !.leaving = @ + 1]
    IN  IF c.ws = "open" THEN r ELSE ScheduleReconnect(r)

RotationFires(k) ==
    /\ conn[k].rotation /\ Fail(1)
    /\ Becomes(k, Rotated(conn[k]))

LeavingCloses(k) ==
    /\ conn[k].leaving > 0 /\ UNCHANGED failures
    /\ Becomes(k, ScheduleReconnect([conn[k] EXCEPT !.leaving = @ - 1]))

ReconnectFires(k) ==
    /\ conn[k].timers > 0
    /\ \E throws \in BOOLEAN :
         /\ Fail(IF throws THEN 1 ELSE 0)
         /\ Becomes(k, OpenPersistentConnection([conn[k] EXCEPT !.timers = @ - 1], throws))

-----------------------------------------------------------------------------
StreamInit ==
    /\ phase = "made"
    /\ members = {} /\ desired = {} /\ handover = {}
    /\ applyDue = FALSE
    /\ conn = [k \in Kind |-> NewState]
    /\ changes = 0 /\ failures = 0

StreamNext ==
    \/ Start \/ Apply \/ Destroy
    \/ \E incoming \in SUBSET Candidate : SetMembership(incoming)
    \/ \E s \in Candidate : NotifyLifecycleHandover(s) \/ HandoverEnds(s)
    \/ \E k \in Kind :
          \/ CtrlTimerFires(k) \/ ReplyArrives(k)
          \/ \E i \in DOMAIN conn[k].sent : Serve(k, i) \/ Refuse(k, i) \/ AckTimesOut(k, i)
          \/ Opens(k) \/ ConnectFails(k) \/ BeginsToClose(k) \/ Closes(k)
          \/ RotationFires(k) \/ LeavingCloses(k) \/ ReconnectFires(k)

\* Timers fire, a socket opens or fails, and the exchange processes what it
\* gets and answers.
StreamFairness ==
    /\ WF_streamVars(Apply)
    /\ \A k \in Kind :
          /\ WF_streamVars(CtrlTimerFires(k)) /\ WF_streamVars(ReplyArrives(k))
          /\ WF_streamVars(\E i \in DOMAIN conn[k].sent : Serve(k, i))

StreamSpec == StreamInit /\ [][StreamNext]_streamVars /\ StreamFairness

-----------------------------------------------------------------------------
(* Properties.                                                             *)

\* Rotations, server closes, refused constructors and reconnect timers follow
\* each other in any order: while the stream is started each kind has a socket
\* that is connecting, open or will reconnect when it has closed, or a timer
\* that reconnects.
ConnectionKept ==
    phase = "started" => \A k \in Kind :
        \/ conn[k].ws \in {"connecting", "open", "closing"}
        \/ conn[k].leaving > 0 \/ conn[k].timers > 0

\* What the stream believes to be subscribed is what the exchange streams but
\* for the replies still on their way, through overlapping applies, refusals
\* and reconnects, as long as every reply came in time.
ActiveIsTrue ==
    \A k \in Kind : conn[k].ws = "open" /\ ~conn[k].late =>
        After(conn[k].active, Fates(conn[k], {"ok"})) = conn[k].subs

\* An apply that contradicts nothing under way, and of which nothing is refused
\* or answered too late, loses nothing: what was acknowledged, with everything
\* sent or queued, is what it wanted, however many applies were queued before.
AppliedIsUnderway ==
    \A k \in Kind : conn[k].ws = "open" /\ ~conn[k].astray /\ ~conn[k].late =>
        After(conn[k].active, Fates(conn[k], {"out", "ok"}) \o conn[k].queue) = conn[k].wanted

\* On a socket that stays open the exchange comes to stream what is desired at
\* that moment, if nothing went astray.
Calm(k) == phase = "started" /\ conn[k].ws = "open" /\ ~conn[k].astray /\ ~conn[k].late

DesiredIsStreamed == \A k \in Kind : Calm(k) ~> (conn[k].subs = desired \/ ~Calm(k))

\* What an incremental subscription is for, and what the code does not keep:
\* without the condition that nothing went astray not even every desired symbol
\* comes to be streamed.
DesiredIsAlwaysStreamed ==
    \A k \in Kind : conn[k].ws = "open" ~> (desired \subseteq conn[k].subs \/ conn[k].ws # "open")
=============================================================================
