---------------------------- MODULE PriceStream ----------------------------
(***************************************************************************)
(* BinancePriceStream: the sockets that feed the open positions.  There is *)
(* one socket state per kind: the routed kinds (bookTicker, aggTrade) name *)
(* their symbols in the URL, the mark-price stream carries all of them.    *)
(*                                                                         *)
(* Sockets.  A socket that was replaced may still be there, with or        *)
(* without its handlers, so each kind has a pool: what a socket's          *)
(* readyState is, whether its handlers are still attached (live), and the  *)
(* symbols its URL was built from.  Of the socket state, ws, the reconnect *)
(* timer and connectedSymbolsKey are kept; pendingReconnect and the count  *)
(* of attempts only choose a delay and a badge.                            *)
(*                                                                         *)
(* Callers.  The app holds at most one callback per symbol.  A symbol is   *)
(* absent from _subs, subscribed, or retained: its set of callbacks is     *)
(* empty but it stays in the membership while other positions are open.    *)
(*                                                                         *)
(* Left out: what a tick carries and the caches of the latest ticks, of    *)
(* which PositionLifecycle models the use.                                 *)
(***************************************************************************)
EXTENDS Naturals, FiniteSets

CONSTANTS
    Symbol,
    Kind,         \* book, trade and mark
    Routed,       \* the kinds whose URL names the symbols: book and trade
    PoolSize,     \* bounds: the sockets of a kind at a time,
    MaxFailures,  \* sockets that fail or that the server closes, and
    MaxJoins      \* symbols that join the membership, and reconnects

ASSUME StreamAssumption ==
    /\ Routed \subseteq Kind
    /\ IsFiniteSet(Kind)
    /\ {PoolSize, MaxFailures, MaxJoins} \subseteq Nat
    /\ PoolSize > 0

VARIABLES
    subs,       \* _subs: "absent", "retained" or "subscribed", by symbol
    conn,       \* _book, _trade and _mark with the sockets of the kind
    rebuild,    \* whether the membership timer is pending
    destroyed,  \* _destroyed
    failures, joins

vars == <<subs, conn, rebuild, destroyed, failures, joins>>

Pool   == 1 .. PoolSize
NoWs   == 0
Unused == [at |-> "none", live |-> FALSE, url |-> {}]

Members(sb) == {s \in Symbol : sb[s] # "absent"}       \* _desiredSymbols
Active(sb)  == \E s \in Symbol : sb[s] = "subscribed"  \* _activeCallbackCount() > 0

Current(c)    == c.sock[c.ws]
Connecting(c) == c.ws # NoWs /\ Current(c).at \in {"connecting", "open"}
HasAnyConnectedOrConnectingSocket == \E k \in Kind : Connecting(conn[k])
-----------------------------------------------------------------------------
(***************************************************************************)
(* The private methods, as functions of a socket state c and of _subs.     *)
(***************************************************************************)
ScheduleReconnect(c, sb) ==
    IF destroyed \/ ~Active(sb) THEN c ELSE [c EXCEPT !.timer = TRUE]

HasRoom(c) == \E i \in Pool : c.sock[i].at = "none"
Room(c)    == CHOOSE i \in Pool : c.sock[i].at = "none"

\* refused: the constructor of the socket throws.
Connect(c, sb, refused) ==
    IF destroyed \/ Members(sb) = {} THEN c
    ELSE IF refused THEN ScheduleReconnect(c, sb)
    ELSE [ws |-> Room(c), timer |-> c.timer, key |-> c.key,
          sock |-> [c.sock EXCEPT ![Room(c)] =
                       [at |-> "connecting", live |-> TRUE, url |-> Members(sb)]]]

\* The handlers go; a socket that is connecting is closed when it opens.
LetGo(s) == [at |-> IF s.at = "open" THEN "closing" ELSE s.at, live |-> FALSE, url |-> s.url]

LetGoCurrent(c) == [i \in Pool |-> IF i = c.ws THEN LetGo(c.sock[i]) ELSE c.sock[i]]

\* Mutant of DisconnectSocket: the reconnect timer goes on.
DisconnectKeepsTimer(c) ==
    [ws |-> NoWs, timer |-> c.timer, key |-> {}, sock |-> LetGoCurrent(c)]

DisconnectSocket(c) ==
    [ws |-> NoWs, timer |-> FALSE, key |-> {}, sock |-> LetGoCurrent(c)]

\* Each kind without a socket that is connecting or open gets one.  cn is
\* conn, or conn after a disconnect in the same task.
EnsureConnected(cn, sb, refused) ==
    [k \in Kind |-> IF Connecting(cn[k]) THEN cn[k] ELSE Connect(cn[k], sb, k \in refused)]

\* There is room for the sockets that this makes, and budget for refusals.
CanConnect(kinds, refused) ==
    /\ \A k \in kinds : HasRoom(conn[k])
    /\ refused \subseteq kinds
    /\ failures + Cardinality(refused) <= MaxFailures
    /\ failures' = failures + Cardinality(refused)

Down == {k \in Kind : ~Connecting(conn[k])}
-----------------------------------------------------------------------------
(***************************************************************************)
(* The public methods.                                                     *)
(***************************************************************************)
\* Mutant of NeedsRebuild: only a symbol that was retained rebuilds.
NeedsRebuildIfKnown(s) == subs[s] = "retained"

NeedsRebuild(s) == subs[s] = "absent"

Subscribe(s) ==
    LET sb == [subs EXCEPT ![s] = "subscribed"] IN
    /\ ~destroyed /\ subs[s] # "subscribed"
    /\ subs[s] = "absent" => joins < MaxJoins
    /\ joins' = IF subs[s] = "absent" THEN joins + 1 ELSE joins
    /\ subs' = sb
    /\ \/ /\ HasAnyConnectedOrConnectingSocket
          /\ rebuild' = (rebuild \/ NeedsRebuild(s))
          /\ UNCHANGED <<conn, failures>>
       \/ /\ ~HasAnyConnectedOrConnectingSocket
          /\ \E refused \in SUBSET Kind :
                /\ CanConnect(Down, refused)
                /\ conn' = EnsureConnected(conn, sb, refused)
          /\ UNCHANGED rebuild
    /\ UNCHANGED destroyed

DisconnectAll == [k \in Kind |-> DisconnectSocket(conn[k])]

\* The last callback clears the membership and the sockets.
Unsubscribe(s) ==
    LET sb == [subs EXCEPT ![s] = "retained"] IN
    /\ ~destroyed /\ subs[s] = "subscribed"
    /\ subs' = IF Active(sb) THEN sb ELSE [r \in Symbol |-> "absent"]
    /\ conn' = IF Active(sb) THEN conn ELSE DisconnectAll
    /\ UNCHANGED <<rebuild, destroyed, failures, joins>>

Reconnect ==
    /\ ~destroyed /\ Active(subs)
    /\ joins < MaxJoins
    /\ joins' = joins + 1
    /\ \E refused \in SUBSET Kind :
          /\ CanConnect(Kind, refused)
          /\ conn' = EnsureConnected(DisconnectAll, subs, refused)
    /\ UNCHANGED <<subs, rebuild, destroyed>>

Destroy ==
    /\ ~destroyed
    /\ destroyed' = TRUE
    /\ conn' = DisconnectAll
    /\ rebuild' = FALSE
    /\ UNCHANGED <<subs, failures, joins>>
-----------------------------------------------------------------------------
(***************************************************************************)
(* The timers.                                                             *)
(***************************************************************************)
Outdated == \E k \in Routed : conn[k].key # Members(subs)

\* The membership timer: the routed sockets are made anew.
RebuildFires ==
    /\ rebuild
    /\ rebuild' = FALSE
    /\ \/ /\ Members(subs) # {} /\ Outdated
          /\ LET cn == [k \in Kind |-> IF k \in Routed THEN DisconnectSocket(conn[k])
                                                       ELSE conn[k]]
             IN  \E refused \in SUBSET Kind :
                    /\ CanConnect(Routed \cup Down, refused)
                    /\ conn' = EnsureConnected(cn, subs, refused)
       \/ /\ Members(subs) = {} \/ ~Outdated
          /\ UNCHANGED <<conn, failures>>
    /\ UNCHANGED <<subs, destroyed, joins>>

\* It does not look whether a socket was made meanwhile.
ReconnectFires(k) ==
    /\ conn[k].timer
    /\ \E refused \in SUBSET {k} :
          /\ CanConnect({k}, refused)
          /\ conn' = [conn EXCEPT ![k] =
                        Connect([conn[k] EXCEPT !.timer = FALSE], subs, refused # {})]
    /\ UNCHANGED <<subs, rebuild, destroyed, joins>>
-----------------------------------------------------------------------------
(***************************************************************************)
(* The sockets.                                                            *)
(***************************************************************************)
Socket(k, i) == conn[k].sock[i]

\* The sockets of c with the readyState of the one at i changed.
Turned(c, i, at) ==
    [c.sock EXCEPT ![i] = [at |-> at, live |-> c.sock[i].live, url |-> c.sock[i].url]]

\* The key is the membership of now, not that of the URL.
Opened(c, i) ==
    [ws |-> c.ws, timer |-> c.timer, key |-> Members(subs), sock |-> Turned(c, i, "open")]

\* Mutant of OnOpen: a socket that was let go while it connected stays open.
OnOpenNoClose(c, i) ==
    IF c.sock[i].live THEN Opened(c, i) ELSE [c EXCEPT !.sock = Turned(c, i, "open")]

OnOpen(c, i) ==
    IF c.sock[i].live THEN Opened(c, i) ELSE [c EXCEPT !.sock = Turned(c, i, "closing")]

Opens(k, i) ==
    /\ Socket(k, i).at = "connecting"
    /\ conn' = [conn EXCEPT ![k] = OnOpen(@, i)]
    /\ UNCHANGED <<subs, rebuild, destroyed, failures, joins>>

\* The socket at i is gone; cleared is what onclose makes of the socket state,
\* whichever socket is in ws now.
Gone(c, i) == [c.sock EXCEPT ![i] = Unused]
Cleared(c, i) == [ws |-> NoWs, timer |-> c.timer, key |-> {}, sock |-> Gone(c, i)]

\* Mutant of OnClose: no new connection is scheduled.
OnCloseForgets(c, i) ==
    IF c.sock[i].live THEN Cleared(c, i) ELSE [c EXCEPT !.sock = Gone(c, i)]

OnClose(c, i) ==
    IF c.sock[i].live THEN ScheduleReconnect(Cleared(c, i), subs)
    ELSE [c EXCEPT !.sock = Gone(c, i)]

\* The server begins to close, which readyState shows before onclose comes.
BeginsToClose(k, i) ==
    /\ Socket(k, i).at = "open"
    /\ failures < MaxFailures
    /\ failures' = failures + 1
    /\ conn' = [conn EXCEPT ![k] = [@ EXCEPT !.sock = Turned(conn[k], i, "closing")]]
    /\ UNCHANGED <<subs, rebuild, destroyed, joins>>

\* A socket fails while it connects or is open.
Fails(k, i) ==
    /\ Socket(k, i).at \in {"connecting", "open"}
    /\ failures < MaxFailures
    /\ failures' = failures + 1
    /\ conn' = [conn EXCEPT ![k] = OnClose(@, i)]
    /\ UNCHANGED <<subs, rebuild, destroyed, joins>>

Closes(k, i) ==
    /\ Socket(k, i).at = "closing"
    /\ conn' = [conn EXCEPT ![k] = OnClose(@, i)]
    /\ UNCHANGED <<subs, rebuild, destroyed, failures, joins>>

Init ==
    /\ subs = [s \in Symbol |-> "absent"]
    /\ conn = [k \in Kind |-> [ws |-> NoWs, timer |-> FALSE, key |-> {},
                               sock |-> [i \in Pool |-> Unused]]]
    /\ rebuild = FALSE
    /\ destroyed = FALSE
    /\ failures = 0
    /\ joins = 0

Next ==
    \/ \E s \in Symbol : Subscribe(s) \/ Unsubscribe(s)
    \/ Reconnect
    \/ Destroy
    \/ RebuildFires
    \/ \E k \in Kind : ReconnectFires(k)
    \/ \E k \in Kind, i \in Pool :
          Opens(k, i) \/ BeginsToClose(k, i) \/ Fails(k, i) \/ Closes(k, i)

\* Timers fire, and a socket that connects opens (or fails), one that closes
\* closes.  Failures are bounded: the network is up in the end.
Fairness ==
    /\ WF_vars(RebuildFires)
    /\ \A k \in Kind : WF_vars(ReconnectFires(k))
    /\ \A k \in Kind, i \in Pool : WF_vars(Opens(k, i)) /\ WF_vars(Closes(k, i))

Spec == Init /\ [][Next]_vars /\ Fairness
-----------------------------------------------------------------------------
SocketStates == [ws : Pool \cup {NoWs}, timer : BOOLEAN, key : SUBSET Symbol,
                 sock : [Pool -> [at : {"none", "connecting", "open", "closing"},
                                  live : BOOLEAN, url : SUBSET Symbol]]]

\* Every variable has its type.
TypeOK ==
    /\ subs \in [Symbol -> {"absent", "retained", "subscribed"}]
    /\ conn \in [Kind -> SocketStates]
    /\ rebuild \in BOOLEAN
    /\ destroyed \in BOOLEAN
    /\ failures \in Nat
    /\ joins \in Nat

\* While a position listens, no kind is given up: it has a socket that its
\* handlers still watch, or a reconnect timer, although a socket that was
\* replaced may clear ws when it closes at last.
NoKindGivenUp ==
    (Active(subs) /\ ~destroyed) =>
        \A k \in Kind : \/ conn[k].timer
                        \/ conn[k].ws # NoWs /\ Current(conn[k]).live
                                             /\ Current(conn[k]).at # "none"

\* Without a listener, or after destroy, nothing is left that would connect:
\* no kind has a socket or a timer (a membership timer that is still pending
\* finds an empty membership).
IdleStaysDown ==
    (destroyed \/ ~Active(subs)) =>
        \A k \in Kind : conn[k].ws = NoWs /\ ~conn[k].timer

\* _scheduleMembershipRebuild: an open routed socket whose connectedSymbolsKey is
\* not the membership has a rebuild pending.  The key is the one that onopen
\* recorded; the URL may name fewer symbols (PrimaryPathCarriesPositions).
KeyCatchesUp ==
    (Active(subs) /\ ~destroyed) =>
        \A k \in Routed :
            (conn[k].ws # NoWs /\ Current(conn[k]).at = "open"
             /\ conn[k].key # Members(subs)) => rebuild

\* Once the network is up, each kind has an open socket as long as a position
\* listens.
StreamHeals ==
    \A k \in Kind :
        Active(subs) ~> \/ destroyed \/ ~Active(subs)
                        \/ conn[k].ws # NoWs /\ Current(conn[k]).at = "open"

\* A socket that was let go is closed in the end, also when it was connecting
\* at the time (binancePriceStream.test.js:152).
LetGoCloses ==
    \A k \in Kind, i \in Pool : []<>(Socket(k, i).live \/ Socket(k, i).at = "none")

\* When the routed socket is open and no rebuild is pending, it carries every
\* position that listens: "Dedicated routed WebSocket manager for open LONG
\* positions. Primary paths: /public -> bookTicker" (binancePriceStream.js:2-6).
PrimaryPathCarriesPositions ==
    \A k \in Routed :
        (~destroyed /\ ~rebuild /\ conn[k].ws # NoWs /\ Current(conn[k]).at = "open") =>
            \A s \in Symbol : subs[s] = "subscribed" => s \in Current(conn[k]).url
=============================================================================
