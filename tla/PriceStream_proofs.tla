------------------------- MODULE PriceStream_proofs -------------------------
(***************************************************************************)
(* While a position listens no kind of stream is given up, without a       *)
(* listener nothing would connect, and an outdated membership is on its    *)
(* way to the routed sockets: for any finite set of kinds, any symbols and *)
(* any number of sockets.                                                  *)
(*                                                                         *)
(* What a socket state must satisfy depends on whether somebody listens    *)
(* (Held) or not (Down); each private method gets one lemma that says what *)
(* it makes of these, and each action cites them kind by kind.             *)
(***************************************************************************)
EXTENDS PriceStream, FiniteSetTheorems, TLAPS

Listening == Active(subs) /\ ~destroyed

\* The socket in ws is there, and its handlers are attached.
Watched(c) == c.ws # NoWs => Current(c).live /\ Current(c).at # "none"
Good(c) == c \in SocketStates /\ Watched(c)

Held(c) == c.timer \/ c.ws # NoWs
Idle(c) == c.ws = NoWs /\ ~c.timer
OpenAs(c, names) == (c.ws # NoWs /\ Current(c).at = "open") => c.key = names

Kept ==
    /\ Listening => \A k \in Kind : Held(conn[k])
    /\ ~Listening => \A k \in Kind : Idle(conn[k])

Catching == (Listening /\ ~rebuild) => \A k \in Routed : OpenAs(conn[k], Members(subs))

Cleanly ==
    /\ ~Active(subs) => Members(subs) = {}
    /\ destroyed => ~rebuild

IInv == TypeOK /\ (\A k \in Kind : Watched(conn[k])) /\ Kept /\ Catching /\ Cleanly
-----------------------------------------------------------------------------
Socks == [at : {"none", "connecting", "open", "closing"}, live : BOOLEAN, url : SUBSET Symbol]

LEMMA SocketFields ==
  ASSUME NEW c \in SocketStates
  PROVE  /\ c.ws \in Pool \cup {NoWs} /\ c.timer \in BOOLEAN /\ c.key \in SUBSET Symbol
         /\ c.sock \in [Pool -> Socks]
         /\ \A i \in Pool : /\ c.sock[i].at \in {"none", "connecting", "open", "closing"}
                            /\ c.sock[i].live \in BOOLEAN
                            /\ c.sock[i].url \in SUBSET Symbol
         /\ c.ws # NoWs => c.ws \in Pool
         /\ NoWs \notin Pool
  <1>1. /\ c.ws \in Pool \cup {NoWs} /\ c.timer \in BOOLEAN /\ c.key \in SUBSET Symbol
        /\ c.sock \in [Pool -> Socks]
    BY DEF SocketStates, Socks
  <1>2. ASSUME NEW i \in Pool
        PROVE  /\ c.sock[i].at \in {"none", "connecting", "open", "closing"}
               /\ c.sock[i].live \in BOOLEAN
               /\ c.sock[i].url \in SUBSET Symbol
    <2>1. c.sock[i] \in Socks
      BY <1>1
    <2>. QED
      BY <2>1 DEF Socks
  <1>3. NoWs \notin Pool
    BY StreamAssumption DEF NoWs, Pool
  <1>. QED
    BY <1>1, <1>2, <1>3

LEMMA WithSockets ==
  ASSUME NEW ws \in Pool \cup {NoWs}, NEW timer \in BOOLEAN, NEW key \in SUBSET Symbol,
         NEW sock \in [Pool -> Socks]
  PROVE  [ws |-> ws, timer |-> timer, key |-> key, sock |-> sock] \in SocketStates
  BY DEF SocketStates, Socks

LEMMA MembersAreSymbols == \A sb : Members(sb) \in SUBSET Symbol
  BY DEF Members

LEMMA UnusedSocket == Unused \in Socks
  BY DEF Unused, Socks

LEMMA ScheduleReconnectKeeps ==
  ASSUME TypeOK, NEW c, Good(c), NEW sb
  PROVE  /\ Good(ScheduleReconnect(c, sb))
         /\ ScheduleReconnect(c, sb).ws = c.ws
         /\ ScheduleReconnect(c, sb).key = c.key
         /\ ScheduleReconnect(c, sb).sock = c.sock
         /\ ~destroyed /\ Active(sb) => Held(ScheduleReconnect(c, sb))
         /\ destroyed \/ ~Active(sb) => ScheduleReconnect(c, sb) = c
  <1>. DEFINE d == [c EXCEPT !.timer = TRUE]
  <1>1. /\ d \in SocketStates
        /\ d.ws = c.ws /\ d.key = c.key /\ d.sock = c.sock /\ d.timer = TRUE
    BY DEF Good, SocketStates
  <1>2. ScheduleReconnect(c, sb) = IF destroyed \/ ~Active(sb) THEN c ELSE d
    BY DEF ScheduleReconnect
  <1>. HIDE DEF d
  <1>3. Good(d) /\ Held(d)
    BY <1>1 DEF Good, Watched, Current, Held
  <1>. QED
    BY <1>1, <1>2, <1>3

\* One that gets a socket, or a timer, is held; ws is new or unchanged.
LEMMA ConnectKeeps ==
  ASSUME TypeOK, NEW c, Good(c), NEW sb, NEW refused \in BOOLEAN, HasRoom(c)
  PROVE  /\ Good(Connect(c, sb, refused))
         /\ (~destroyed /\ Active(sb) /\ Members(sb) # {}) => Held(Connect(c, sb, refused))
         /\ destroyed => Connect(c, sb, refused) = c
         /\ Members(sb) = {} => Connect(c, sb, refused) = c
         /\ \A names : OpenAs(c, names) => OpenAs(Connect(c, sb, refused), names)
  <1>. DEFINE n == Room(c)
              new == [at |-> "connecting", live |-> TRUE, url |-> Members(sb)]
              d == [ws |-> n, timer |-> c.timer, key |-> c.key, sock |-> [c.sock EXCEPT ![n] = new]]
  <1>1. n \in Pool
    BY DEF HasRoom, Room
  <1>. HIDE DEF n
  <1>2. new \in Socks
    BY MembersAreSymbols DEF Socks
  <1>. HIDE DEF new
  <1>3. d \in SocketStates
    <2>1. [c.sock EXCEPT ![n] = new] \in [Pool -> Socks]
      BY <1>1, <1>2, SocketFields DEF Good
    <2>. QED
      BY <1>1, <2>1, SocketFields, WithSockets DEF Good
  <1>4. d.ws = n /\ Current(d) = new
    BY <1>1, SocketFields DEF Good, Current
  <1>a. new.at = "connecting" /\ new.live = TRUE
    BY DEF new
  <1>b. d.ws # NoWs
    BY <1>1, <1>4, SocketFields DEF Good
  <1>5. Good(d) /\ Held(d) /\ \A names : OpenAs(d, names)
    <2>1. Watched(d)
      BY <1>a, <1>4 DEF Watched
    <2>2. \A names : OpenAs(d, names)
      BY <1>a, <1>4 DEF OpenAs
    <2>. QED
      BY <1>b, <1>3, <2>1, <2>2 DEF Good, Held
  <1>6. Connect(c, sb, refused) = IF destroyed \/ Members(sb) = {} THEN c
                                  ELSE IF refused THEN ScheduleReconnect(c, sb)
                                  ELSE d
    BY DEF Connect, n, new
  <1>. HIDE DEF d
  <1>7. \A names : OpenAs(c, names) => OpenAs(ScheduleReconnect(c, sb), names)
    BY ScheduleReconnectKeeps DEF OpenAs, Current
  <1>. QED
    BY <1>5, <1>6, <1>7, ScheduleReconnectKeeps

LEMMA DisconnectKeeps ==
  ASSUME NEW c \in SocketStates
  PROVE  /\ Good(DisconnectSocket(c))
         /\ Idle(DisconnectSocket(c))
         /\ HasRoom(c) => HasRoom(DisconnectSocket(c))
         /\ ~Connecting(DisconnectSocket(c))
         /\ \A names : OpenAs(DisconnectSocket(c), names)
  <1>. DEFINE d == DisconnectSocket(c)
  <1>1. LetGoCurrent(c) \in [Pool -> Socks]
    <2>1. ASSUME NEW s \in Socks PROVE LetGo(s) \in Socks
      BY DEF LetGo, Socks
    <2>. QED
      BY <2>1, SocketFields DEF LetGoCurrent
  <1>2. d \in SocketStates
    BY <1>1, WithSockets DEF DisconnectSocket
  <1>3. d.ws = NoWs /\ d.timer = FALSE /\ d.sock = LetGoCurrent(c)
    BY DEF DisconnectSocket
  <1>4. HasRoom(c) => HasRoom(d)
    <2>1. ASSUME NEW i \in Pool, c.sock[i].at = "none"
          PROVE  LetGoCurrent(c)[i].at = "none"
      BY <2>1 DEF LetGoCurrent, LetGo
    <2>. QED
      BY <1>3, <2>1 DEF HasRoom
  <1>. HIDE DEF d
  <1>5. Good(d) /\ Idle(d) /\ ~Connecting(d) /\ \A names : OpenAs(d, names)
    BY <1>2, <1>3 DEF Good, Watched, Idle, Connecting, OpenAs
  <1>. QED
    BY <1>4, <1>5 DEF d

LEMMA TurnedSockets ==
  ASSUME NEW c \in SocketStates, NEW i \in Pool, NEW at \in {"none", "connecting", "open", "closing"}
  PROVE  /\ Turned(c, i, at) \in [Pool -> Socks]
         /\ Turned(c, i, at)[i].at = at
         /\ Turned(c, i, at)[i].live = c.sock[i].live
         /\ \A j \in Pool : j # i => Turned(c, i, at)[j] = c.sock[j]
  <1>. DEFINE t == [at |-> at, live |-> c.sock[i].live, url |-> c.sock[i].url]
  <1>1. t \in Socks /\ t.at = at /\ t.live = c.sock[i].live
    BY SocketFields DEF Socks
  <1>. HIDE DEF t
  <1>2. Turned(c, i, at) = [c.sock EXCEPT ![i] = t]
    BY DEF Turned, t
  <1>. QED
    BY <1>1, <1>2, SocketFields

\* A change of one socket's readyState, its handlers and ws as they are.
LEMMA TurnKeeps ==
  ASSUME NEW c, Good(c), NEW i \in Pool, NEW at \in {"open", "closing"},
         NEW key \in SUBSET Symbol, NEW d,
         d = [ws |-> c.ws, timer |-> c.timer, key |-> key, sock |-> Turned(c, i, at)]
  PROVE  /\ Good(d)
         /\ Held(c) => Held(d)
         /\ Idle(c) => Idle(d)
         /\ \A names : (at = "closing" /\ key = c.key /\ OpenAs(c, names)) => OpenAs(d, names)
         /\ OpenAs(d, key)
  <1>1. d \in SocketStates
    BY TurnedSockets, SocketFields, WithSockets DEF Good
  <1>2. d.ws = c.ws /\ d.timer = c.timer /\ d.key = key /\ d.sock = Turned(c, i, at)
    OBVIOUS
  <1>3. c.ws # NoWs => c.ws \in Pool
    BY SocketFields DEF Good
  <1>4. CASE c.ws = i
    BY <1>1, <1>2, <1>3, <1>4, TurnedSockets DEF Good, Watched, Held, Idle, OpenAs, Current
  <1>5. CASE c.ws # i
    BY <1>1, <1>2, <1>3, <1>5, TurnedSockets DEF Good, Watched, Held, Idle, OpenAs, Current
  <1>. QED
    BY <1>4, <1>5

LEMMA OnOpenKeeps ==
  ASSUME TypeOK, NEW c, Good(c), NEW i \in Pool
  PROVE  /\ Good(OnOpen(c, i))
         /\ Held(c) => Held(OnOpen(c, i))
         /\ Idle(c) => Idle(OnOpen(c, i))
         /\ OpenAs(c, Members(subs)) => OpenAs(OnOpen(c, i), Members(subs))
  <1>1. CASE c.sock[i].live
    <2>1. OnOpen(c, i) = [ws |-> c.ws, timer |-> c.timer, key |-> Members(subs), sock |-> Turned(c, i, "open")]
      BY <1>1 DEF OnOpen, Opened
    <2>. QED
      BY <2>1, TurnKeeps, MembersAreSymbols
  <1>2. CASE ~c.sock[i].live
    <2>1. OnOpen(c, i) = [ws |-> c.ws, timer |-> c.timer, key |-> c.key, sock |-> Turned(c, i, "closing")]
      BY <1>2 DEF OnOpen, Good, SocketStates
    <2>. QED
      BY <2>1, TurnKeeps, SocketFields DEF Good
  <1>. QED
    BY <1>1, <1>2

\* A socket whose handlers are attached clears ws; while somebody listens a
\* timer is set.
LEMMA OnCloseKeeps ==
  ASSUME TypeOK, NEW c, Good(c), NEW i \in Pool
  PROVE  /\ Good(OnClose(c, i))
         /\ (Listening /\ Held(c)) => Held(OnClose(c, i))
         /\ (~Listening /\ Idle(c)) => Idle(OnClose(c, i))
         /\ \A names : OpenAs(c, names) => OpenAs(OnClose(c, i), names)
  <1>1. /\ Gone(c, i) \in [Pool -> Socks]
        /\ \A j \in Pool : j # i => Gone(c, i)[j] = c.sock[j]
    BY UnusedSocket, SocketFields DEF Good, Gone
  <1>2. CASE c.sock[i].live
    <2>. DEFINE d == Cleared(c, i)
    <2>1. /\ d = [ws |-> NoWs, timer |-> c.timer, key |-> {}, sock |-> Gone(c, i)]
          /\ d.ws = NoWs /\ d.timer = c.timer
      BY DEF Cleared
    <2>. HIDE DEF d
    <2>2. d \in SocketStates
      BY <1>1, <2>1, SocketFields, WithSockets DEF Good
    <2>3. Good(d) /\ (Idle(c) => Idle(d))
      BY <2>1, <2>2 DEF Good, Watched, Idle
    <2>4. OnClose(c, i) = ScheduleReconnect(d, subs)
      BY <1>2 DEF OnClose, d
    <2>5. ScheduleReconnect(d, subs).ws = NoWs
      BY <2>1, <2>3, ScheduleReconnectKeeps
    <2>. QED
      BY <2>3, <2>4, <2>5, ScheduleReconnectKeeps DEF Listening, OpenAs
  <1>3. CASE ~c.sock[i].live
    <2>. DEFINE d == [c EXCEPT !.sock = Gone(c, i)]
    <2>1. d \in SocketStates /\ d.ws = c.ws /\ d.timer = c.timer /\ d.key = c.key /\ d.sock = Gone(c, i)
      BY <1>1 DEF Good, SocketStates, Socks
    <2>2. OnClose(c, i) = d
      BY <1>3 DEF OnClose
    <2>. HIDE DEF d
    <2>3. c.ws # NoWs => c.ws \in Pool /\ c.ws # i
      BY <1>3, SocketFields DEF Good, Watched, Current
    <2>. QED
      BY <1>1, <2>1, <2>2, <2>3 DEF Good, Watched, Current, Held, Idle, OpenAs
  <1>. QED
    BY <1>2, <1>3
-----------------------------------------------------------------------------
(* The sockets of all kinds.                                               *)

LEMMA ActiveHasMembers == \A sb : Active(sb) => Members(sb) # {}
  BY DEF Active, Members

LEMMA EnsureKeeps ==
  ASSUME TypeOK, NEW cn, \A k \in Kind : Good(cn[k]), NEW sb, NEW refused,
         \A k \in Kind : ~Connecting(cn[k]) => HasRoom(cn[k]),
         NEW e, e = EnsureConnected(cn, sb, refused)
  PROVE  /\ e = [k \in Kind |-> e[k]]
         /\ \A k \in Kind : Good(e[k])
         /\ (~destroyed /\ Active(sb)) => \A k \in Kind : Held(e[k])
         /\ \A k \in Kind : \A names : OpenAs(cn[k], names) => OpenAs(e[k], names)
  <1>1. e = [k \in Kind |-> e[k]]
    BY DEF EnsureConnected
  <1>2. ASSUME NEW k \in Kind
        PROVE  /\ Good(e[k])
               /\ (~destroyed /\ Active(sb)) => Held(e[k])
               /\ \A names : OpenAs(cn[k], names) => OpenAs(e[k], names)
    <2>1. CASE Connecting(cn[k])
      <3>1. e[k] = cn[k]
        BY <2>1 DEF EnsureConnected
      <3>. QED
        BY <2>1, <3>1 DEF Connecting, Held
    <2>2. CASE ~Connecting(cn[k])
      <3>1. e[k] = Connect(cn[k], sb, k \in refused)
        BY <2>2 DEF EnsureConnected
      <3>2. (k \in refused) \in BOOLEAN
        OBVIOUS
      <3>. QED
        BY <2>2, <3>1, <3>2, ConnectKeeps, ActiveHasMembers
    <2>. QED
      BY <2>1, <2>2
  <1>. QED
    BY <1>1, <1>2

LEMMA Room1 ==
  ASSUME NEW kinds, NEW refused, CanConnect(kinds, refused), kinds \subseteq Kind, failures \in Nat
  PROVE  (\A k \in kinds : HasRoom(conn[k])) /\ failures' \in Nat
  <1>1. IsFiniteSet(refused)
    BY StreamAssumption, FS_Subset DEF CanConnect
  <1>2. Cardinality(refused) \in Nat
    BY <1>1, FS_CardinalityType
  <1>. QED
    BY <1>2 DEF CanConnect

LEMMA GoodKinds == IInv => TypeOK /\ \A k \in Kind : Good(conn[k])
  BY DEF IInv, TypeOK, Good

\* What is left to show of a step that keeps the types of all but conn.
LEMMA Together ==
  ASSUME subs' \in [Symbol -> {"absent", "retained", "subscribed"}],
         rebuild' \in BOOLEAN, destroyed' \in BOOLEAN, failures' \in Nat, joins' \in Nat,
         conn' = [k \in Kind |-> conn'[k]],
         \A k \in Kind : Good(conn'[k]),
         Listening' => \A k \in Kind : Held(conn'[k]),
         ~Listening' => \A k \in Kind : Idle(conn'[k]),
         (Listening' /\ ~rebuild') => \A k \in Routed : OpenAs(conn'[k], Members(subs')),
         ~Active(subs') => Members(subs') = {},
         destroyed' => ~rebuild'
  PROVE  IInv'
  <1>1. TypeOK' /\ \A k \in Kind : Watched(conn'[k])
    BY DEF TypeOK, Good
  <1>. QED
    BY <1>1 DEF IInv, Kept, Catching, Cleanly
-----------------------------------------------------------------------------
(* The actions.                                                            *)

LEMMA DisconnectAllKeeps ==
  ASSUME TypeOK
  PROVE  /\ DisconnectAll = [k \in Kind |-> DisconnectAll[k]]
         /\ \A k \in Kind : /\ Good(DisconnectAll[k])
                            /\ Idle(DisconnectAll[k])
                            /\ HasRoom(conn[k]) => HasRoom(DisconnectAll[k])
                            /\ \A names : OpenAs(DisconnectAll[k], names)
  <1>1. \A k \in Kind : DisconnectAll[k] = DisconnectSocket(conn[k]) /\ conn[k] \in SocketStates
    BY DEF DisconnectAll, TypeOK
  <1>2. DisconnectAll = [k \in Kind |-> DisconnectAll[k]]
    BY DEF DisconnectAll
  <1>. QED
    BY <1>1, <1>2, DisconnectKeeps

LEMMA SubscribeKeeps ==
  ASSUME IInv, NEW s \in Symbol, Subscribe(s)
  PROVE  IInv'
  <1>. DEFINE sb == [subs EXCEPT ![s] = "subscribed"]
  <1>0. TypeOK /\ (\A k \in Kind : Good(conn[k])) /\ ~destroyed /\ ~destroyed'
    BY GoodKinds DEF Subscribe
  <1>1. /\ sb \in [Symbol -> {"absent", "retained", "subscribed"}]
        /\ Active(sb) /\ subs' = sb
        /\ joins' \in Nat
        /\ destroyed' \in BOOLEAN
        /\ subs[s] # "absent" => Members(sb) = Members(subs)
    BY <1>0 DEF Subscribe, TypeOK, Active, Members
  <1>. HIDE DEF sb
  <1>2. CASE /\ HasAnyConnectedOrConnectingSocket
             /\ rebuild' = (rebuild \/ NeedsRebuild(s))
             /\ UNCHANGED <<conn, failures>>
    <2>1. PICK k \in Kind : Connecting(conn[k])
      BY <1>2 DEF HasAnyConnectedOrConnectingSocket
    <2>2. conn[k].ws # NoWs
      BY <2>1 DEF Connecting
    <2>3. Listening
      BY <2>2 DEF IInv, Kept, Idle
    <2>4. \A l \in Kind : Held(conn'[l])
      BY <1>2, <2>3 DEF IInv, Kept
    <2>5. (~rebuild') => \A l \in Routed : OpenAs(conn'[l], Members(subs'))
      BY <1>1, <1>2, <2>3 DEF IInv, Catching, NeedsRebuild
    <2>6. conn' = [l \in Kind |-> conn'[l]] /\ failures' \in Nat /\ rebuild' \in BOOLEAN
      BY <1>0, <1>2 DEF TypeOK
    <2>7. \A l \in Kind : Good(conn'[l])
      BY <1>0, <1>2
    <2>. QED
      BY <1>0, <1>1, <2>4, <2>5, <2>6, <2>7, Together DEF Listening
  <1>3. CASE ~HasAnyConnectedOrConnectingSocket
    <2>1. PICK refused \in SUBSET Kind :
              CanConnect(Down, refused) /\ conn' = EnsureConnected(conn, sb, refused) /\ rebuild' = rebuild
      BY <1>3 DEF Subscribe, sb
    <2>2. \A k \in Kind : ~Connecting(conn[k]) /\ k \in Down
      BY <1>3 DEF HasAnyConnectedOrConnectingSocket, Down
    <2>3. (\A k \in Kind : HasRoom(conn[k])) /\ failures' \in Nat
      BY <1>0, <2>1, <2>2, Room1 DEF Down, TypeOK
    <2>4. \A k \in Kind : \A names : OpenAs(conn[k], names)
      BY <2>2 DEF Connecting, OpenAs
    <2>5. /\ conn' = [k \in Kind |-> conn'[k]]
          /\ \A k \in Kind : Good(conn'[k])
          /\ \A k \in Kind : Held(conn'[k])
          /\ \A k \in Kind : \A names : OpenAs(conn'[k], names)
      BY <1>0, <1>1, <2>1, <2>3, <2>4, EnsureKeeps
    <2>6. rebuild' \in BOOLEAN
      BY <1>0, <2>1 DEF TypeOK
    <2>. QED
      BY <1>0, <1>1, <2>3, <2>5, <2>6, Together, StreamAssumption DEF Listening
  <1>. QED
    BY <1>2, <1>3 DEF Subscribe

LEMMA UnsubscribeKeeps ==
  ASSUME IInv, NEW s \in Symbol, Unsubscribe(s)
  PROVE  IInv'
  <1>. DEFINE sb == [subs EXCEPT ![s] = "retained"]
  <1>0. /\ TypeOK /\ (\A k \in Kind : Good(conn[k])) /\ ~destroyed /\ ~destroyed'
        /\ rebuild' = rebuild /\ Listening
        /\ rebuild' \in BOOLEAN /\ destroyed' \in BOOLEAN /\ failures' \in Nat /\ joins' \in Nat
    BY GoodKinds DEF Unsubscribe, Listening, Active, TypeOK
  <1>1. CASE Active(sb)
    <2>1. /\ subs' = sb /\ conn' = conn
          /\ sb \in [Symbol -> {"absent", "retained", "subscribed"}]
          /\ Members(sb) = Members(subs)
      BY <1>0, <1>1 DEF Unsubscribe, TypeOK, Members
    <2>2. conn' = [k \in Kind |-> conn'[k]]
      BY <1>0, <2>1 DEF TypeOK
    <2>. QED
      BY <1>0, <1>1, <2>1, <2>2, Together DEF IInv, Kept, Catching, Listening
  <1>2. CASE ~Active(sb)
    <2>1. subs' = [r \in Symbol |-> "absent"] /\ conn' = DisconnectAll
      BY <1>2 DEF Unsubscribe
    <2>2. /\ ~Active(subs') /\ Members(subs') = {}
          /\ subs' \in [Symbol -> {"absent", "retained", "subscribed"}]
      BY <2>1 DEF Active, Members
    <2>. QED
      BY <1>0, <2>1, <2>2, DisconnectAllKeeps, Together DEF Listening
  <1>. QED
    BY <1>1, <1>2

LEMMA ReconnectKeeps ==
  ASSUME IInv, Reconnect
  PROVE  IInv'
  <1>0. /\ TypeOK /\ (\A k \in Kind : Good(conn[k])) /\ Listening /\ Listening'
        /\ subs' = subs /\ rebuild' = rebuild /\ destroyed' = destroyed
        /\ subs' \in [Symbol -> {"absent", "retained", "subscribed"}]
        /\ rebuild' \in BOOLEAN /\ destroyed' \in BOOLEAN /\ joins' \in Nat
    BY GoodKinds DEF Reconnect, Listening, TypeOK
  <1>1. PICK refused \in SUBSET Kind :
            CanConnect(Kind, refused) /\ conn' = EnsureConnected(DisconnectAll, subs, refused)
    BY DEF Reconnect
  <1>2. (\A k \in Kind : HasRoom(conn[k])) /\ failures' \in Nat
    BY <1>0, <1>1, Room1 DEF TypeOK
  <1>3. /\ \A k \in Kind : Good(DisconnectAll[k]) /\ HasRoom(DisconnectAll[k])
        /\ \A k \in Kind : \A names : OpenAs(DisconnectAll[k], names)
    BY <1>0, <1>2, DisconnectAllKeeps
  <1>4. /\ conn' = [k \in Kind |-> conn'[k]]
        /\ \A k \in Kind : Good(conn'[k])
        /\ \A k \in Kind : Held(conn'[k])
        /\ \A k \in Kind : \A names : OpenAs(conn'[k], names)
    BY <1>0, <1>1, <1>3, EnsureKeeps DEF Listening
  <1>. QED
    BY <1>0, <1>2, <1>4, Together, StreamAssumption DEF Listening

LEMMA DestroyKeeps ==
  ASSUME IInv, Destroy
  PROVE  IInv'
  <1>1. /\ TypeOK /\ destroyed' = TRUE /\ rebuild' = FALSE /\ conn' = DisconnectAll
        /\ UNCHANGED <<subs, failures, joins>>
    BY GoodKinds DEF Destroy
  <1>2. /\ subs' \in [Symbol -> {"absent", "retained", "subscribed"}]
        /\ rebuild' \in BOOLEAN /\ destroyed' \in BOOLEAN /\ failures' \in Nat /\ joins' \in Nat
        /\ (~Active(subs') => Members(subs') = {})
    BY <1>1 DEF TypeOK, IInv, Cleanly
  <1>. QED
    BY <1>1, <1>2, DisconnectAllKeeps, Together DEF Listening

LEMMA RebuildKeeps ==
  ASSUME IInv, RebuildFires
  PROVE  IInv'
  <1>0. /\ TypeOK /\ (\A k \in Kind : Good(conn[k])) /\ rebuild /\ ~destroyed /\ ~destroyed'
        /\ rebuild' = FALSE /\ subs' = subs
        /\ subs' \in [Symbol -> {"absent", "retained", "subscribed"}]
        /\ rebuild' \in BOOLEAN /\ destroyed' \in BOOLEAN /\ joins' \in Nat
        /\ (~Active(subs') => Members(subs') = {})
    BY GoodKinds DEF RebuildFires, TypeOK, IInv, Cleanly
  <1>1. CASE Members(subs) # {} /\ Outdated
    <2>. DEFINE cn == [k \in Kind |-> IF k \in Routed THEN DisconnectSocket(conn[k]) ELSE conn[k]]
    <2>1. PICK refused \in SUBSET Kind :
              CanConnect(Routed \cup Down, refused) /\ conn' = EnsureConnected(cn, subs, refused)
      BY <1>1 DEF RebuildFires
    <2>2. (\A k \in Routed \cup Down : HasRoom(conn[k])) /\ failures' \in Nat
      BY <1>0, <2>1, Room1, StreamAssumption DEF TypeOK, Down
    <2>3. ASSUME NEW k \in Kind
          PROVE  /\ Good(cn[k])
                 /\ ~Connecting(cn[k]) => HasRoom(cn[k])
                 /\ k \in Routed => \A names : OpenAs(cn[k], names)
      <3>1. CASE k \in Routed
        <4>1. cn[k] = DisconnectSocket(conn[k]) /\ HasRoom(conn[k]) /\ conn[k] \in SocketStates
          BY <1>0, <2>2, <3>1 DEF TypeOK
        <4>. QED
          BY <4>1, DisconnectKeeps
      <3>2. CASE k \notin Routed
        <4>1. cn[k] = conn[k]
          BY <3>2
        <4>. QED
          BY <1>0, <2>2, <3>2, <4>1 DEF Down
      <3>. QED
        BY <3>1, <3>2
    <2>. HIDE DEF cn
    <2>4. Active(subs)
      BY <1>1 DEF IInv, Cleanly
    <2>5. /\ conn' = [k \in Kind |-> conn'[k]]
          /\ \A k \in Kind : Good(conn'[k])
          /\ \A k \in Kind : Held(conn'[k])
          /\ \A k \in Kind : \A names : OpenAs(cn[k], names) => OpenAs(conn'[k], names)
      BY <1>0, <2>1, <2>3, <2>4, EnsureKeeps
    <2>6. \A k \in Routed : OpenAs(conn'[k], Members(subs'))
      BY <1>0, <2>3, <2>5, StreamAssumption
    <2>. QED
      BY <1>0, <2>2, <2>4, <2>5, <2>6, Together DEF Listening
  <1>2. CASE (Members(subs) = {} \/ ~Outdated) /\ UNCHANGED <<conn, failures>>
    <2>1. Active(subs) => \A k \in Routed : conn[k].key = Members(subs)
      BY <1>2, ActiveHasMembers DEF Outdated
    <2>2. Active(subs) => \A k \in Routed : OpenAs(conn'[k], Members(subs'))
      BY <1>0, <1>2, <2>1 DEF OpenAs
    <2>3. conn' = [k \in Kind |-> conn'[k]] /\ failures' \in Nat
      BY <1>0, <1>2 DEF TypeOK
    <2>4. /\ Listening' => \A k \in Kind : Held(conn'[k])
          /\ ~Listening' => \A k \in Kind : Idle(conn'[k])
      BY <1>0, <1>2 DEF IInv, Kept, Listening
    <2>5. \A k \in Kind : Good(conn'[k])
      BY <1>0, <1>2
    <2>. QED
      BY <1>0, <2>2, <2>3, <2>4, <2>5, Together DEF Listening
  <1>. QED
    BY <1>1, <1>2 DEF RebuildFires

LEMMA ReconnectTimerKeeps ==
  ASSUME IInv, NEW k \in Kind, ReconnectFires(k)
  PROVE  IInv'
  <1>0. /\ TypeOK /\ (\A l \in Kind : Good(conn[l]))
        /\ subs' = subs /\ rebuild' = rebuild /\ destroyed' = destroyed
        /\ subs' \in [Symbol -> {"absent", "retained", "subscribed"}]
        /\ rebuild' \in BOOLEAN /\ destroyed' \in BOOLEAN /\ joins' \in Nat
        /\ (~Active(subs') => Members(subs') = {}) /\ (destroyed' => ~rebuild')
    BY GoodKinds DEF ReconnectFires, TypeOK, IInv, Cleanly
  <1>1. Listening /\ Members(subs) # {}
    BY ActiveHasMembers DEF ReconnectFires, IInv, Kept, Idle, Listening
  <1>. DEFINE c == [conn[k] EXCEPT !.timer = FALSE]
  <1>2. PICK refused \in SUBSET {k} :
            /\ CanConnect({k}, refused)
            /\ conn' = [conn EXCEPT ![k] = Connect(c, subs, refused # {})]
    BY DEF ReconnectFires
  <1>3. HasRoom(conn[k]) /\ failures' \in Nat
    BY <1>0, <1>2, Room1 DEF TypeOK
  <1>4. /\ c \in SocketStates
        /\ c.ws = conn[k].ws /\ c.key = conn[k].key /\ c.sock = conn[k].sock
    BY <1>0 DEF Good, SocketStates
  <1>. HIDE DEF c
  <1>5. Good(c) /\ HasRoom(c) /\ \A names : OpenAs(conn[k], names) => OpenAs(c, names)
    BY <1>0, <1>3, <1>4 DEF Good, Watched, Current, HasRoom, OpenAs
  <1>. DEFINE d == Connect(c, subs, refused # {})
  <1>6. /\ Good(d) /\ Held(d)
        /\ \A names : OpenAs(conn[k], names) => OpenAs(d, names)
    <2>1. (refused # {}) \in BOOLEAN
      OBVIOUS
    <2>. QED
      BY <1>0, <1>1, <1>5, <2>1, ConnectKeeps DEF Listening
  <1>. HIDE DEF d
  <1>7. /\ conn' = [l \in Kind |-> conn'[l]]
        /\ conn'[k] = d
        /\ \A l \in Kind : l # k => conn'[l] = conn[l]
    BY <1>0, <1>2 DEF TypeOK, d
  <1>8. /\ \A l \in Kind : Good(conn'[l]) /\ Held(conn'[l])
        /\ ~rebuild' => \A l \in Routed : OpenAs(conn'[l], Members(subs'))
    BY <1>0, <1>1, <1>6, <1>7, StreamAssumption DEF IInv, Kept, Catching
  <1>. QED
    BY <1>0, <1>1, <1>3, <1>7, <1>8, Together DEF Listening

\* One socket state becomes d, as a step of one of its sockets may make it.
LEMMA OneKindKeeps ==
  ASSUME IInv, NEW k \in Kind, NEW d, Good(d),
         Listening /\ Held(conn[k]) => Held(d),
         ~Listening /\ Idle(conn[k]) => Idle(d),
         OpenAs(conn[k], Members(subs)) => OpenAs(d, Members(subs)),
         conn' = [conn EXCEPT ![k] = d],
         failures' \in Nat,
         UNCHANGED <<subs, rebuild, destroyed, joins>>
  PROVE  IInv'
  <1>0. /\ TypeOK /\ (\A l \in Kind : Good(conn[l]))
        /\ subs' = subs /\ rebuild' = rebuild /\ destroyed' = destroyed
        /\ subs' \in [Symbol -> {"absent", "retained", "subscribed"}]
        /\ rebuild' \in BOOLEAN /\ destroyed' \in BOOLEAN /\ joins' \in Nat
        /\ (~Active(subs') => Members(subs') = {}) /\ (destroyed' => ~rebuild')
    BY GoodKinds DEF TypeOK, IInv, Cleanly
  <1>1. /\ conn' = [l \in Kind |-> conn'[l]]
        /\ conn'[k] = d
        /\ \A l \in Kind : l # k => conn'[l] = conn[l]
    BY <1>0 DEF TypeOK
  <1>2. Listening' = Listening
    BY <1>0 DEF Listening
  <1>3. \A l \in Kind : Good(conn'[l])
    BY <1>0, <1>1
  <1>4. /\ Listening => \A l \in Kind : Held(conn'[l])
        /\ ~Listening => \A l \in Kind : Idle(conn'[l])
    BY <1>1 DEF IInv, Kept
  <1>5. (Listening /\ ~rebuild) => \A l \in Routed : OpenAs(conn'[l], Members(subs))
    BY <1>1, StreamAssumption DEF IInv, Catching
  <1>. QED
    BY <1>0, <1>1, <1>2, <1>3, <1>4, <1>5, Together

LEMMA OpensKeeps ==
  ASSUME IInv, NEW k \in Kind, NEW i \in Pool, Opens(k, i)
  PROVE  IInv'
  <1>1. TypeOK /\ Good(conn[k])
    BY GoodKinds
  <1>2. conn' = [conn EXCEPT ![k] = OnOpen(conn[k], i)]
    BY DEF Opens
  <1>3. failures' \in Nat /\ UNCHANGED <<subs, rebuild, destroyed, joins>>
    BY <1>1 DEF Opens, TypeOK
  <1>. QED
    BY <1>1, <1>2, <1>3, OnOpenKeeps, OneKindKeeps

LEMMA BeginsToCloseKeeps ==
  ASSUME IInv, NEW k \in Kind, NEW i \in Pool, BeginsToClose(k, i)
  PROVE  IInv'
  <1>. DEFINE c == conn[k]
              d == [ws |-> c.ws, timer |-> c.timer, key |-> c.key, sock |-> Turned(c, i, "closing")]
  <1>1. TypeOK /\ Good(c)
    BY GoodKinds
  <1>a. conn' = [conn EXCEPT ![k] = [c EXCEPT !.sock = Turned(c, i, "closing")]]
    BY Zenon DEF BeginsToClose
  <1>b. [c EXCEPT !.sock = Turned(c, i, "closing")] = d
    BY <1>1 DEF Good, SocketStates
  <1>2. conn' = [conn EXCEPT ![k] = d]
    BY <1>a, <1>b
  <1>3. failures' \in Nat /\ UNCHANGED <<subs, rebuild, destroyed, joins>>
    BY <1>1 DEF BeginsToClose, TypeOK
  <1>4. /\ Good(d)
        /\ Held(c) => Held(d)
        /\ Idle(c) => Idle(d)
        /\ \A names : OpenAs(c, names) => OpenAs(d, names)
    <2>1. c.key \in SUBSET Symbol
      BY <1>1, SocketFields DEF Good
    <2>2. \A dd : dd = d => /\ Good(dd)
                            /\ Held(c) => Held(dd)
                            /\ Idle(c) => Idle(dd)
                            /\ \A names : OpenAs(c, names) => OpenAs(dd, names)
      BY <1>1, <2>1, TurnKeeps
    <2>. HIDE DEF d
    <2>. QED
      BY <2>2
  <1>. HIDE DEF d
  <1>. QED
    BY <1>1, <1>2, <1>3, <1>4, OneKindKeeps

LEMMA ClosesKeeps ==
  ASSUME IInv, NEW k \in Kind, NEW i \in Pool, Fails(k, i) \/ Closes(k, i)
  PROVE  IInv'
  <1>1. TypeOK /\ Good(conn[k])
    BY GoodKinds
  <1>2. conn' = [conn EXCEPT ![k] = OnClose(conn[k], i)]
    BY DEF Fails, Closes
  <1>3. failures' \in Nat /\ UNCHANGED <<subs, rebuild, destroyed, joins>>
    BY <1>1 DEF Fails, Closes, TypeOK
  <1>. QED
    BY <1>1, <1>2, <1>3, OnCloseKeeps, OneKindKeeps
-----------------------------------------------------------------------------
LEMMA Initial == Init => IInv
  <1>1. SUFFICES ASSUME Init PROVE IInv
    OBVIOUS
  <1>. DEFINE none == [ws |-> NoWs, timer |-> FALSE, key |-> {}, sock |-> [i \in Pool |-> Unused]]
  <1>2. none \in SocketStates
    BY UnusedSocket, WithSockets
  <1>3. Watched(none) /\ Idle(none)
    BY DEF Watched, Idle
  <1>4. conn = [k \in Kind |-> none]
    BY <1>1 DEF Init
  <1>5. ~Active(subs) /\ Members(subs) = {}
    BY <1>1 DEF Init, Active, Members
  <1>. HIDE DEF none
  <1>6. TypeOK
    <2>1. subs \in [Symbol -> {"absent", "retained", "subscribed"}] /\ failures \in Nat /\ joins \in Nat
      BY <1>1 DEF Init
    <2>2. rebuild \in BOOLEAN /\ destroyed \in BOOLEAN
      BY <1>1, Zenon DEF Init
    <2>. QED
      BY <1>2, <1>4, <2>1, <2>2 DEF TypeOK
  <1>7. \A k \in Kind : Watched(conn[k]) /\ Idle(conn[k])
    BY <1>3, <1>4
  <1>8. ~rebuild
    BY <1>1 DEF Init
  <1>. QED
    BY <1>5, <1>6, <1>7, <1>8 DEF IInv, Kept, Catching, Cleanly, Listening

LEMMA Inductive == IInv /\ [Next]_vars => IInv'
  <1>1. SUFFICES ASSUME IInv, [Next]_vars PROVE IInv'
    OBVIOUS
  <1>2. CASE \E s \in Symbol : Subscribe(s) \/ Unsubscribe(s)
    BY <1>1, <1>2, SubscribeKeeps, UnsubscribeKeeps
  <1>3. CASE Reconnect
    BY <1>1, <1>3, ReconnectKeeps
  <1>4. CASE Destroy
    BY <1>1, <1>4, DestroyKeeps
  <1>5. CASE RebuildFires
    BY <1>1, <1>5, RebuildKeeps
  <1>6. CASE \E k \in Kind : ReconnectFires(k)
    BY <1>1, <1>6, ReconnectTimerKeeps
  <1>7. CASE \E k \in Kind, i \in Pool :
               Opens(k, i) \/ BeginsToClose(k, i) \/ Fails(k, i) \/ Closes(k, i)
    BY <1>1, <1>7, OpensKeeps, BeginsToCloseKeeps, ClosesKeeps
  <1>8. CASE UNCHANGED vars
    BY <1>1, <1>8 DEF vars, IInv, TypeOK, Kept, Catching, Cleanly, Listening
  <1>. QED
    BY <1>1, <1>2, <1>3, <1>4, <1>5, <1>6, <1>7, <1>8 DEF Next

LEMMA Invariance == Spec => []IInv
  BY Initial, Inductive, PTL DEF Spec

\* Every variable of the stream keeps its type.
THEOREM TypeCorrect == Spec => []TypeOK
  <1>1. IInv => TypeOK
    BY DEF IInv
  <1>. QED
    BY <1>1, Invariance, PTL

\* While a position listens, each kind has a socket that is watched or a timer
\* that will make one, whatever sockets were replaced and however late they close.
THEOREM NoKindIsGivenUp == Spec => []NoKindGivenUp
  <1>1. IInv => NoKindGivenUp
    BY DEF IInv, Kept, Held, Watched, Listening, NoKindGivenUp
  <1>. QED
    BY <1>1, Invariance, PTL

\* Without a listener, and after destroy, no kind has a socket or a timer.
THEOREM IdleStreamStaysDown == Spec => []IdleStaysDown
  <1>1. IInv => IdleStaysDown
    BY DEF IInv, Kept, Idle, Listening, IdleStaysDown
  <1>. QED
    BY <1>1, Invariance, PTL

\* An open routed socket whose key is not the membership has a rebuild pending.
THEOREM KeyCatchesUpAlways == Spec => []KeyCatchesUp
  <1>1. IInv => KeyCatchesUp
    BY DEF IInv, Catching, OpenAs, Listening, KeyCatchesUp
  <1>. QED
    BY <1>1, Invariance, PTL
=============================================================================
