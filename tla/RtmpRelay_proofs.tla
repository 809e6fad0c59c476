---------------------------- MODULE RtmpRelay_proofs ----------------------------
(***************************************************************************)
(* Proofs about the RTMP relay: its types, however the handlers of any     *)
(* number of reactors interleave; and, for the orderly clients of one      *)
(* reactor, that a session's header is its publisher's, and that no client *)
(* gets a frame before the header and the key frame it needs.              *)
(*                                                                         *)
(* Every action ends in Settle, which destroys what nothing holds.  The    *)
(* invariants are therefore written about the five values that Settle is   *)
(* given, and one lemma says that what holds of them holds of the state it *)
(* makes of them.                                                          *)
(***************************************************************************)
EXTENDS RtmpRelay, TLAPS

OneReactor == \A r, q \in Reactors : r = q

-----------------------------------------------------------------------------
(* The invariants *)

\* What a handler has in its hands.
FramesWhole(frames) ==
  \A r \in Reactors :
    LET f == frames[r]
    IN  /\ f.at \notin {"idle", "gc"} => f.conn \in Conns
        /\ f.at = "publish" => f.path \in Paths
        /\ f.at \in {"entering", "sending", "failing"} => f.sess \in Sessions
        /\ f.at = "failing" => f.sink \in Conns

Types(conns, sessions, entries, timers, frames) ==
  /\ conns \in [Conns -> ConnType]
  /\ sessions \in [Sessions -> SessionType]
  /\ entries \in [Paths -> Sessions \cup {None}]
  /\ timers \in [Reactors -> Seq([sess : Sessions, conn : Conns])]
  /\ frames \in [Reactors -> FrameType]
  /\ FramesWhole(frames)

Coming(c, frames) == \E r \in Reactors : frames[r].at \in {"enter", "entering"} /\ frames[r].conn = c

Unheld == \A s \in Sessions : ~InUse(s, sessionOf, removals, frame) => sess[s] = Empty

\* A connection has played or published at most once, and a player that waits for a key frame knows a header.
ConnsHold(conns) ==
  \A c \in Conns :
    LET x == conns[c]
    IN  /\ x.life = "gone" => x = Fresh
        /\ x.state = "HANDSHAKE" => x.session = None /\ x.view = "out" /\ ~x.playing /\ ~x.key /\ ~x.avc
        /\ x.view # "out" => x.life = "open" /\ x.session # None
        /\ x.view # "early"
        /\ x.state = "START_PLAY" /\ x.view # "out" =>
             IF x.playing THEN x.avc /\ x.view # "nothing" /\ (x.key \/ x.view = "header")
                          ELSE x.view = "nothing" /\ ~x.key /\ ~x.avc

SinksHold(conns, sessions) == \A s \in Sessions, c \in Conns : c \in sessions[s].sinks => conns[c].session = s

PublishersHold(conns, sessions, frames) ==
  \A s \in Sessions, c \in Conns :
    /\ sessions[s].publisher = c => conns[c].session = s /\ conns[c].state = "START_PUBLISH"
    /\ conns[c].session = s /\ conns[c].state = "START_PUBLISH" =>
         sessions[s].publisher = IF Coming(c, frames) THEN None ELSE c

TimersHold(conns, timers) ==
  \A r \in Reactors : \A i \in DOMAIN timers[r] :
    conns[timers[r][i].conn].session = timers[r][i].sess /\ conns[timers[r][i].conn].view = "out"

ServedHold(conns, sessions, entries, frames) ==
  \A c \in Conns :
    conns[c].view # "out" =>
      /\ \E p \in Paths : entries[p] = conns[c].session
      /\ IF Coming(c, frames) THEN conns[c].view = "nothing" ELSE c \in sessions[conns[c].session].sinks

Removed(s, c, timers) == \E i \in DOMAIN timers[ReactorOf[c]] : timers[ReactorOf[c]][i] = [sess |-> s, conn |-> c]

HeadersHold(conns, sessions, timers) ==
  \A s \in Sessions :
    /\ sessions[s].header =>
         /\ sessions[s].publisher # None
         /\ conns[sessions[s].publisher].view # "out" \/ Removed(s, sessions[s].publisher, timers)
    /\ sessions[s].publisher # None /\ conns[sessions[s].publisher].view \in {"header", "key"} => sessions[s].header

Awaits(s, x, frames) ==
  \E r \in Reactors : /\ frames[r].at \in {"sending", "failing"} /\ frames[r].sess = s
                      /\ frames[r].kind = "key" /\ x \in frames[r].todo

PlayersHold(conns, sessions, frames) ==
  \A s \in Sessions, c, x \in Conns :
    /\ sessions[s].publisher = c /\ conns[c].view = "key"
    /\ conns[x].session = s /\ conns[x].state = "START_PLAY" /\ conns[x].view = "header" /\ conns[x].key
    => Awaits(s, x, frames)

FrameHolds(conns, sessions, entries, f) ==
  /\ f.at = "publish" =>
       /\ conns[f.conn].life = "open" /\ conns[f.conn].state = "HANDSHAKE"
       /\ entries[f.path] # None /\ sessions[entries[f.path]].publisher = None
  /\ f.at = "enter" => conns[f.conn].view # "out"
  /\ f.at = "entering" => conns[f.conn].view # "out" /\ f.sess = conns[f.conn].session
  /\ f.at \in {"closing", "deleting"} => conns[f.conn].view = "out"
  /\ f.at = "failing" => conns[f.sink].view = "out"
  /\ f.at \in {"sending", "failing"} =>
       /\ conns[f.conn].session = f.sess /\ conns[f.conn].state = "START_PUBLISH"
       /\ conns[f.conn].view = IF f.kind = "header" THEN "header" ELSE "key"

FramesHold(conns, sessions, entries, frames) == \A r \in Reactors : FrameHolds(conns, sessions, entries, frames[r])

Keeps(conns, sessions, entries, timers, frames) ==
  /\ ConnsHold(conns) /\ SinksHold(conns, sessions) /\ PublishersHold(conns, sessions, frames)
  /\ TimersHold(conns, timers) /\ ServedHold(conns, sessions, entries, frames)
  /\ HeadersHold(conns, sessions, timers) /\ PlayersHold(conns, sessions, frames)
  /\ FramesHold(conns, sessions, entries, frames)

RelayInv ==
  /\ Types(conn, sess, sessionOf, removals, frame)
  /\ Unheld
  /\ Keeps(conn, sess, sessionOf, removals, frame)

-----------------------------------------------------------------------------
(* Types *)

\* Expired pointers are None, and what is destroyed is as it was at first.
LEMMA SettleTypes ==
  ASSUME NEW conns, NEW sessions, NEW entries, NEW timers, NEW frames,
         Types(conns, sessions, entries, timers, frames),
         Settle(conns, sessions, entries, timers, frames)
  PROVE  Types(conn', sess', sessionOf', removals', frame')
<1>1. sessionOf' = entries /\ removals' = timers /\ frame' = frames
  BY DEF Settle
<1> DEFINE live == {s \in Sessions : InUse(s, entries, timers, frames)}
           here == {c \in Conns : conns[c].life = "open" \/ (conns[c].life = "closed" /\ Held(c, timers, frames))}
           Weak(x, alive) == IF x \in alive THEN x ELSE None
<1>2. /\ conn' = [c \in Conns |-> IF c \in here THEN [conns[c] EXCEPT !.session = Weak(@, live)] ELSE Fresh]
      /\ sess' = [s \in Sessions |-> IF s \in live
                    THEN [sessions[s] EXCEPT !.sinks = @ \cap here, !.publisher = Weak(@, here)] ELSE Empty]
  BY DEF Settle
<1>3. live \subseteq Sessions /\ here \subseteq Conns
  OBVIOUS
<1> HIDE DEF live, here
<1>4. Fresh \in ConnType /\ Empty \in SessionType
  BY DEF Fresh, Empty, ConnType, SessionType, Views
<1>5. ASSUME NEW c \in Conns PROVE [conns[c] EXCEPT !.session = Weak(@, live)] \in ConnType
  <2>1. conns[c] \in ConnType /\ Weak(conns[c].session, live) \in Sessions \cup {None}
    BY <1>3 DEF Types
  <2> QED BY <2>1 DEF ConnType
<1>6. conn' \in [Conns -> ConnType]
  BY <1>2, <1>4, <1>5
<1>7. ASSUME NEW s \in Sessions
      PROVE  [sessions[s] EXCEPT !.sinks = @ \cap here, !.publisher = Weak(@, here)] \in SessionType
  <2>1. sessions[s] \in SessionType /\ Weak(sessions[s].publisher, here) \in Conns \cup {None}
    BY <1>3 DEF Types
  <2> QED BY <2>1 DEF SessionType
<1>8. sess' \in [Sessions -> SessionType]
  BY <1>2, <1>4, <1>7
<1> QED BY <1>1, <1>6, <1>8 DEF Types

Now == Types(conn, sess, sessionOf, removals, frame)

LEMMA HandlerType ==
  ASSUME NEW place \in Places, NEW c \in Conns
  PROVE  /\ Handler(place, c) \in FrameType
         /\ Handler(place, c).at = place /\ Handler(place, c).conn = c
         /\ Handler(place, c).sink = None /\ Handler(place, c).sess = None /\ Handler(place, c).todo = {}
BY DEF Handler, Idle, FrameType, Kinds

LEMMA IdleType == Idle \in FrameType /\ Idle.at = "idle"
BY DEF Idle, FrameType, Places, Kinds

\* A reactor that goes on with a handler that is whole.
LEMMA GotoTypes ==
  ASSUME Now, NEW r \in Reactors, NEW f \in FrameType,
         /\ f.at \notin {"idle", "gc"} => f.conn \in Conns
         /\ f.at = "publish" => f.path \in Paths
         /\ f.at \in {"entering", "sending", "failing"} => f.sess \in Sessions
         /\ f.at = "failing" => f.sink \in Conns
  PROVE  Goto(r, f) \in [Reactors -> FrameType] /\ FramesWhole(Goto(r, f))
BY DEF Now, Types, Goto, FramesWhole

LEMMA GotoHandler ==
  ASSUME Now, NEW r \in Reactors, NEW place \in {"close", "closing", "deleting", "enter"}, NEW c \in Conns
  PROVE  Goto(r, Handler(place, c)) \in [Reactors -> FrameType] /\ FramesWhole(Goto(r, Handler(place, c)))
<1>1. place \in Places
  BY DEF Places
<1>2. Handler(place, c) \in FrameType /\ Handler(place, c).at = place /\ Handler(place, c).conn = c
  BY <1>1, HandlerType
<1> DEFINE f == Handler(place, c)
<1> HIDE DEF f
<1>3. f \in FrameType /\ f.at = place /\ f.conn = c
  BY <1>2 DEF f
<1> QED BY <1>3, GotoTypes DEF f

LEMMA GotoIdle ==
  ASSUME Now, NEW r \in Reactors
  PROVE  Goto(r, Idle) \in [Reactors -> FrameType] /\ FramesWhole(Goto(r, Idle))
BY IdleType, GotoTypes

LEMMA GetSessionTypes ==
  ASSUME Now, NEW p \in Paths, CanGetSession(p)
  PROVE  pGetSession(p) \in Sessions /\ With(p) \in [Paths -> Sessions \cup {None}]
<1>1. sessionOf[p] \in Sessions \cup {None}
  BY DEF Now, Types
<1>2. Unused # {} => (CHOOSE s \in Unused : TRUE) \in Unused
  OBVIOUS
<1>3. Unused \subseteq Sessions
  BY DEF Unused
<1>4. pGetSession(p) \in Sessions
  BY <1>1, <1>2, <1>3 DEF pGetSession, CanGetSession
<1> QED BY <1>4 DEF With, Now, Types

LEMMA LaterTypes ==
  ASSUME Now, NEW c \in Conns, conn[c].session # None
  PROVE  Later(c) \in [Reactors -> Seq([sess : Sessions, conn : Conns])]
<1>1. [sess |-> conn[c].session, conn |-> c] \in [sess : Sessions, conn : Conns]
  BY DEF Now, Types, ConnType
<1>2. ReactorOf[c] \in Reactors
  BY ReactorAssumption
<1> DEFINE q == removals[ReactorOf[c]]
           e == [sess |-> conn[c].session, conn |-> c]
<1>3. q \in Seq([sess : Sessions, conn : Conns])
  BY <1>2 DEF Now, Types
<1>4. Append(q, e) \in Seq([sess : Sessions, conn : Conns])
  BY <1>1, <1>3
<1>5. Later(c) = [removals EXCEPT ![ReactorOf[c]] = Append(q, e)]
  BY DEF Later
<1> QED BY <1>2, <1>4, <1>5 DEF Now, Types

LEMMA SeeType ==
  ASSUME NEW view \in Views, NEW kind \in Kinds
  PROVE  See(view, kind) \in Views
BY DEF See, Views, Kinds

LEMMA DeliverType ==
  ASSUME NEW x \in ConnType, NEW kind \in Kinds
  PROVE  Deliver(x, kind) \in ConnType
<1>1. See(x.view, kind) \in Views
  BY SeeType DEF ConnType
<1> QED BY <1>1 DEF Deliver, ConnType

LEMMA RelayType ==
  ASSUME NEW x \in ConnType, NEW kind \in Kinds, NEW header
  PROVE  Relay(x, kind, header) \in ConnType
<1>1. "header" \in Kinds
  BY DEF Kinds
<1> QED BY <1>1, DeliverType DEF Relay

LEMMA ComingTypes ==
  ASSUME Now, (\E c \in Conns : Accept(c)) \/ (\E r \in Reactors, c \in Conns : Disconnect(r, c))
  PROVE  Now'
<1> USE DEF Now
<1>1. ASSUME NEW c \in Conns, Accept(c) PROVE Now'
  <2>1. [Fresh EXCEPT !.life = "open"] \in ConnType
    BY DEF Fresh, ConnType, Views
  <2>2. Types([conn EXCEPT ![c] = [Fresh EXCEPT !.life = "open"]], sess, sessionOf, removals, frame)
    BY <2>1 DEF Types
  <2> QED BY <1>1, <2>2, SettleTypes DEF Accept
<1>2. ASSUME NEW r \in Reactors, NEW c \in Conns, Disconnect(r, c) PROVE Now'
  <2>1. Types(conn, sess, sessionOf, removals, Goto(r, Handler("close", c)))
    BY GotoHandler DEF Types
  <2> QED BY <1>2, <2>1, SettleTypes DEF Disconnect
<1> QED BY <1>1, <1>2

LEMMA ShutTypes ==
  ASSUME Now, NEW c \in Conns
  PROVE  [conn EXCEPT ![c].life = "closed", ![c].view = "out"] \in [Conns -> ConnType]
<1>1. conn[c] \in ConnType /\ [[conn[c] EXCEPT !.life = "closed"] EXCEPT !.view = "out"] \in ConnType
  BY DEF Now, Types, ConnType, Views
<1> QED BY <1>1 DEF Now, Types

LEMMA StoppedType ==
  ASSUME NEW x \in ConnType
  PROVE  Stopped(x) \in ConnType
BY DEF Stopped, ConnType

LEMMA LeavingTypes ==
  ASSUME Now, NEW r \in Reactors,
         CloseStart(r) \/ (\E c \in Conns : DeleteStream(r, c)) \/ DeleteEnd(r) \/ RunRemoval(r)
  PROVE  Now'
<1> USE DEF Now
<1>1. CASE CloseStart(r)
  <2> DEFINE c == frame[r].conn
             shut == [conn EXCEPT ![c].life = "closed", ![c].view = "out"]
  <2>1. c \in Conns
    BY <1>1 DEF CloseStart, At, Types, FramesWhole
  <2>2. shut \in [Conns -> ConnType]
    BY <2>1, ShutTypes
  <2>3. conn[c].session # None => Later(c) \in [Reactors -> Seq([sess : Sessions, conn : Conns])]
    BY <2>1, LaterTypes
  <2>4. /\ Goto(r, Handler("closing", c)) \in [Reactors -> FrameType] /\ FramesWhole(Goto(r, Handler("closing", c)))
        /\ Goto(r, Idle) \in [Reactors -> FrameType] /\ FramesWhole(Goto(r, Idle))
    BY <2>1, GotoHandler, GotoIdle
  <2>5. \/ conn[c].session # None /\ Settle(shut, sess, sessionOf, Later(c), Goto(r, Handler("closing", c)))
        \/ Settle(shut, sess, sessionOf, removals, Goto(r, Idle))
    BY <1>1 DEF CloseStart
  <2> HIDE DEF c, shut
  <2>6. conn[c].session # None => Types(shut, sess, sessionOf, Later(c), Goto(r, Handler("closing", c)))
    BY <2>2, <2>3, <2>4 DEF Types
  <2>7. Types(shut, sess, sessionOf, removals, Goto(r, Idle))
    BY <2>2, <2>4 DEF Types
  <2> QED BY <2>5, <2>6, <2>7, SettleTypes
<1>2. ASSUME NEW c \in Conns, DeleteStream(r, c) PROVE Now'
  <2> DEFINE left == [conn EXCEPT ![c].view = "out"]
  <2>1. left \in [Conns -> ConnType]
    BY ZenonT(40) DEF Types, ConnType, Views
  <2>2. conn[c].session # None => Later(c) \in [Reactors -> Seq([sess : Sessions, conn : Conns])]
    BY LaterTypes
  <2>3. /\ Goto(r, Handler("close", c)) \in [Reactors -> FrameType] /\ FramesWhole(Goto(r, Handler("close", c)))
        /\ Goto(r, Handler("deleting", c)) \in [Reactors -> FrameType]
        /\ FramesWhole(Goto(r, Handler("deleting", c)))
    BY GotoHandler
  <2>4. \/ Settle(conn, sess, sessionOf, removals, Goto(r, Handler("close", c)))
        \/ conn[c].session # None /\ Settle(left, sess, sessionOf, Later(c), Goto(r, Handler("deleting", c)))
    BY <1>2 DEF DeleteStream
  <2>5. Types(conn, sess, sessionOf, removals, Goto(r, Handler("close", c)))
    BY <2>3 DEF Types
  <2> HIDE DEF left
  <2>6. conn[c].session # None => Types(left, sess, sessionOf, Later(c), Goto(r, Handler("deleting", c)))
    BY <2>1, <2>2, <2>3 DEF Types
  <2> QED BY <2>4, <2>5, <2>6, SettleTypes
<1>3. CASE DeleteEnd(r)
  <2> DEFINE f == frame[r]
             c == IF f.at = "failing" THEN f.sink ELSE f.conn
             on == IF f.at = "failing" THEN [f EXCEPT !.at = "sending", !.sink = None] ELSE Idle
             stopped == [conn EXCEPT ![c] = Stopped(@)]
  <2>1. c \in Conns
    BY <1>3 DEF DeleteEnd, Types, FramesWhole
  <2>2. Stopped(conn[c]) \in ConnType
    BY <2>1, StoppedType DEF Types
  <2>3. stopped \in [Conns -> ConnType]
    BY <2>1, <2>2 DEF Types
  <2>4. /\ on \in FrameType
        /\ on.at \in {"sending", "failing"} => on.conn \in Conns /\ on.sess \in Sessions
        /\ on.at \in {"idle", "sending"}
    BY <1>3, IdleType DEF DeleteEnd, Types, FramesWhole, FrameType, Places
  <2>5. Settle(stopped, sess, sessionOf, removals, Goto(r, on))
    BY <1>3 DEF DeleteEnd
  <2> HIDE DEF c, on, stopped
  <2>6. Types(stopped, sess, sessionOf, removals, Goto(r, on))
    BY <2>3, <2>4, GotoTypes DEF Types
  <2> QED BY <2>5, <2>6, SettleTypes
<1>4. CASE RunRemoval(r)
  <2> DEFINE next == Head(removals[r])
             without == [sess EXCEPT ![next.sess] = RemoveSink(next.sess, next.conn)]
             later == [removals EXCEPT ![r] = Tail(@)]
  <2>1. removals[r] \in Seq([sess : Sessions, conn : Conns]) /\ removals[r] # <<>>
    BY <1>4 DEF RunRemoval, Types
  <2>2. next \in [sess : Sessions, conn : Conns] /\ Tail(removals[r]) \in Seq([sess : Sessions, conn : Conns])
    <3> DEFINE E == [sess : Sessions, conn : Conns]
               q == removals[r]
    <3>1. q \in Seq(E) /\ q # <<>>
      BY <2>1
    <3> HIDE DEF E, q
    <3>2. Head(q) \in E /\ Tail(q) \in Seq(E)
      BY <3>1
    <3> QED BY <3>2 DEF E, q
  <2>3. RemoveSink(next.sess, next.conn) \in SessionType
    <3>1. sess[next.sess] \in SessionType
      BY <2>2 DEF Types
    <3> QED BY <3>1 DEF RemoveSink, SessionType
  <2>4. Settle(conn, without, sessionOf, later, frame)
    BY <1>4 DEF RunRemoval
  <2>5. without \in [Sessions -> SessionType] /\ later \in [Reactors -> Seq([sess : Sessions, conn : Conns])]
    BY <2>2, <2>3 DEF Types
  <2> HIDE DEF without, later
  <2>6. Types(conn, without, sessionOf, later, frame)
    BY <2>5 DEF Types
  <2> QED BY <2>4, <2>6, SettleTypes
<1> QED BY <1>1, <1>2, <1>3, <1>4

LEMMA PublishTypes ==
  ASSUME Now, NEW r \in Reactors, NEW c \in Conns, NEW p \in Paths, Publish(r, c, p)
  PROVE  Now'
<1> USE DEF Now
<1> DEFINE f == IF sess[pGetSession(p)].publisher # None \/ conn[c].state = "START_PUBLISH"
                THEN Handler("close", c)
                ELSE [Handler("publish", c) EXCEPT !.path = p]
<1>1. With(p) \in [Paths -> Sessions \cup {None}]
  BY GetSessionTypes DEF Publish
<1>2. f \in FrameType /\ f.at \in {"close", "publish"} /\ f.conn = c /\ (f.at = "publish" => f.path = p)
  BY DEF Handler, Idle, FrameType, Places, Kinds
<1>3. Settle(conn, sess, With(p), removals, Goto(r, f))
  BY DEF Publish
<1> HIDE DEF f
<1>4. Types(conn, sess, With(p), removals, Goto(r, f))
  BY <1>1, <1>2, GotoTypes DEF Types
<1> QED BY <1>3, <1>4, SettleTypes

\* What publish and play make of the connection.
LEMMA FoundTypes ==
  ASSUME Now, NEW c \in Conns, NEW s \in Sessions
  PROVE  /\ [conn EXCEPT ![c].session = s] \in [Conns -> ConnType]
         /\ [[conn EXCEPT ![c].session = s] EXCEPT ![c].state = "START_PUBLISH", ![c].publishing = TRUE,
                                                   ![c].view = "nothing"] \in [Conns -> ConnType]
         /\ [conn EXCEPT ![c].session = s, ![c].state = "START_PLAY", ![c].view = "nothing"] \in [Conns -> ConnType]
<1>1. conn[c] \in ConnType
  BY DEF Now, Types
<1>2. [conn[c] EXCEPT !.session = s] \in ConnType
  BY <1>1 DEF ConnType
<1>3. ASSUME NEW x \in ConnType
      PROVE  /\ [[[x EXCEPT !.state = "START_PUBLISH"] EXCEPT !.publishing = TRUE] EXCEPT !.view = "nothing"] \in ConnType
             /\ [[x EXCEPT !.state = "START_PLAY"] EXCEPT !.view = "nothing"] \in ConnType
  BY <1>3 DEF ConnType, Views
<1> QED BY <1>1, <1>2, <1>3 DEF Now, Types

LEMMA PublishStartTypes ==
  ASSUME Now, NEW r \in Reactors, PublishStart(r)
  PROVE  Now'
<1> USE DEF Now
<1> DEFINE c == frame[r].conn
           p == frame[r].path
           s == pGetSession(p)
           found == [conn EXCEPT ![c].session = s]
           told == [found EXCEPT ![c].state = "START_PUBLISH", ![c].publishing = TRUE, ![c].view = "nothing"]
<1>1. c \in Conns /\ p \in Paths
  BY DEF PublishStart, At, Types, FramesWhole
<1>2. s \in Sessions /\ With(p) \in [Paths -> Sessions \cup {None}]
  BY <1>1, GetSessionTypes DEF PublishStart
<1>3. found \in [Conns -> ConnType] /\ told \in [Conns -> ConnType]
  BY <1>1, <1>2, FoundTypes
<1>4. \/ Settle(found, sess, With(p), removals, Goto(r, Idle))
      \/ Settle(told, sess, With(p), removals, Goto(r, Handler("enter", c)))
  BY DEF PublishStart
<1> HIDE DEF c, p, s, found, told
<1>5. Types(found, sess, With(p), removals, Goto(r, Idle))
  BY <1>2, <1>3, GotoIdle DEF Types
<1>6. Types(told, sess, With(p), removals, Goto(r, Handler("enter", c)))
  BY <1>1, <1>2, <1>3, GotoHandler DEF Types
<1> QED BY <1>4, <1>5, <1>6, SettleTypes

LEMMA PlayTypes ==
  ASSUME Now, NEW r \in Reactors, NEW c \in Conns, NEW p \in Paths, Play(r, c, p)
  PROVE  Now'
<1> USE DEF Now
<1> DEFINE s == pGetSession(p)
           told == [conn EXCEPT ![c].session = s, ![c].state = "START_PLAY", ![c].view = "nothing"]
<1>1. s \in Sessions /\ With(p) \in [Paths -> Sessions \cup {None}]
  BY GetSessionTypes DEF Play
<1>2. told \in [Conns -> ConnType]
  BY <1>1, FoundTypes
<1>3. Settle(told, sess, With(p), removals, Goto(r, Handler("enter", c)))
  BY DEF Play
<1> HIDE DEF s, told
<1>4. Types(told, sess, With(p), removals, Goto(r, Handler("enter", c)))
  BY <1>1, <1>2, GotoHandler DEF Types
<1> QED BY <1>3, <1>4, SettleTypes

LEMMA EnterTypes ==
  ASSUME Now, NEW r \in Reactors, Enter(r) \/ AddSink(r)
  PROVE  Now'
<1> USE DEF Now
<1> DEFINE c == frame[r].conn
<1>1. c \in Conns
  BY DEF Enter, AddSink, At, Types, FramesWhole
<1>2. CASE Enter(r)
  <2> DEFINE f == IF conn[c].session = None THEN Handler("close", c)
                  ELSE [Handler("entering", c) EXCEPT !.sess = conn[c].session]
  <2>1. conn[c].session \in Sessions \cup {None}
    BY <1>1 DEF Types, ConnType
  <2>2. /\ f \in FrameType /\ f.at \in {"close", "entering"} /\ f.conn = c
        /\ f.at = "entering" => f.sess \in Sessions
    BY <1>1, <2>1 DEF Handler, Idle, FrameType, Places, Kinds
  <2>3. Settle(conn, sess, sessionOf, removals, Goto(r, f))
    BY <1>2 DEF Enter
  <2> HIDE DEF f
  <2>4. Types(conn, sess, sessionOf, removals, Goto(r, f))
    BY <1>1, <2>2, GotoTypes DEF Types
  <2> QED BY <2>3, <2>4, SettleTypes
<1>3. CASE AddSink(r)
  <2> DEFINE s == frame[r].sess
             new == IF conn[c].state = "START_PUBLISH"
                    THEN [sinks |-> sess[s].sinks \cup {c}, publisher |-> c, header |-> FALSE]
                    ELSE [sess[s] EXCEPT !.sinks = @ \cup {c}]
             added == [sess EXCEPT ![s] = new]
  <2>1. s \in Sessions
    BY <1>3 DEF AddSink, At, Types, FramesWhole
  <2>2. sess[s] \in SessionType
    BY <2>1 DEF Types
  <2>3. new \in SessionType
    BY <1>1, <2>2 DEF SessionType
  <2>4. Settle(conn, added, sessionOf, removals, Goto(r, Idle))
    BY <1>3 DEF AddSink
  <2> HIDE DEF new
  <2>5. added \in [Sessions -> SessionType]
    BY <2>1, <2>3 DEF Types
  <2> HIDE DEF added
  <2>6. Types(conn, added, sessionOf, removals, Goto(r, Idle))
    BY <2>5, GotoIdle DEF Types
  <2> QED BY <2>4, <2>6, SettleTypes
<1> QED BY <1>2, <1>3

LEMMA MediaTypes ==
  ASSUME Now, NEW r \in Reactors, NEW c \in Conns, NEW kind \in Kinds, Media(r, c, kind)
  PROVE  Now'
<1> USE DEF Now
<1> DEFINE s == conn[c].session
           f == [Handler("sending", c) EXCEPT !.sess = s, !.kind = kind, !.todo = sess[s].sinks]
           view == IF conn[c].state = "START_PUBLISH" THEN See(conn[c].view, kind) ELSE conn[c].view
           seen == [conn EXCEPT ![c].view = view]
           kept == [sess EXCEPT ![s].header = @ \/ kind = "header"]
<1>1. s \in Sessions \cup {None} /\ conn[c] \in ConnType /\ view \in Views
  BY SeeType DEF Types, ConnType
<1>2. \/ Settle(conn, sess, sessionOf, removals, Goto(r, Handler("close", c)))
      \/ s # None /\ Settle(seen, kept, sessionOf, removals, Goto(r, f))
  BY DEF Media
<1>3. Types(conn, sess, sessionOf, removals, Goto(r, Handler("close", c)))
  BY GotoHandler DEF Types
<1> HIDE DEF view
<1>4. ASSUME s # None PROVE Types(seen, kept, sessionOf, removals, Goto(r, f))
  <2>1. s \in Sessions /\ sess[s] \in SessionType
    BY <1>1, <1>4 DEF Types
  <2>2. [conn[c] EXCEPT !.view = view] \in ConnType
    BY <1>1 DEF ConnType
  <2>3. [sess[s] EXCEPT !.header = @ \/ kind = "header"] \in SessionType
    BY <2>1 DEF SessionType
  <2>4. f \in FrameType /\ f.at = "sending" /\ f.conn = c /\ f.sess = s
    <3>1. sess[s].sinks \in SUBSET Conns
      BY <2>1 DEF SessionType
    <3> HIDE DEF s
    <3> QED BY <2>1, <3>1 DEF Handler, Idle, FrameType, Places, Kinds
  <2>5. seen \in [Conns -> ConnType] /\ kept \in [Sessions -> SessionType]
    BY <2>1, <2>2, <2>3 DEF Types
  <2> HIDE DEF s, f, seen, kept
  <2> QED BY <2>1, <2>4, <2>5, GotoTypes DEF Types
<1> QED BY <1>2, <1>3, <1>4, SettleTypes

LEMMA SendTypes ==
  ASSUME Now, NEW r \in Reactors, NEW x \in Conns, SendTo(r, x) \/ SendFails(r, x)
  PROVE  Now'
<1> USE DEF Now
<1> DEFINE f == frame[r]
           rest == [f EXCEPT !.todo = @ \ {x}]
           fails == [f EXCEPT !.at = "failing", !.todo = @ \ {x}, !.sink = x]
           shut == [conn EXCEPT ![x].life = "closed", ![x].view = "out"]
           relayed == [conn EXCEPT ![x] = Relay(@, f.kind, sess[f.sess].header)]
<1>1. f \in FrameType /\ f.at = "sending" /\ f.conn \in Conns /\ f.sess \in Sessions
  BY DEF SendTo, SendFails, At, Types, FramesWhole
<1>2. rest \in FrameType /\ rest.at = "sending" /\ rest.conn = f.conn /\ rest.sess = f.sess
  BY <1>1 DEF FrameType
<1>3. fails \in FrameType /\ fails.at = "failing" /\ fails.conn = f.conn /\ fails.sess = f.sess /\ fails.sink = x
  BY <1>1 DEF FrameType, Places
<1>4. shut \in [Conns -> ConnType]
  BY ShutTypes
<1>5. relayed \in [Conns -> ConnType]
  <2>1. f.kind \in Kinds /\ conn[x] \in ConnType
    BY <1>1 DEF FrameType, Types
  <2>2. Relay(conn[x], f.kind, sess[f.sess].header) \in ConnType
    BY <2>1, RelayType
  <2> QED BY <2>2 DEF Types
<1>6. \/ Settle(relayed, sess, sessionOf, removals, Goto(r, rest))
      \/ Settle(conn, sess, sessionOf, removals, Goto(r, rest))
      \/ conn[x].session # None /\ Settle(shut, sess, sessionOf, Later(x), Goto(r, fails))
      \/ Settle(shut, sess, sessionOf, removals, Goto(r, rest))
  BY DEF SendTo, SendFails
<1> HIDE DEF rest, fails, shut, relayed, f
<1>7. Goto(r, rest) \in [Reactors -> FrameType] /\ FramesWhole(Goto(r, rest))
  BY <1>1, <1>2, GotoTypes
<1>8. Goto(r, fails) \in [Reactors -> FrameType] /\ FramesWhole(Goto(r, fails))
  BY <1>1, <1>3, GotoTypes
<1>9. /\ Types(relayed, sess, sessionOf, removals, Goto(r, rest))
      /\ Types(conn, sess, sessionOf, removals, Goto(r, rest))
      /\ Types(shut, sess, sessionOf, removals, Goto(r, rest))
  BY <1>4, <1>5, <1>7 DEF Types
<1>10. conn[x].session # None => Types(shut, sess, sessionOf, Later(x), Goto(r, fails))
  BY <1>4, <1>8, LaterTypes DEF Types
<1> QED BY <1>6, <1>9, <1>10, SettleTypes

LEMMA EndTypes ==
  ASSUME Now, (\E r \in Reactors : SendEnd(r)) \/ GcStart \/ Collect
  PROVE  Now'
<1> USE DEF Now
<1>1. ASSUME NEW r \in Reactors PROVE Types(conn, sess, sessionOf, removals, Goto(r, Idle))
  BY GotoIdle DEF Types
<1>2. ASSUME NEW visit \in SUBSET Sessions
      PROVE  Goto(MainOf, [Idle EXCEPT !.at = "gc", !.visit = visit]) \in [Reactors -> FrameType]
             /\ FramesWhole(Goto(MainOf, [Idle EXCEPT !.at = "gc", !.visit = visit]))
  <2> DEFINE f == [Idle EXCEPT !.at = "gc", !.visit = visit]
  <2>1. f \in FrameType /\ f.at = "gc"
    BY DEF Idle, FrameType, Places, Kinds
  <2> HIDE DEF f
  <2>2. Goto(MainOf, f) \in [Reactors -> FrameType] /\ FramesWhole(Goto(MainOf, f))
    BY <2>1, ReactorAssumption, GotoTypes
  <2> QED BY <2>2 DEF f
<1>3. CASE GcStart
  <2> DEFINE visit == Range(sessionOf) \ {None}
  <2>1. visit \in SUBSET Sessions
    BY DEF Types, Range
  <2>2. Settle(conn, sess, sessionOf, removals, Goto(MainOf, [Idle EXCEPT !.at = "gc", !.visit = visit]))
    BY <1>3 DEF GcStart
  <2> HIDE DEF visit
  <2> QED BY <1>2, <2>1, <2>2, SettleTypes DEF Types
<1>4. ASSUME NEW s \in Sessions, GcVisit(s) PROVE Now'
  <2> DEFINE f == [frame[MainOf] EXCEPT !.visit = @ \ {s}]
             left == [p \in Paths |-> IF sessionOf[p] = s /\ Clients(s) = {} THEN None ELSE sessionOf[p]]
  <2>1. f \in FrameType /\ f.at = "gc"
    BY <1>4, ReactorAssumption, ZenonT(40) DEF GcVisit, At, Types, FrameType
  <2>2. left \in [Paths -> Sessions \cup {None}]
    BY DEF Types
  <2>3. Settle(conn, sess, left, removals, Goto(MainOf, f))
    BY <1>4 DEF GcVisit
  <2> HIDE DEF f, left
  <2>4. Types(conn, sess, left, removals, Goto(MainOf, f))
    BY <2>1, <2>2, ReactorAssumption, GotoTypes DEF Types
  <2> QED BY <2>3, <2>4, SettleTypes
<1>5. CASE GcEnd
  BY <1>1, <1>5, ReactorAssumption, SettleTypes DEF GcEnd
<1>6. ASSUME NEW r \in Reactors, SendEnd(r) PROVE Now'
  BY <1>1, <1>6, SettleTypes DEF SendEnd
<1> QED BY <1>3, <1>4, <1>5, <1>6 DEF Collect

LEMMA TypesStep == Now /\ [Next]_vars => Now'
<1> SUFFICES ASSUME Now, [Next]_vars PROVE Now'
  OBVIOUS
<1>1. CASE UNCHANGED vars
  BY <1>1 DEF vars, Now
<1>2. CASE \E c \in Conns : Accept(c)
  BY <1>2, ComingTypes
<1>3. ASSUME NEW r \in Reactors, Continue(r) \/ RunRemoval(r) PROVE Now'
  BY <1>3, LeavingTypes, PublishStartTypes, EnterTypes, SendTypes, EndTypes DEF Continue
<1>4. ASSUME NEW r \in Reactors, NEW c \in Conns, Disconnect(r, c) \/ DeleteStream(r, c) PROVE Now'
  BY <1>4, ComingTypes, LeavingTypes
<1>5. ASSUME NEW r \in Reactors, NEW c \in Conns, NEW p \in Paths, Publish(r, c, p) \/ Play(r, c, p) PROVE Now'
  BY <1>5, PublishTypes, PlayTypes
<1>6. ASSUME NEW r \in Reactors, NEW c \in Conns, NEW kind \in Kinds, Media(r, c, kind) PROVE Now'
  BY <1>6, MediaTypes
<1>7. CASE GcStart \/ Collect
  BY <1>7, EndTypes
<1> QED BY <1>1, <1>2, <1>3, <1>4, <1>5, <1>6, <1>7 DEF Next

LEMMA TypesStart == Init => Now
<1> SUFFICES ASSUME Init PROVE Now
  OBVIOUS
<1>1. Fresh \in ConnType /\ Empty \in SessionType /\ <<>> \in Seq([sess : Sessions, conn : Conns])
  BY DEF Fresh, Empty, ConnType, SessionType, Views
<1>2. frame \in [Reactors -> FrameType] /\ FramesWhole(frame)
  BY IdleType DEF Init, FramesWhole
<1> QED BY <1>1, <1>2 DEF Init, Now, Types

\* Every variable keeps its type, and a handler has in its hands what it works on, whatever clients do
\* and however the handlers of the reactors interleave.
THEOREM TypeCorrect == Spec => []TypeOK
<1>1. Now => TypeOK
  BY DEF Now, Types, TypeOK
<1> QED BY <1>1, TypesStart, TypesStep, PTL DEF Spec

-----------------------------------------------------------------------------
(* What Settle makes of its values *)

\* conns2 and sessions2 are conns and sessions without what nothing holds.
Cleaned(conns, sessions, entries, timers, frames, conns2, sessions2) ==
  /\ \A c \in Conns :
       \/ /\ conns[c].life = "open" \/ (conns[c].life = "closed" /\ Held(c, timers, frames))
          /\ conns2[c].life = conns[c].life /\ conns2[c].state = conns[c].state
          /\ conns2[c].playing = conns[c].playing /\ conns2[c].key = conns[c].key
          /\ conns2[c].avc = conns[c].avc /\ conns2[c].view = conns[c].view
          /\ conns2[c].session = IF conns[c].session \in Sessions /\ InUse(conns[c].session, entries, timers, frames)
                                 THEN conns[c].session ELSE None
       \/ /\ conns[c].life = "gone" \/ (conns[c].life = "closed" /\ ~Held(c, timers, frames))
          /\ conns2[c] = Fresh
  /\ \A s \in Sessions :
       \/ /\ InUse(s, entries, timers, frames)
          /\ sessions2[s].header = sessions[s].header
          /\ \A c \in Conns : conns2[c].life # "gone" =>
               /\ c \in sessions2[s].sinks <=> c \in sessions[s].sinks
               /\ sessions2[s].publisher = c <=> sessions[s].publisher = c
          /\ \A c \in Conns : conns2[c].life = "gone" => c \notin sessions2[s].sinks /\ sessions2[s].publisher # c
       \/ ~InUse(s, entries, timers, frames) /\ sessions2[s] = Empty

LEMMA SettleCleans ==
  ASSUME NEW conns, NEW sessions, NEW entries, NEW timers, NEW frames,
         Types(conns, sessions, entries, timers, frames),
         Settle(conns, sessions, entries, timers, frames)
  PROVE  Cleaned(conns, sessions, entries, timers, frames, conn', sess')
<1> DEFINE live == {s \in Sessions : InUse(s, entries, timers, frames)}
           here == {c \in Conns : conns[c].life = "open" \/ (conns[c].life = "closed" /\ Held(c, timers, frames))}
           Weak(x, alive) == IF x \in alive THEN x ELSE None
<1>1. /\ conn' = [c \in Conns |-> IF c \in here THEN [conns[c] EXCEPT !.session = Weak(@, live)] ELSE Fresh]
      /\ sess' = [s \in Sessions |-> IF s \in live
                    THEN [sessions[s] EXCEPT !.sinks = @ \cap here, !.publisher = Weak(@, here)] ELSE Empty]
  BY DEF Settle
<1>2. \A c \in Conns : conns[c] \in ConnType
  BY DEF Types
<1>3. \A s \in Sessions : sessions[s] \in SessionType
  BY DEF Types
<1>4. \A c \in Conns : c \notin here => conn'[c] = Fresh
  BY <1>1
<1>5. ASSUME NEW c \in Conns, c \in here
      PROVE  /\ conn'[c].life = conns[c].life /\ conn'[c].state = conns[c].state
             /\ conn'[c].playing = conns[c].playing /\ conn'[c].key = conns[c].key
             /\ conn'[c].avc = conns[c].avc /\ conn'[c].view = conns[c].view
             /\ conn'[c].session = Weak(conns[c].session, live)
  <2> HIDE DEF here, live
  <2>1. conn'[c] = [conns[c] EXCEPT !.session = Weak(@, live)]
    BY <1>1, <1>5
  <2> QED BY <1>2, <2>1 DEF ConnType
<1>6. \A c \in Conns : conn'[c].life # "gone" <=> c \in here
  <2>1. \A c \in here : conns[c].life # "gone"
    OBVIOUS
  <2>2. Fresh.life = "gone"
    BY DEF Fresh
  <2> HIDE DEF here
  <2> QED BY <1>4, <1>5, <2>1, <2>2
<1>7. ASSUME NEW s \in Sessions
      PROVE  /\ s \notin live => sess'[s] = Empty
             /\ s \in live => /\ sess'[s].header = sessions[s].header
                              /\ sess'[s].sinks = sessions[s].sinks \cap here
                              /\ sess'[s].publisher = Weak(sessions[s].publisher, here)
  <2> HIDE DEF here, live
  <2> QED BY <1>1, <1>3 DEF SessionType
<1>8. None \notin Conns
  BY NoneAssumption
<1>9. ASSUME NEW c \in Conns
      PROVE  \/ /\ conns[c].life = "open" \/ (conns[c].life = "closed" /\ Held(c, timers, frames))
                /\ conn'[c].life = conns[c].life /\ conn'[c].state = conns[c].state
                /\ conn'[c].playing = conns[c].playing /\ conn'[c].key = conns[c].key
                /\ conn'[c].avc = conns[c].avc /\ conn'[c].view = conns[c].view
                /\ conn'[c].session = IF conns[c].session \in Sessions /\ InUse(conns[c].session, entries, timers, frames)
                                      THEN conns[c].session ELSE None
             \/ /\ conns[c].life = "gone" \/ (conns[c].life = "closed" /\ ~Held(c, timers, frames))
                /\ conn'[c] = Fresh
  <2>1. conns[c].life \in {"gone", "open", "closed"}
    BY <1>2 DEF ConnType
  <2>2. CASE c \in here
    <3>1. conns[c].life = "open" \/ (conns[c].life = "closed" /\ Held(c, timers, frames))
      BY <2>2
    <3>2. Weak(conns[c].session, live) = IF conns[c].session \in Sessions /\ InUse(conns[c].session, entries, timers, frames)
                                         THEN conns[c].session ELSE None
      OBVIOUS
    <3> QED BY <1>5, <2>2, <3>1, <3>2
  <2>3. CASE c \notin here
    <3>1. conns[c].life = "gone" \/ (conns[c].life = "closed" /\ ~Held(c, timers, frames))
      BY <2>1, <2>3
    <3> QED BY <1>4, <2>3, <3>1
  <2> QED BY <2>2, <2>3
<1>10. ASSUME NEW s \in Sessions
       PROVE  \/ /\ InUse(s, entries, timers, frames)
                 /\ sess'[s].header = sessions[s].header
                 /\ \A c \in Conns : conn'[c].life # "gone" =>
                      /\ c \in sess'[s].sinks <=> c \in sessions[s].sinks
                      /\ sess'[s].publisher = c <=> sessions[s].publisher = c
                 /\ \A c \in Conns : conn'[c].life = "gone" => c \notin sess'[s].sinks /\ sess'[s].publisher # c
              \/ ~InUse(s, entries, timers, frames) /\ sess'[s] = Empty
  <2>1. s \in live <=> InUse(s, entries, timers, frames)
    OBVIOUS
  <2> HIDE DEF here, live
  <2> QED BY <1>6, <1>7, <1>8, <2>1
<1> QED BY <1>9, <1>10 DEF Cleaned

LEMMA TimerTypes ==
  ASSUME NEW timers \in [Reactors -> Seq([sess : Sessions, conn : Conns])],
         NEW r \in Reactors, NEW i \in DOMAIN timers[r]
  PROVE  timers[r][i].sess \in Sessions /\ timers[r][i].conn \in Conns
<1> DEFINE E == [sess : Sessions, conn : Conns]
           q == timers[r]
<1>1. q \in Seq(E) /\ i \in DOMAIN q
  OBVIOUS
<1> HIDE DEF E, q
<1>2. q[i] \in E
  BY <1>1
<1> QED BY <1>2 DEF E, q

\* The invariants say nothing that depends on what nothing holds.
LEMMA CleanKeeps ==
  ASSUME NEW conns, NEW sessions, NEW entries, NEW timers, NEW frames, NEW conns2, NEW sessions2,
         Types(conns, sessions, entries, timers, frames),
         Types(conns2, sessions2, entries, timers, frames),
         Keeps(conns, sessions, entries, timers, frames),
         Cleaned(conns, sessions, entries, timers, frames, conns2, sessions2)
  PROVE  Keeps(conns2, sessions2, entries, timers, frames)
<1>1. /\ \A s \in Sessions, p \in Paths : entries[p] = s => InUse(s, entries, timers, frames)
      /\ \A s \in Sessions, r \in Reactors : frames[r].sess = s => InUse(s, entries, timers, frames)
      /\ \A s \in Sessions, r \in Reactors : \A i \in DOMAIN timers[r] :
           timers[r][i].sess = s => InUse(s, entries, timers, frames)
  BY DEF InUse
<1>2. /\ \A c \in Conns, r \in Reactors : frames[r].conn = c \/ frames[r].sink = c => Held(c, timers, frames)
      /\ \A c \in Conns, r \in Reactors : \A i \in DOMAIN timers[r] :
           timers[r][i].conn = c => Held(c, timers, frames)
  BY DEF Held
<1>3. /\ Fresh.life = "gone" /\ Fresh.state = "HANDSHAKE" /\ Fresh.session = None /\ Fresh.view = "out"
      /\ ~Fresh.playing /\ ~Fresh.key /\ ~Fresh.avc
  BY DEF Fresh
<1>4. Empty.sinks = {} /\ Empty.publisher = None /\ Empty.header = FALSE
  BY DEF Empty
<1>5. \A c \in Conns :
        /\ conns[c].session \in Sessions \cup {None} /\ conns2[c].session \in Sessions \cup {None}
        /\ conns[c].life \in {"gone", "open", "closed"}
  BY DEF Types, ConnType
<1>6. \A s \in Sessions :
        /\ sessions[s].publisher \in Conns \cup {None} /\ sessions2[s].publisher \in Conns \cup {None}
        /\ sessions[s].sinks \subseteq Conns /\ sessions2[s].sinks \subseteq Conns
  BY DEF Types, SessionType
<1>7. None \notin Conns /\ None \notin Sessions /\ None \notin Paths
  BY NoneAssumption
<1>8. \A r \in Reactors : \A i \in DOMAIN timers[r] : timers[r][i].sess \in Sessions /\ timers[r][i].conn \in Conns
  BY TimerTypes DEF Types
<1>17. ASSUME NEW c \in Conns, conns2[c].view # "out"
       PROVE  /\ conns[c].life = "open" /\ conns2[c].life = "open" /\ conns2[c].view = conns[c].view
              /\ conns2[c].state = conns[c].state
              /\ conns2[c].session = conns[c].session /\ conns[c].session \in Sessions
              /\ InUse(conns[c].session, entries, timers, frames)
  <2>1. conns[c].view # "out" /\ conns2[c].view = conns[c].view /\ conns2[c] # Fresh
    BY <1>3, <1>17 DEF Cleaned
  <2>2. conns[c].life = "open" /\ conns[c].session \in Sessions
    BY <1>5, <2>1 DEF Keeps, ConnsHold
  <2>3. InUse(conns[c].session, entries, timers, frames)
    BY <1>1, <2>1, <2>2 DEF Keeps, ServedHold
  <2> QED BY <2>1, <2>2, <2>3 DEF Cleaned
<1>18. ASSUME NEW c \in Conns, conns[c].view # "out" PROVE conns2[c].view = conns[c].view
  <2>1. conns[c].life = "open"
    BY <1>18 DEF Keeps, ConnsHold
  <2> QED BY <2>1 DEF Cleaned
<1>9. ConnsHold(conns2)
  BY <1>1, <1>3, <1>5, <1>7 DEF Cleaned, Keeps, ConnsHold, ServedHold
<1>10. SinksHold(conns2, sessions2)
  BY <1>3, <1>4, <1>5, <1>7 DEF Cleaned, Keeps, SinksHold
<1>11. PublishersHold(conns2, sessions2, frames)
  BY <1>3, <1>4, <1>5, <1>6, <1>7 DEF Cleaned, Keeps, PublishersHold
<1>12. TimersHold(conns2, timers)
  BY <1>1, <1>2, <1>3, <1>5, <1>7, <1>8 DEF Cleaned, Keeps, TimersHold, ConnsHold
<1>13. ServedHold(conns2, sessions2, entries, frames)
  <2> SUFFICES ASSUME NEW c \in Conns, conns2[c].view # "out"
               PROVE  /\ \E p \in Paths : entries[p] = conns2[c].session
                      /\ IF Coming(c, frames) THEN conns2[c].view = "nothing"
                                             ELSE c \in sessions2[conns2[c].session].sinks
    BY Zenon DEF ServedHold
  <2>1. /\ conns2[c].view = conns[c].view /\ conns2[c].life = "open"
        /\ conns2[c].session = conns[c].session /\ conns[c].session \in Sessions
        /\ InUse(conns[c].session, entries, timers, frames)
    BY <1>17
  <2>2. /\ \E p \in Paths : entries[p] = conns[c].session
        /\ IF Coming(c, frames) THEN conns[c].view = "nothing" ELSE c \in sessions[conns[c].session].sinks
    BY <2>1 DEF Keeps, ServedHold
  <2>3. c \in sessions[conns[c].session].sinks => c \in sessions2[conns[c].session].sinks
    BY <2>1 DEF Cleaned
  <2> QED BY <2>1, <2>2, <2>3
<1>14. HeadersHold(conns2, sessions2, timers)
  <2>1. ASSUME NEW s \in Sessions, sessions2[s].header
        PROVE  /\ sessions2[s].publisher # None
               /\ conns2[sessions2[s].publisher].view # "out" \/ Removed(s, sessions2[s].publisher, timers)
    <3> DEFINE c == sessions[s].publisher
    <3>1. sessions[s].header
      BY <1>4, <2>1 DEF Cleaned
    <3>2. c \in Conns /\ (conns[c].view # "out" \/ Removed(s, c, timers))
      BY <1>6, <3>1 DEF Keeps, HeadersHold
    <3>3. conns[c].life # "gone"
      BY <1>3, <1>7, <3>2 DEF Keeps, ConnsHold, PublishersHold
    <3>4. conns[c].view # "out" => conns2[c].view = conns[c].view /\ conns[c].life = "open"
      BY <1>18, <3>2 DEF Keeps, ConnsHold
    <3>5. Removed(s, c, timers) => Held(c, timers, frames)
      <4>1. ReactorOf[c] \in Reactors
        BY <3>2, ReactorAssumption
      <4> QED BY <1>2, <3>2, <4>1 DEF Removed
    <3>6. conns2[c].life # "gone"
      BY <1>5, <3>2, <3>3, <3>4, <3>5 DEF Cleaned
    <3>7. sessions2[s].publisher = c
      BY <1>4, <2>1, <3>2, <3>6 DEF Cleaned
    <3> QED BY <1>7, <3>2, <3>4, <3>7
  <2>2. ASSUME NEW s \in Sessions, sessions2[s].publisher # None,
               conns2[sessions2[s].publisher].view \in {"header", "key"}
        PROVE  sessions2[s].header
    <3> DEFINE c == sessions2[s].publisher
    <3>1. c \in Conns
      BY <1>6, <2>2
    <3>2. conns2[c].life = "open" /\ conns2[c].view = conns[c].view
      BY <1>17, <2>2, <3>1
    <3>3. sessions[s].publisher = c /\ sessions2[s].header = sessions[s].header
      BY <1>4, <2>2, <3>1, <3>2 DEF Cleaned
    <3> QED BY <2>2, <3>2, <3>3 DEF Keeps, HeadersHold
  <2> QED BY <2>1, <2>2, Zenon DEF HeadersHold
<1>15. PlayersHold(conns2, sessions2, frames)
  BY <1>3, <1>4, <1>5, <1>6, <1>7 DEF Cleaned, Keeps, PlayersHold
<1>16. FramesHold(conns2, sessions2, entries, frames)
  <2> SUFFICES ASSUME NEW r \in Reactors PROVE FrameHolds(conns2, sessions2, entries, frames[r])
    BY DEF FramesHold
  <2> DEFINE f == frames[r]
  <2>10. FrameHolds(conns, sessions, entries, f)
    BY DEF Keeps, FramesHold
  <2>1. /\ f.at \notin {"idle", "gc"} => f.conn \in Conns
        /\ f.at = "publish" => f.path \in Paths
        /\ f.at = "failing" => f.sink \in Conns
    BY DEF Types, FramesWhole
  <2>2. \A c \in Conns : conns[c].view = "out" => conns2[c].view = "out"
    BY <1>17
  <2>3. ASSUME f.at = "publish"
        PROVE  /\ conns2[f.conn].life = "open" /\ conns2[f.conn].state = "HANDSHAKE"
               /\ entries[f.path] # None /\ sessions2[entries[f.path]].publisher = None
    <3>1. /\ conns[f.conn].life = "open" /\ conns[f.conn].state = "HANDSHAKE"
          /\ entries[f.path] # None /\ sessions[entries[f.path]].publisher = None
      BY <2>3, <2>10 DEF FrameHolds
    <3>2. entries[f.path] \in Sessions
      BY <2>1, <2>3, <3>1 DEF Types
    <3>3. sessions2[entries[f.path]].publisher = None
      BY <1>4, <1>6, <1>7, <3>1, <3>2 DEF Cleaned
    <3> QED BY <2>1, <2>3, <3>1, <3>3 DEF Cleaned
  <2>4. ASSUME f.at \in {"enter", "entering", "sending", "failing"}
        PROVE  conns[f.conn].view # "out" /\ conns2[f.conn].view = conns[f.conn].view
               /\ conns2[f.conn].session = conns[f.conn].session /\ conns2[f.conn].state = conns[f.conn].state
    <3>1. conns[f.conn].view # "out" /\ f.conn \in Conns
      BY <2>1, <2>4, <2>10 DEF FrameHolds
    <3> HIDE DEF f
    <3>2. conns2[f.conn].view = conns[f.conn].view
      BY <1>18, <3>1
    <3> QED BY <1>17, <3>1, <3>2
  <2>5. f.at \in {"closing", "deleting"} => conns2[f.conn].view = "out"
    BY <2>1, <2>2, <2>10 DEF FrameHolds
  <2>6. f.at = "failing" => conns2[f.sink].view = "out"
    BY <2>1, <2>2, <2>10 DEF FrameHolds
  <2>7. f.at = "entering" => f.sess = conns2[f.conn].session
    BY <2>4, <2>10 DEF FrameHolds
  <2>8. f.at \in {"sending", "failing"} =>
          /\ conns2[f.conn].session = f.sess /\ conns2[f.conn].state = "START_PUBLISH"
          /\ conns2[f.conn].view = IF f.kind = "header" THEN "header" ELSE "key"
    BY <2>4, <2>10 DEF FrameHolds
  <2>9. f.at = "enter" \/ f.at = "entering" => conns2[f.conn].view # "out"
    BY <2>4
  <2> QED BY <2>3, <2>5, <2>6, <2>7, <2>8, <2>9 DEF FrameHolds
<1> QED BY <1>9, <1>10, <1>11, <1>12, <1>13, <1>14, <1>15, <1>16 DEF Keeps

LEMMA SettleKeeps ==
  ASSUME NEW conns, NEW sessions, NEW entries, NEW timers, NEW frames,
         Types(conns, sessions, entries, timers, frames), Keeps(conns, sessions, entries, timers, frames),
         Settle(conns, sessions, entries, timers, frames), Now'
  PROVE  RelayInv'
<1>1. sessionOf' = entries /\ removals' = timers /\ frame' = frames
  BY DEF Settle
<1>2. Cleaned(conns, sessions, entries, timers, frames, conn', sess')
  BY SettleCleans
<1>3. Types(conn', sess', entries, timers, frames)
  BY <1>1 DEF Now
<1>4. Keeps(conn', sess', entries, timers, frames)
  BY <1>2, <1>3, CleanKeeps
<1>5. Unheld'
  BY <1>1, <1>2 DEF Unheld, Cleaned
<1> QED BY <1>1, <1>4, <1>5 DEF RelayInv, Now

-----------------------------------------------------------------------------
(* One reactor is in one handler *)

LEMMA OneFrame ==
  ASSUME OneReactor, NEW r \in Reactors, NEW frames, NEW f, frames[r] = f
  PROVE  /\ \A c \in Conns : Coming(c, frames) <=> f.at \in {"enter", "entering"} /\ f.conn = c
         /\ \A s \in Sessions, x \in Conns :
              Awaits(s, x, frames) <=>
                f.at \in {"sending", "failing"} /\ f.sess = s /\ f.kind = "key" /\ x \in f.todo
<1>1. \A q \in Reactors : frames[q] = f
  BY DEF OneReactor
<1> QED BY <1>1 DEF Coming, Awaits

\* A reactor at rest, or one that is about to close a connection or collects, promises nothing.
LEMMA Resting ==
  ASSUME OneReactor, NEW r \in Reactors, NEW frames, frames[r].at \in {"idle", "gc", "close"}
  PROVE  /\ \A c \in Conns : ~Coming(c, frames)
         /\ \A s \in Sessions, x \in Conns : ~Awaits(s, x, frames)
         /\ \A conns, sessions, entries : FramesHold(conns, sessions, entries, frames)
<1>1. \A q \in Reactors : frames[q].at \in {"idle", "gc", "close"}
  BY DEF OneReactor
<1> QED BY <1>1 DEF Coming, Awaits, FramesHold, FrameHolds

\* From one place where nothing is promised to another.
LEMMA RestKeeps ==
  ASSUME OneReactor, RelayInv, NEW r \in Reactors, frame[r].at \in {"idle", "gc", "close"},
         NEW frames, frames[r].at \in {"idle", "gc", "close"}
  PROVE  Keeps(conn, sess, sessionOf, removals, frames)
<1>1. /\ \A c \in Conns : ~Coming(c, frame) /\ ~Coming(c, frames)
      /\ \A s \in Sessions, x \in Conns : ~Awaits(s, x, frame) /\ ~Awaits(s, x, frames)
  BY Resting
<1>2. FramesHold(conn, sess, sessionOf, frames)
  BY Resting
<1>3. PublishersHold(conn, sess, frames) /\ ServedHold(conn, sess, sessionOf, frames)
  BY <1>1 DEF RelayInv, Keeps, PublishersHold, ServedHold
<1>4. PlayersHold(conn, sess, frames)
  BY <1>1 DEF RelayInv, Keeps, PlayersHold
<1> QED BY <1>2, <1>3, <1>4 DEF RelayInv, Keeps

LEMMA GotoIs ==
  ASSUME Now, NEW r \in Reactors, NEW f
  PROVE  Goto(r, f)[r] = f
BY DEF Now, Types, Goto

LEMMA NowHolds == RelayInv => Now
BY DEF RelayInv, Now

-----------------------------------------------------------------------------
(* Coming and going *)

LEMMA AcceptKeeps ==
  ASSUME RelayInv, NEW c \in Conns, Accept(c)
  PROVE  RelayInv'
<1> DEFINE conns == [conn EXCEPT ![c] = [Fresh EXCEPT !.life = "open"]]
<1>1. Now /\ Now'
  BY NowHolds, ComingTypes
<1>2. conn[c] = Fresh /\ conn \in [Conns -> ConnType]
  BY <1>1 DEF Accept, RelayInv, Keeps, ConnsHold, Now, Types
<1>3. /\ \A x \in Conns : x # c => conns[x] = conn[x]
      /\ conns[c] = [Fresh EXCEPT !.life = "open"]
  BY <1>2
<1>4. /\ conns[c].life = "open" /\ conns[c].state = Fresh.state /\ conns[c].session = Fresh.session
      /\ conns[c].view = Fresh.view /\ conns[c].playing = Fresh.playing /\ conns[c].key = Fresh.key
      /\ conns[c].avc = Fresh.avc
  <2> DEFINE x == [Fresh EXCEPT !.life = "open"]
  <2>1. /\ x.life = "open" /\ x.state = Fresh.state /\ x.session = Fresh.session /\ x.view = Fresh.view
        /\ x.playing = Fresh.playing /\ x.key = Fresh.key /\ x.avc = Fresh.avc
    BY DEF Fresh
  <2>2. conns[c] = x
    BY <1>3
  <2> HIDE DEF x, conns
  <2> QED BY <2>1, <2>2
<1>5. Settle(conns, sess, sessionOf, removals, frame)
  BY DEF Accept
<1>6. conns \in [Conns -> ConnType]
  <2>1. [Fresh EXCEPT !.life = "open"] \in ConnType
    BY DEF Fresh, ConnType, Views
  <2> QED BY <1>2, <2>1
<1> HIDE DEF conns
<1>7. \A x \in Conns :
        /\ conns[x].state = conn[x].state /\ conns[x].session = conn[x].session /\ conns[x].view = conn[x].view
        /\ conns[x].playing = conn[x].playing /\ conns[x].key = conn[x].key /\ conns[x].avc = conn[x].avc
        /\ conn[x].life # "gone" => conns[x].life = conn[x].life
        /\ conns[x].life = "gone" => x # c
  <2> TAKE x \in Conns
  <2>1. CASE x = c
    <3>1. conn[c].life = "gone"
      BY DEF Accept
    <3> QED BY <1>2, <1>4, <2>1, <3>1
  <2>2. CASE x # c
    BY <1>3, <2>2
  <2> QED BY <2>1, <2>2
<1>8. Types(conns, sess, sessionOf, removals, frame)
  BY <1>1, <1>6 DEF Now, Types
<1> USE DEF RelayInv, Keeps
<1>9. ConnsHold(conns)
  BY <1>3, <1>7 DEF ConnsHold
<1>10. SinksHold(conns, sess) /\ PublishersHold(conns, sess, frame)
  BY <1>7 DEF SinksHold, PublishersHold
<1>11. TimersHold(conns, removals)
  BY <1>1, <1>7, TimerTypes DEF TimersHold, Now, Types
<1>12. ServedHold(conns, sess, sessionOf, frame)
  BY <1>7 DEF ServedHold
<1>13. HeadersHold(conns, sess, removals)
  BY <1>1, <1>7, ZenonT(40) DEF HeadersHold, Now, Types, SessionType
<1>14. PlayersHold(conns, sess, frame)
  BY <1>7 DEF PlayersHold
<1>15. FramesHold(conns, sess, sessionOf, frame)
  <2> SUFFICES ASSUME NEW q \in Reactors PROVE FrameHolds(conns, sess, sessionOf, frame[q])
    BY DEF FramesHold
  <2>1. FrameHolds(conn, sess, sessionOf, frame[q])
    BY DEF FramesHold
  <2> QED BY <1>1, <1>7, <2>1 DEF FrameHolds, Now, Types, FramesWhole
<1>16. Keeps(conns, sess, sessionOf, removals, frame)
  BY <1>9, <1>10, <1>11, <1>12, <1>13, <1>14, <1>15
<1> QED BY <1>1, <1>5, <1>8, <1>16, SettleKeeps

\* A step that moves a reactor between two such places and changes nothing else.
LEMMA RestStep ==
  ASSUME OneReactor, RelayInv, NEW r \in Reactors, frame[r].at \in {"idle", "gc", "close"},
         NEW f \in FrameType, f.at \in {"idle", "gc", "close"}, f.at = "close" => f.conn \in Conns,
         Settle(conn, sess, sessionOf, removals, Goto(r, f)), Now'
  PROVE  RelayInv'
<1>1. Now
  BY NowHolds
<1>2. Goto(r, f) \in [Reactors -> FrameType] /\ FramesWhole(Goto(r, f)) /\ Goto(r, f)[r] = f
  BY <1>1, GotoTypes, GotoIs
<1> DEFINE frames == Goto(r, f)
<1> HIDE DEF frames
<1>3. Types(conn, sess, sessionOf, removals, frames)
  BY <1>1, <1>2 DEF Now, Types, frames
<1>4. Keeps(conn, sess, sessionOf, removals, frames)
  BY <1>2, RestKeeps DEF frames
<1> QED BY <1>3, <1>4, SettleKeeps DEF frames

LEMMA DisconnectKeeps ==
  ASSUME OneReactor, RelayInv, NEW r \in Reactors, NEW c \in Conns, Disconnect(r, c)
  PROVE  RelayInv'
<1>1. Now'
  BY NowHolds, ComingTypes
<1>2. Handler("close", c) \in FrameType /\ Handler("close", c).at = "close" /\ Handler("close", c).conn = c
  BY HandlerType DEF Places
<1>3. frame[r].at = "idle" /\ Settle(conn, sess, sessionOf, removals, Goto(r, Handler("close", c)))
  BY DEF Disconnect, Ready, At
<1> QED BY <1>1, <1>2, <1>3, RestStep

\* The removal that Later starts comes after those that are due already.
LEMMA LaterIs ==
  ASSUME Now, NEW c \in Conns, conn[c].session # None
  PROVE  /\ \A q \in Reactors : \A i \in DOMAIN removals[q] :
              i \in DOMAIN Later(c)[q] /\ Later(c)[q][i] = removals[q][i]
         /\ \A q \in Reactors : \A i \in DOMAIN Later(c)[q] :
              \/ i \in DOMAIN removals[q] /\ Later(c)[q][i] = removals[q][i]
              \/ Later(c)[q][i] = [sess |-> conn[c].session, conn |-> c]
         /\ Removed(conn[c].session, c, Later(c))
<1> DEFINE e == [sess |-> conn[c].session, conn |-> c]
           E == [sess : Sessions, conn : Conns]
           k == ReactorOf[c]
           timers == Later(c)
<1>1. k \in Reactors /\ e \in E /\ removals \in [Reactors -> Seq(E)]
  BY ReactorAssumption DEF Now, Types, ConnType
<1>2. timers = [removals EXCEPT ![k] = Append(@, e)]
  BY DEF Later
<1> HIDE DEF e, E, k, timers
<1>3. timers[k] = Append(removals[k], e) /\ \A q \in Reactors : q # k => timers[q] = removals[q]
  BY <1>1, <1>2
<1>4. /\ DOMAIN removals[k] = 1 .. Len(removals[k]) /\ DOMAIN timers[k] = 1 .. Len(removals[k]) + 1
      /\ \A i \in 1 .. Len(removals[k]) : timers[k][i] = removals[k][i]
      /\ timers[k][Len(removals[k]) + 1] = e /\ Len(removals[k]) \in Nat
  BY <1>1, <1>3
<1>5. \A q \in Reactors : \A i \in DOMAIN removals[q] : i \in DOMAIN timers[q] /\ timers[q][i] = removals[q][i]
  <2> TAKE q \in Reactors
  <2>1. CASE q = k
    <3> SUFFICES ASSUME NEW i \in 1 .. Len(removals[k])
                 PROVE  i \in 1 .. Len(removals[k]) + 1 /\ timers[k][i] = removals[k][i]
      BY <1>4, <2>1
    <3> QED BY <1>4
  <2>2. CASE q # k
    BY <1>3, <2>2
  <2> QED BY <2>1, <2>2
<1>6. \A q \in Reactors : \A i \in DOMAIN timers[q] :
        (i \in DOMAIN removals[q] /\ timers[q][i] = removals[q][i]) \/ timers[q][i] = e
  <2> TAKE q \in Reactors
  <2>1. CASE q = k
    <3> SUFFICES ASSUME NEW i \in 1 .. Len(removals[k]) + 1
                 PROVE  (i \in 1 .. Len(removals[k]) /\ timers[k][i] = removals[k][i]) \/ timers[k][i] = e
      BY <1>4, <2>1
    <3>1. CASE i = Len(removals[k]) + 1
      BY <1>4, <3>1
    <3>2. CASE i # Len(removals[k]) + 1
      <4>1. i \in 1 .. Len(removals[k])
        BY <1>4, <3>2
      <4> QED BY <1>4, <4>1
    <3> QED BY <3>1, <3>2
  <2>2. CASE q # k
    BY <1>3, <2>2
  <2> QED BY <2>1, <2>2
<1>7. Removed(conn[c].session, c, timers)
  <2> DEFINE i == Len(removals[k]) + 1
  <2>1. i \in DOMAIN timers[k] /\ timers[k][i] = e
    BY <1>4
  <2> HIDE DEF i
  <2>2. \E j \in DOMAIN timers[k] : timers[k][j] = e
    BY <2>1
  <2> QED BY <2>2 DEF Removed, e, k
<1> QED BY <1>5, <1>6, <1>7 DEF e, timers

\* Whoever leaves is not told to play or publish any more, and unless it never came its removal is due.
LEMMA LeaveKeeps ==
  ASSUME OneReactor, RelayInv, NEW r \in Reactors, frame[r].at \in {"idle", "close"}, NEW c \in Conns,
         NEW conns \in [Conns -> ConnType], \A x \in Conns : x # c => conns[x] = conn[x],
         conns[c].life = "gone" => conns[c] = Fresh,
         conns[c].state = conn[c].state, conns[c].session = conn[c].session, conns[c].view = "out",
         conns[c].playing = conn[c].playing, conns[c].key = conn[c].key, conns[c].avc = conn[c].avc,
         NEW f \in FrameType,
         f.at \in {"idle", "closing", "deleting"}, f.at # "idle" => f.conn = c,
         NEW timers \in [Reactors -> Seq([sess : Sessions, conn : Conns])],
         \/ timers = removals /\ (conn[c].view = "out" \/ conn[c].session = None)
         \/ conn[c].session # None /\ timers = Later(c),
         Settle(conns, sess, sessionOf, timers, Goto(r, f)), Now'
  PROVE  RelayInv'
<1>1. Now
  BY NowHolds
<1> DEFINE frames == Goto(r, f)
<1>2. frames \in [Reactors -> FrameType] /\ FramesWhole(frames) /\ frames[r] = f
  BY <1>1, GotoTypes, GotoIs
<1> HIDE DEF frames
<1>3. Types(conns, sess, sessionOf, timers, frames)
  BY <1>1, <1>2 DEF Now, Types
<1>4. /\ \A x \in Conns : ~Coming(x, frame) /\ ~Coming(x, frames)
      /\ \A s \in Sessions, x \in Conns : ~Awaits(s, x, frame) /\ ~Awaits(s, x, frames)
  BY <1>2, OneFrame, Resting
<1>5. \A x \in Conns :
        /\ conns[x].state = conn[x].state /\ conns[x].session = conn[x].session
        /\ conns[x].playing = conn[x].playing /\ conns[x].key = conn[x].key /\ conns[x].avc = conn[x].avc
        /\ conns[x].view # "out" => x # c /\ conns[x].view = conn[x].view /\ conns[x].life = conn[x].life
        /\ conn[x].view = "out" => conns[x].view = "out"
        /\ conns[x].life = "gone" => conns[x] = Fresh
  BY DEF RelayInv, Keeps, ConnsHold
<1> USE DEF RelayInv, Keeps
<1>6. ConnsHold(conns)
  BY <1>5 DEF ConnsHold
<1>7. SinksHold(conns, sess) /\ PublishersHold(conns, sess, frames)
  <2>1. \A x \in Conns : conns[x].state = conn[x].state /\ conns[x].session = conn[x].session
    BY <1>5
  <2>2. \A x \in Conns : Coming(x, frame) <=> Coming(x, frames)
    BY <1>4
  <2>3. SinksHold(conns, sess)
    BY <2>1 DEF SinksHold
  <2>4. PublishersHold(conns, sess, frames)
    BY <2>1, <2>2 DEF PublishersHold
  <2> QED BY <2>3, <2>4
<1>8. /\ \A q \in Reactors : \A i \in DOMAIN removals[q] : i \in DOMAIN timers[q] /\ timers[q][i] = removals[q][i]
      /\ \A q \in Reactors : \A i \in DOMAIN timers[q] :
           \/ i \in DOMAIN removals[q] /\ timers[q][i] = removals[q][i]
           \/ timers[q][i] = [sess |-> conn[c].session, conn |-> c]
      /\ conn[c].view # "out" /\ conn[c].session # None => Removed(conn[c].session, c, timers)
  <2>1. CASE timers = removals /\ (conn[c].view = "out" \/ conn[c].session = None)
    BY <2>1
  <2>2. CASE conn[c].session # None /\ timers = Later(c)
    BY <1>1, <2>2, LaterIs
  <2> QED BY <2>1, <2>2
<1>9. TimersHold(conns, timers)
  <2> SUFFICES ASSUME NEW q \in Reactors, NEW i \in DOMAIN timers[q]
               PROVE  conns[timers[q][i].conn].session = timers[q][i].sess /\ conns[timers[q][i].conn].view = "out"
    BY DEF TimersHold
  <2>1. CASE i \in DOMAIN removals[q] /\ timers[q][i] = removals[q][i]
    <3>1. removals[q][i].conn \in Conns
      BY <1>1, <2>1, TimerTypes DEF Now, Types
    <3>2. conn[removals[q][i].conn].session = removals[q][i].sess /\ conn[removals[q][i].conn].view = "out"
      BY <2>1 DEF TimersHold
    <3> QED BY <1>5, <2>1, <3>1, <3>2
  <2>2. CASE timers[q][i] = [sess |-> conn[c].session, conn |-> c]
    BY <2>2
  <2> QED BY <1>8, <2>1, <2>2
<1>10. ServedHold(conns, sess, sessionOf, frames)
  BY <1>4, <1>5 DEF ServedHold
<1>11. HeadersHold(conns, sess, timers)
  <2> SUFFICES ASSUME NEW s \in Sessions
               PROVE  /\ sess[s].header =>
                           /\ sess[s].publisher # None
                           /\ conns[sess[s].publisher].view # "out" \/ Removed(s, sess[s].publisher, timers)
                      /\ sess[s].publisher # None /\ conns[sess[s].publisher].view \in {"header", "key"} => sess[s].header
    BY Zenon DEF HeadersHold
  <2> DEFINE p == sess[s].publisher
  <2>1. p \in Conns \cup {None}
    BY <1>1 DEF Now, Types, SessionType
  <2>2. sess[s].header => p # None /\ (conn[p].view # "out" \/ Removed(s, p, removals))
    BY DEF HeadersHold
  <2>3. p # None /\ conn[p].view \in {"header", "key"} => sess[s].header
    BY DEF HeadersHold
  <2>4. p # None => conn[p].session = s
    BY <2>1 DEF PublishersHold
  <2> HIDE DEF p
  <2>5. p # None /\ Removed(s, p, removals) => Removed(s, p, timers)
    <3>1. p # None => ReactorOf[p] \in Reactors
      BY <2>1, ReactorAssumption
    <3> QED BY <1>8, <3>1 DEF Removed
  <2>6. ASSUME sess[s].header PROVE p # None /\ (conns[p].view # "out" \/ Removed(s, p, timers))
    <3>1. p # None /\ p \in Conns
      BY <2>1, <2>2, <2>6
    <3>2. CASE p = c
      <4>1. conn[c].session = s /\ s # None
        BY <2>4, <3>1, <3>2, NoneAssumption
      <4>2. conn[c].view # "out" => Removed(s, c, timers)
        BY <1>8, <4>1
      <4> QED BY <2>2, <2>5, <2>6, <3>1, <3>2, <4>2
    <3>3. CASE p # c
      BY <2>2, <2>5, <2>6, <3>1, <3>3
    <3> QED BY <3>2, <3>3
  <2>7. p # None /\ conns[p].view \in {"header", "key"} => sess[s].header
    BY <1>5, <2>1, <2>3
  <2> QED BY <2>6, <2>7 DEF p
<1>12. PlayersHold(conns, sess, frames)
  BY <1>4, <1>5 DEF PlayersHold
<1>13. FramesHold(conns, sess, sessionOf, frames)
  BY <1>2 DEF FramesHold, FrameHolds, OneReactor
<1>14. Keeps(conns, sess, sessionOf, timers, frames)
  BY <1>6, <1>7, <1>9, <1>10, <1>11, <1>12, <1>13
<1> QED BY <1>3, <1>14, SettleKeeps DEF frames

LEMMA CloseStartKeeps ==
  ASSUME OneReactor, RelayInv, NEW r \in Reactors, CloseStart(r)
  PROVE  RelayInv'
<1> DEFINE c == frame[r].conn
           conns == [conn EXCEPT ![c].life = "closed", ![c].view = "out"]
<1>1. Now /\ Now'
  BY NowHolds, LeavingTypes
<1>2. c \in Conns /\ frame[r].at = "close"
  BY <1>1 DEF CloseStart, At, Now, Types, FramesWhole
<1>3. conns \in [Conns -> ConnType]
  BY <1>1, <1>2, ShutTypes
<1>4. conn \in [Conns -> ConnType] /\ conn[c] \in ConnType
  BY <1>1, <1>2 DEF Now, Types
<1>5. /\ \A x \in Conns : x # c => conns[x] = conn[x]
      /\ conns[c] = [[conn[c] EXCEPT !.life = "closed"] EXCEPT !.view = "out"]
  BY <1>2, <1>4
<1>6. \/ /\ conn[c].session # None
         /\ Settle(conns, sess, sessionOf, Later(c), Goto(r, Handler("closing", c)))
      \/ /\ conn[c].life # "open" \/ conn[c].session = None
         /\ Settle(conns, sess, sessionOf, removals, Goto(r, Idle))
  BY DEF CloseStart
<1> HIDE DEF c, conns
<1>7. /\ conns[c].life = "closed" /\ conns[c].view = "out"
      /\ conns[c].state = conn[c].state /\ conns[c].session = conn[c].session
      /\ conns[c].playing = conn[c].playing /\ conns[c].key = conn[c].key /\ conns[c].avc = conn[c].avc
  BY <1>4, <1>5 DEF ConnType
<1>8. conn[c].life # "open" => conn[c].view = "out"
  BY <1>2 DEF RelayInv, Keeps, ConnsHold
<1>9. conn[c].session # None => Later(c) \in [Reactors -> Seq([sess : Sessions, conn : Conns])]
  BY <1>1, <1>2, LaterTypes
<1>10. Handler("closing", c) \in FrameType /\ Handler("closing", c).at = "closing" /\ Handler("closing", c).conn = c
  BY <1>2, HandlerType DEF Places
<1>11. removals \in [Reactors -> Seq([sess : Sessions, conn : Conns])]
  BY <1>1 DEF Now, Types
<1>12. CASE conn[c].session # None /\ Settle(conns, sess, sessionOf, Later(c), Goto(r, Handler("closing", c)))
  <2> DEFINE f == Handler("closing", c)
  <2> HIDE DEF f
  <2>1. f \in FrameType /\ f.at = "closing" /\ f.conn = c
    BY <1>10 DEF f
  <2>2. Settle(conns, sess, sessionOf, Later(c), Goto(r, f))
    BY <1>12 DEF f
  <2> QED BY <1>1, <1>2, <1>3, <1>5, <1>7, <1>9, <1>12, <2>1, <2>2, LeaveKeeps
<1>13. CASE /\ conn[c].life # "open" \/ conn[c].session = None
            /\ Settle(conns, sess, sessionOf, removals, Goto(r, Idle))
  BY <1>1, <1>2, <1>3, <1>5, <1>7, <1>8, <1>11, <1>13, IdleType, LeaveKeeps
<1> QED BY <1>6, <1>12, <1>13

LEMMA DeleteStreamKeeps ==
  ASSUME OneReactor, RelayInv, NEW r \in Reactors, NEW c \in Conns, DeleteStream(r, c)
  PROVE  RelayInv'
<1> DEFINE conns == [conn EXCEPT ![c].view = "out"]
           f == Handler("deleting", c)
           g == Handler("close", c)
<1>1. Now /\ Now'
  BY NowHolds, LeavingTypes
<1>2. frame[r].at = "idle" /\ conn[c].life = "open"
  BY DEF DeleteStream, Ready, At
<1>3. conn \in [Conns -> ConnType] /\ conn[c] \in ConnType
  BY <1>1 DEF Now, Types
<1>4. /\ \A x \in Conns : x # c => conns[x] = conn[x]
      /\ conns[c] = [conn[c] EXCEPT !.view = "out"]
  BY <1>3
<1>5. conns \in [Conns -> ConnType]
  BY <1>3 DEF ConnType, Views
<1>6. \/ Settle(conn, sess, sessionOf, removals, Goto(r, g))
      \/ conn[c].session # None /\ Settle(conns, sess, sessionOf, Later(c), Goto(r, f))
  BY DEF DeleteStream
<1>7. /\ f \in FrameType /\ f.at = "deleting" /\ f.conn = c
      /\ g \in FrameType /\ g.at = "close" /\ g.conn = c
  BY HandlerType DEF Places
<1> HIDE DEF conns, f, g
<1>8. /\ conns[c].view = "out" /\ conns[c].life = "open"
      /\ conns[c].state = conn[c].state /\ conns[c].session = conn[c].session
      /\ conns[c].playing = conn[c].playing /\ conns[c].key = conn[c].key /\ conns[c].avc = conn[c].avc
  BY <1>2, <1>3, <1>4 DEF ConnType
<1>9. CASE Settle(conn, sess, sessionOf, removals, Goto(r, g))
  BY <1>1, <1>2, <1>7, <1>9, RestStep
<1>10. CASE conn[c].session # None /\ Settle(conns, sess, sessionOf, Later(c), Goto(r, f))
  <2>1. Later(c) \in [Reactors -> Seq([sess : Sessions, conn : Conns])]
    BY <1>1, <1>10, LaterTypes
  <2> QED BY <1>1, <1>2, <1>4, <1>5, <1>7, <1>8, <1>10, <2>1, LeaveKeeps
<1> QED BY <1>6, <1>9, <1>10

\* Who is stopped has left already.
LEMMA DeleteEndKeeps ==
  ASSUME OneReactor, RelayInv, NEW r \in Reactors, DeleteEnd(r)
  PROVE  RelayInv'
<1> DEFINE f == frame[r]
           c == IF f.at = "failing" THEN f.sink ELSE f.conn
           g == IF f.at = "failing" THEN [f EXCEPT !.at = "sending", !.sink = None] ELSE Idle
           conns == [conn EXCEPT ![c] = Stopped(@)]
           frames == Goto(r, g)
<1>1. Now /\ Now'
  BY NowHolds, LeavingTypes
<1>2. c \in Conns /\ f \in FrameType
  BY <1>1 DEF DeleteEnd, Now, Types, FramesWhole
<1>3. f.at \in {"closing", "deleting", "failing"} /\ Settle(conns, sess, sessionOf, removals, frames)
  BY DEF DeleteEnd
<1>4. /\ g \in FrameType /\ g.at = IF f.at = "failing" THEN "sending" ELSE "idle"
      /\ f.at = "failing" => /\ g.sess = f.sess /\ g.conn = f.conn /\ g.kind = f.kind /\ g.todo = f.todo
                             /\ f.sess \in Sessions /\ f.conn \in Conns
  BY <1>1, <1>2, <1>3, IdleType DEF FrameType, Places, Now, Types, FramesWhole
<1>5. conn \in [Conns -> ConnType] /\ conn[c] \in ConnType
  BY <1>1, <1>2 DEF Now, Types
<1>6. Stopped(conn[c]) \in ConnType
  BY <1>5, StoppedType
<1>7. conns \in [Conns -> ConnType]
  BY <1>5, <1>6
<1>8. conns[c] = Stopped(conn[c]) /\ \A x \in Conns : x # c => conns[x] = conn[x]
  BY <1>2, <1>5
<1>9. FrameHolds(conn, sess, sessionOf, f)
  BY DEF RelayInv, Keeps, FramesHold
<1>10. conn[c].view = "out"
  BY <1>3, <1>9 DEF FrameHolds
<1> HIDE DEF c, g, conns, frames, f
<1>11. /\ \A x \in Conns :
            /\ conns[x].state = conn[x].state /\ conns[x].session = conn[x].session
            /\ conns[x].view = conn[x].view /\ conns[x].life = conn[x].life /\ conns[x].avc = conn[x].avc
            /\ conns[x].playing => conn[x].playing
            /\ conns[x].key => conn[x].key
            /\ x # c => conns[x] = conn[x]
       /\ conns[c].playing = FALSE /\ conns[c].publishing = FALSE /\ conns[c].key = FALSE
  <2>1. /\ conns[c].state = conn[c].state /\ conns[c].session = conn[c].session
        /\ conns[c].view = conn[c].view /\ conns[c].life = conn[c].life /\ conns[c].avc = conn[c].avc
        /\ conns[c].playing = FALSE /\ conns[c].publishing = FALSE /\ conns[c].key = FALSE
    BY <1>5, <1>8 DEF Stopped, ConnType
  <2> QED BY <1>8, <2>1
<1>12. conn[c] = Fresh => conns[c] = Fresh
  <2>1. Stopped(Fresh) = Fresh
    <3>1. Fresh \in ConnType
      BY DEF Fresh, ConnType, Views
    <3>2. Fresh.playing = FALSE /\ Fresh.publishing = FALSE /\ Fresh.key = FALSE
      BY DEF Fresh
    <3> QED BY <3>1, <3>2 DEF Stopped, ConnType
  <2> QED BY <1>8, <2>1
<1>13. frames \in [Reactors -> FrameType] /\ FramesWhole(frames) /\ frames[r] = g
  BY <1>1, <1>4, GotoTypes, GotoIs DEF frames
<1>14. Types(conns, sess, sessionOf, removals, frames)
  BY <1>1, <1>7, <1>13 DEF Now, Types
<1>15. /\ \A x \in Conns : ~Coming(x, frame) /\ ~Coming(x, frames)
       /\ \A s \in Sessions, x \in Conns : Awaits(s, x, frame) => Awaits(s, x, frames)
  BY <1>3, <1>4, <1>13, OneFrame DEF f
<1> USE DEF RelayInv, Keeps
<1>16. ConnsHold(conns)
  <2> SUFFICES ASSUME NEW y \in Conns
               PROVE LET x == conns[y] IN
        /\ x.life = "gone" => x = Fresh
        /\ x.state = "HANDSHAKE" => x.session = None /\ x.view = "out" /\ ~x.playing /\ ~x.key /\ ~x.avc
        /\ x.view # "out" => x.life = "open" /\ x.session # None
        /\ x.view # "early"
        /\ x.state = "START_PLAY" /\ x.view # "out" =>
             IF x.playing THEN x.avc /\ x.view # "nothing" /\ (x.key \/ x.view = "header")
                          ELSE x.view = "nothing" /\ ~x.key /\ ~x.avc
    BY Zenon DEF ConnsHold
  <2>1. CASE y = c
    BY <1>2, <1>10, <1>11, <1>12, <2>1 DEF ConnsHold
  <2>2. CASE y # c
    BY <1>11, <2>2 DEF ConnsHold
  <2> QED BY <2>1, <2>2
<1>17. SinksHold(conns, sess)
  BY <1>11 DEF SinksHold
<1>18. PublishersHold(conns, sess, frames)
  BY <1>11, <1>15 DEF PublishersHold
<1>19. TimersHold(conns, removals)
  <2>1. \A q \in Reactors : \A i \in DOMAIN removals[q] : removals[q][i].conn \in Conns
    BY <1>1, TimerTypes DEF Now, Types
  <2> QED BY <1>11, <2>1 DEF TimersHold
<1>20. ServedHold(conns, sess, sessionOf, frames)
  BY <1>11, <1>15 DEF ServedHold
<1>21. HeadersHold(conns, sess, removals)
  BY <1>1, <1>11 DEF HeadersHold, Now, Types, SessionType
<1>22. PlayersHold(conns, sess, frames)
  BY <1>11, <1>15 DEF PlayersHold
<1>23. FramesHold(conns, sess, sessionOf, frames)
  <2>1. FrameHolds(conns, sess, sessionOf, g)
    <3>1. CASE f.at = "failing"
      BY <1>4, <1>9, <1>11, <3>1 DEF FrameHolds
    <3>2. CASE f.at # "failing"
      BY <1>4, <3>2 DEF FrameHolds
    <3> QED BY <3>1, <3>2
  <2> QED BY <1>13, <2>1 DEF FramesHold, OneReactor
<1>24. Keeps(conns, sess, sessionOf, removals, frames)
  BY <1>16, <1>17, <1>18, <1>19, <1>20, <1>21, <1>22, <1>23
<1> QED BY <1>1, <1>3, <1>14, <1>24, SettleKeeps

\* The removal of who has left does not touch who is there; that of a publisher takes its header along.
LEMMA RunRemovalKeeps ==
  ASSUME OneReactor, RelayInv, NEW r \in Reactors, RunRemoval(r)
  PROVE  RelayInv'
<1> DEFINE q == removals[r]
           t == Head(q).sess
           c == Head(q).conn
           sessions == [sess EXCEPT ![t] = RemoveSink(t, c)]
           timers == [removals EXCEPT ![r] = Tail(@)]
           E == [sess : Sessions, conn : Conns]
<1>1. Now /\ Now'
  BY NowHolds, LeavingTypes
<1>2. q \in Seq(E) /\ q # <<>> /\ frame[r].at = "idle"
  BY <1>1 DEF RunRemoval, At, Now, Types
<1>3. Settle(conn, sessions, sessionOf, timers, frame)
  BY DEF RunRemoval
<1>4. t \in Sessions /\ c \in Conns /\ Head(q) = q[1] /\ Head(q) = [sess |-> t, conn |-> c]
  <2> HIDE DEF E, q
  <2>1. Head(q) \in E /\ Head(q) = q[1]
    BY <1>2
  <2> QED BY <2>1 DEF E
<1>5. sess[t] \in SessionType /\ sess \in [Sessions -> SessionType] /\ removals \in [Reactors -> Seq(E)]
  BY <1>1, <1>4 DEF Now, Types
<1>6. RemoveSink(t, c) \in SessionType
  BY <1>5 DEF RemoveSink, SessionType
<1>7. /\ \A s \in Sessions : s # t => sessions[s] = sess[s]
      /\ sessions[t] = RemoveSink(t, c)
  BY <1>4, <1>5
<1>8. /\ sessions[t].sinks = sess[t].sinks \ {c} /\ sessions[t].publisher = sess[t].publisher
      /\ sessions[t].header <=> sess[t].header /\ conn[c].state # "START_PUBLISH"
  <2> HIDE DEF sessions, t, c
  <2> QED BY <1>5, <1>7 DEF RemoveSink, SessionType
<1>9. timers[r] = Tail(q) /\ \A x \in Reactors : x # r => timers[x] = removals[x]
  BY <1>5
<1>10. /\ \A i \in DOMAIN timers[r] : i + 1 \in DOMAIN q /\ timers[r][i] = q[i + 1]
       /\ \A i \in DOMAIN q : i = 1 \/ (i - 1 \in DOMAIN timers[r] /\ timers[r][i - 1] = q[i])
  <2> HIDE DEF E, q, timers
  <2> QED BY <1>2, <1>9
<1>11. Types(conn, sessions, sessionOf, timers, frame)
  <2>1. timers \in [Reactors -> Seq(E)]
    <3>1. Tail(q) \in Seq(E)
      <4> HIDE DEF E, q
      <4> QED BY <1>2
    <3> HIDE DEF E
    <3> QED BY <1>5, <3>1
  <2>2. sessions \in [Sessions -> SessionType]
    BY <1>5, <1>6
  <2> HIDE DEF sessions, timers
  <2> QED BY <1>1, <2>1, <2>2 DEF Now, Types
<1> HIDE DEF sessions, timers, t, c
<1> USE DEF RelayInv, Keeps
<1>12. conn[c].session = t /\ conn[c].view = "out"
  <2>1. 1 \in DOMAIN q
    <3> HIDE DEF E, q
    <3> QED BY <1>2
  <2>2. conn[q[1].conn].session = q[1].sess /\ conn[q[1].conn].view = "out"
    BY <2>1 DEF TimersHold
  <2> QED BY <1>4, <2>2 DEF t, c
<1> HIDE DEF q
<1>13. \A x \in Conns : ~Coming(x, frame)
  BY <1>2, Resting
<1>14. conn[c].state = "START_PUBLISH" => sess[t].publisher = c
  BY <1>4, <1>12, <1>13 DEF PublishersHold
<1>15. \A s \in Sessions : sess[s].publisher \in Conns \cup {None} /\ sess[s].sinks \subseteq Conns
  BY <1>5 DEF SessionType
<1>16. SinksHold(conn, sessions)
  BY <1>7, <1>8 DEF SinksHold
<1>17. PublishersHold(conn, sessions, frame)
  BY <1>7, <1>8 DEF PublishersHold
<1>18. TimersHold(conn, timers)
  <2> SUFFICES ASSUME NEW k \in Reactors, NEW i \in DOMAIN timers[k]
               PROVE  conn[timers[k][i].conn].session = timers[k][i].sess /\ conn[timers[k][i].conn].view = "out"
    BY DEF TimersHold
  <2>1. k = r
    BY DEF OneReactor
  <2>2. i + 1 \in DOMAIN removals[k] /\ timers[k][i] = removals[k][i + 1]
    BY <1>10, <2>1 DEF q
  <2> QED BY <2>2 DEF TimersHold
<1>19. ServedHold(conn, sessions, sessionOf, frame)
  <2> SUFFICES ASSUME NEW x \in Conns, conn[x].view # "out"
               PROVE  /\ \E p \in Paths : sessionOf[p] = conn[x].session
                      /\ IF Coming(x, frame) THEN conn[x].view = "nothing" ELSE x \in sessions[conn[x].session].sinks
    BY Zenon DEF ServedHold
  <2>1. x \in sess[conn[x].session].sinks /\ \E p \in Paths : sessionOf[p] = conn[x].session
    BY <1>13 DEF ServedHold
  <2>2. conn[x].session \in Sessions
    BY <1>1, <2>1, NoneAssumption DEF Now, Types, ConnType, ConnsHold
  <2>3. x # c
    BY <1>12
  <2> QED BY <1>7, <1>8, <1>13, <2>1, <2>2, <2>3
<1>20. HeadersHold(conn, sessions, timers)
  <2> SUFFICES ASSUME NEW s \in Sessions
               PROVE  /\ sessions[s].header =>
                           /\ sessions[s].publisher # None
                           /\ conn[sessions[s].publisher].view # "out" \/ Removed(s, sessions[s].publisher, timers)
                      /\ sessions[s].publisher # None /\ conn[sessions[s].publisher].view \in {"header", "key"} => sessions[s].header
    BY Zenon DEF HeadersHold
  <2> DEFINE p == sess[s].publisher
  <2>1. sessions[s].publisher = p /\ p \in Conns \cup {None}
    BY <1>7, <1>8, <1>15
  <2>2. sess[s].header => p # None /\ (conn[p].view # "out" \/ Removed(s, p, removals))
    BY DEF HeadersHold
  <2>3. p # None /\ conn[p].view \in {"header", "key"} => sess[s].header
    BY DEF HeadersHold
  <2>4. p # None => conn[p].session = s /\ conn[p].state = "START_PUBLISH"
    BY <2>1 DEF PublishersHold
  <2> HIDE DEF p
  <2>5. sessions[s].header => sess[s].header /\ (s = t => conn[c].state # "START_PUBLISH")
    BY <1>7, <1>8
  <2>6. ASSUME sessions[s].header PROVE conn[p].view # "out" \/ Removed(s, p, timers)
    <3>1. p # None /\ p \in Conns /\ conn[p].state = "START_PUBLISH"
      BY <2>1, <2>2, <2>4, <2>5, <2>6
    <3>2. CASE Removed(s, p, removals)
      <4>1. ReactorOf[p] = r
        BY <3>1, ReactorAssumption DEF OneReactor
      <4>2. PICK i \in DOMAIN q : q[i] = [sess |-> s, conn |-> p]
        BY <3>2, <4>1 DEF Removed, q
      <4>3. i # 1
        <5>1. i = 1 => [sess |-> s, conn |-> p] = [sess |-> t, conn |-> c]
          BY <1>4, <4>2
        <5>2. i = 1 => s = t /\ p = c
          BY <5>1
        <5> QED BY <2>5, <2>6, <3>1, <5>2
      <4>4. i - 1 \in DOMAIN timers[r] /\ timers[r][i - 1] = [sess |-> s, conn |-> p]
        BY <1>10, <4>2, <4>3
      <4> QED BY <4>1, <4>4 DEF Removed
    <3> QED BY <2>2, <2>5, <2>6, <3>2
  <2>7. ASSUME p # None, conn[p].view \in {"header", "key"} PROVE sessions[s].header
    <3>1. sess[s].header
      BY <2>3, <2>7
    <3>2. s = t => conn[c].state # "START_PUBLISH"
      BY <1>12, <1>14, <2>7 DEF p
    <3> QED BY <1>7, <1>8, <3>1, <3>2
  <2> QED BY <2>1, <2>2, <2>5, <2>6, <2>7
<1>21. PlayersHold(conn, sessions, frame)
  BY <1>7, <1>8 DEF PlayersHold
<1>22. FramesHold(conn, sessions, sessionOf, frame)
  BY <1>2, Resting
<1>23. Keeps(conn, sessions, sessionOf, timers, frame)
  BY <1>16, <1>17, <1>18, <1>19, <1>20, <1>21, <1>22
<1> QED BY <1>1, <1>3, <1>11, <1>23, SettleKeeps

-----------------------------------------------------------------------------
(* Publish and play *)

\* pGetSession makes a session only when there is none, and of one that is as it was at first.
LEMMA GetSessionIs ==
  ASSUME RelayInv, NEW p \in Paths, CanGetSession(p)
  PROVE  /\ With(p)[p] = pGetSession(p) /\ pGetSession(p) \in Sessions
         /\ \A q \in Paths : sessionOf[q] # None => With(p)[q] = sessionOf[q]
         /\ sessionOf[p] # None => pGetSession(p) = sessionOf[p]
         /\ sessionOf[p] = None => sess[pGetSession(p)] = Empty
<1>1. Now
  BY NowHolds
<1>2. pGetSession(p) \in Sessions
  BY <1>1, GetSessionTypes
<1>3. sessionOf \in [Paths -> Sessions \cup {None}]
  BY <1>1 DEF Now, Types
<1>4. sessionOf[p] = None => pGetSession(p) \in Unused
  BY DEF CanGetSession, pGetSession
<1>5. \A s \in Unused : sess[s] = Empty
  BY DEF RelayInv, Unheld, Unused
<1> QED BY <1>2, <1>3, <1>4, <1>5 DEF With, pGetSession

\* conns is conn but for c, which was told that it plays or publishes and is to enter s.
Tells(c, s, conns) ==
  /\ \A x \in Conns : x # c => conns[x] = conn[x]
  /\ conns[c].life = "open" /\ conns[c].state \in {"START_PLAY", "START_PUBLISH"}
  /\ conns[c].session = s /\ conns[c].view = "nothing"
  /\ conns[c].playing = conn[c].playing /\ conns[c].key = conn[c].key /\ conns[c].avc = conn[c].avc
  /\ conns[c].state = "START_PUBLISH" => sess[s].publisher = None

\* The map of sessions has s, and all it had before.
Adds(s, entries) ==
  /\ \E p \in Paths : entries[p] = s
  /\ \A p \in Paths : sessionOf[p] # None => entries[p] = sessionOf[p]

\* Who is told that it plays or publishes has not done so before, and enters a session that is its path's.
LEMMA TellKeeps ==
  ASSUME OneReactor, RelayInv, NEW r \in Reactors, frame[r].at \in {"idle", "publish"},
         NEW c \in Conns, conn[c].life = "open", conn[c].state = "HANDSHAKE", NEW s \in Sessions,
         NEW conns \in [Conns -> ConnType], Tells(c, s, conns),
         NEW entries \in [Paths -> Sessions \cup {None}], Adds(s, entries),
         NEW f \in FrameType, f.at = "enter", f.conn = c,
         Settle(conns, sess, entries, removals, Goto(r, f)), Now'
  PROVE  RelayInv'
<1> DEFINE frames == Goto(r, f)
<1>1. Now
  BY NowHolds
<1>2. frames \in [Reactors -> FrameType] /\ FramesWhole(frames) /\ frames[r] = f
  BY <1>1, GotoTypes, GotoIs
<1> HIDE DEF frames
<1>3. Types(conns, sess, entries, removals, frames)
  BY <1>1, <1>2 DEF Now, Types
<1>4. /\ \A x \in Conns : ~Coming(x, frame)
      /\ \A x \in Conns : Coming(x, frames) <=> x = c
      /\ \A t \in Sessions, x \in Conns : ~Awaits(t, x, frame) /\ ~Awaits(t, x, frames)
  BY <1>2, OneFrame
<1>5. None \notin Sessions
  BY NoneAssumption
<1> USE DEF RelayInv, Keeps, Tells, Adds
<1>6. conn[c].session = None /\ conn[c].view = "out" /\ ~conn[c].playing /\ ~conn[c].key /\ ~conn[c].avc
  BY DEF ConnsHold
<1>7. /\ \A t \in Sessions : c \notin sess[t].sinks /\ sess[t].publisher # c
      /\ \A q \in Reactors : \A i \in DOMAIN removals[q] : removals[q][i].conn # c
  <2>1. \A t \in Sessions : c \notin sess[t].sinks
    BY <1>5, <1>6 DEF SinksHold
  <2>2. \A t \in Sessions : sess[t].publisher # c
    BY <1>5, <1>6 DEF PublishersHold
  <2>3. \A q \in Reactors : \A i \in DOMAIN removals[q] : removals[q][i].conn # c
    <3>1. \A q \in Reactors : \A i \in DOMAIN removals[q] : removals[q][i].sess \in Sessions
      BY <1>1, TimerTypes DEF Now, Types
    <3> QED BY <1>5, <1>6, <3>1 DEF TimersHold
  <2> QED BY <2>1, <2>2, <2>3
<1>8. ConnsHold(conns)
  BY <1>5, <1>6 DEF ConnsHold
<1>9. SinksHold(conns, sess)
  BY <1>7 DEF SinksHold
<1>10. PublishersHold(conns, sess, frames)
  BY <1>4, <1>7 DEF PublishersHold
<1>11. TimersHold(conns, removals)
  <2>1. \A q \in Reactors : \A i \in DOMAIN removals[q] : removals[q][i].conn \in Conns
    BY <1>1, TimerTypes DEF Now, Types
  <2> QED BY <1>7, <2>1 DEF TimersHold
<1>12. ServedHold(conns, sess, entries, frames)
  <2> SUFFICES ASSUME NEW x \in Conns, conns[x].view # "out"
               PROVE  /\ \E p \in Paths : entries[p] = conns[x].session
                      /\ IF Coming(x, frames) THEN conns[x].view = "nothing" ELSE x \in sess[conns[x].session].sinks
    BY Zenon DEF ServedHold
  <2>1. CASE x = c
    BY <1>4, <2>1
  <2>2. CASE x # c
    <3>1. /\ x \in sess[conn[x].session].sinks
          /\ \E p \in Paths : sessionOf[p] = conn[x].session
          /\ conn[x].session # None
      BY <1>4, <2>2 DEF ServedHold, ConnsHold
    <3> QED BY <1>4, <2>2, <3>1
  <2> QED BY <2>1, <2>2
<1>13. HeadersHold(conns, sess, removals)
  BY <1>1, <1>7 DEF HeadersHold, Now, Types, SessionType
<1>14. PlayersHold(conns, sess, frames)
  BY <1>4, <1>7 DEF PlayersHold
<1>15. FramesHold(conns, sess, entries, frames)
  BY <1>2 DEF FramesHold, FrameHolds, OneReactor
<1>16. Keeps(conns, sess, entries, removals, frames)
  BY <1>8, <1>9, <1>10, <1>11, <1>12, <1>13, <1>14, <1>15
<1> QED BY <1>3, <1>16, SettleKeeps DEF frames

LEMMA PlayKeeps ==
  ASSUME OneReactor, RelayInv, NEW r \in Reactors, NEW c \in Conns, NEW p \in Paths,
         conn[c].state = "HANDSHAKE", Play(r, c, p)
  PROVE  RelayInv'
<1> DEFINE s == pGetSession(p)
           f == Handler("enter", c)
           entries == With(p)
           conns == [conn EXCEPT ![c].session = s, ![c].state = "START_PLAY", ![c].view = "nothing"]
<1>1. Now /\ Now'
  BY NowHolds, PlayTypes
<1>2. CanGetSession(p) /\ frame[r].at = "idle" /\ conn[c].life = "open"
  BY DEF Play, Ready, At
<1>3. /\ s \in Sessions /\ entries[p] = s
      /\ \A q \in Paths : sessionOf[q] # None => entries[q] = sessionOf[q]
  BY <1>2, GetSessionIs
<1>4. entries \in [Paths -> Sessions \cup {None}]
  BY <1>1, <1>2, GetSessionTypes
<1>5. f \in FrameType /\ f.at = "enter" /\ f.conn = c
  BY HandlerType DEF Places
<1>6. Settle(conns, sess, entries, removals, Goto(r, f))
  BY DEF Play
<1>7. conn \in [Conns -> ConnType] /\ conn[c] \in ConnType
  BY <1>1 DEF Now, Types
<1> HIDE DEF s, f, entries
<1>8. conns \in [Conns -> ConnType]
  BY <1>1, <1>3, FoundTypes
<1>9. /\ \A x \in Conns : x # c => conns[x] = conn[x]
      /\ conns[c] = [[[conn[c] EXCEPT !.session = s] EXCEPT !.state = "START_PLAY"] EXCEPT !.view = "nothing"]
  BY <1>7
<1> HIDE DEF conns
<1>10. /\ conns[c].life = conn[c].life /\ conns[c].state = "START_PLAY" /\ conns[c].session = s
       /\ conns[c].view = "nothing"
       /\ conns[c].playing = conn[c].playing /\ conns[c].key = conn[c].key /\ conns[c].avc = conn[c].avc
  BY <1>7, <1>9 DEF ConnType
<1>11. Tells(c, s, conns) /\ Adds(s, entries) /\ frame[r].at \in {"idle", "publish"}
  BY <1>2, <1>3, <1>9, <1>10 DEF Tells, Adds
<1> QED BY <1>1, <1>2, <1>3, <1>4, <1>5, <1>6, <1>8, <1>11, TellKeeps

LEMMA PublishStartKeeps ==
  ASSUME OneReactor, RelayInv, NEW r \in Reactors, PublishStart(r)
  PROVE  RelayInv'
<1> DEFINE c == frame[r].conn
           p == frame[r].path
           s == pGetSession(p)
           f == Handler("enter", c)
           entries == With(p)
           conns == [[conn EXCEPT ![c].session = s]
                       EXCEPT ![c].state = "START_PUBLISH", ![c].publishing = TRUE, ![c].view = "nothing"]
<1>1. Now /\ Now'
  BY NowHolds, PublishStartTypes
<1>2. CanGetSession(p) /\ frame[r].at = "publish"
  BY DEF PublishStart, At
<1>3. c \in Conns /\ p \in Paths
  BY <1>1, <1>2 DEF Now, Types, FramesWhole
<1>4. /\ conn[c].life = "open" /\ conn[c].state = "HANDSHAKE"
      /\ sessionOf[p] # None /\ sess[sessionOf[p]].publisher = None
  BY <1>2 DEF RelayInv, Keeps, FramesHold, FrameHolds
<1>5. /\ s \in Sessions /\ entries[p] = s /\ s = sessionOf[p]
      /\ \A q \in Paths : sessionOf[q] # None => entries[q] = sessionOf[q]
  BY <1>2, <1>3, <1>4, GetSessionIs
<1>6. entries \in [Paths -> Sessions \cup {None}]
  BY <1>1, <1>2, <1>3, GetSessionTypes
<1>7. f \in FrameType /\ f.at = "enter" /\ f.conn = c
  BY <1>3, HandlerType DEF Places
<1>8. Settle(conns, sess, entries, removals, Goto(r, f))
  BY <1>4 DEF PublishStart
<1>9. conn \in [Conns -> ConnType] /\ conn[c] \in ConnType
  BY <1>1, <1>3 DEF Now, Types
<1> HIDE DEF c, p, s, f, entries
<1>10. conns \in [Conns -> ConnType]
  BY <1>1, <1>3, <1>5, FoundTypes
<1>11. /\ \A x \in Conns : x # c => conns[x] = conn[x]
       /\ conns[c] = [[[[conn[c] EXCEPT !.session = s] EXCEPT !.state = "START_PUBLISH"] EXCEPT !.publishing = TRUE]
                        EXCEPT !.view = "nothing"]
  BY <1>3, <1>9
<1> HIDE DEF conns
<1>12. /\ conns[c].life = conn[c].life /\ conns[c].state = "START_PUBLISH" /\ conns[c].session = s
       /\ conns[c].view = "nothing"
       /\ conns[c].playing = conn[c].playing /\ conns[c].key = conn[c].key /\ conns[c].avc = conn[c].avc
  BY <1>9, <1>11 DEF ConnType
<1>13. Tells(c, s, conns) /\ Adds(s, entries) /\ frame[r].at \in {"idle", "publish"}
  BY <1>2, <1>3, <1>4, <1>5, <1>11, <1>12 DEF Tells, Adds
<1> QED BY <1>1, <1>3, <1>4, <1>5, <1>6, <1>7, <1>8, <1>10, <1>13, TellKeeps

LEMMA PublishKeeps ==
  ASSUME OneReactor, RelayInv, NEW r \in Reactors, NEW c \in Conns, NEW p \in Paths,
         conn[c].state = "HANDSHAKE", Publish(r, c, p)
  PROVE  RelayInv'
<1> DEFINE s == pGetSession(p)
           f == IF sess[s].publisher # None \/ conn[c].state = "START_PUBLISH"
                THEN Handler("close", c)
                ELSE [Handler("publish", c) EXCEPT !.path = p]
           entries == With(p)
           frames == Goto(r, f)
<1>1. Now /\ Now'
  BY NowHolds, PublishTypes
<1>2. CanGetSession(p) /\ frame[r].at = "idle" /\ conn[c].life = "open"
  BY DEF Publish, Ready, At
<1>3. /\ s \in Sessions /\ entries[p] = s
      /\ \A q \in Paths : sessionOf[q] # None => entries[q] = sessionOf[q]
  BY <1>2, GetSessionIs
<1>4. entries \in [Paths -> Sessions \cup {None}]
  BY <1>1, <1>2, GetSessionTypes
<1>5. Settle(conn, sess, entries, removals, frames)
  BY DEF Publish
<1>6. /\ f \in FrameType /\ f.conn = c
      /\ f.at = "close" \/ (f.at = "publish" /\ f.path = p /\ sess[s].publisher = None)
  BY DEF Handler, Idle, FrameType, Places, Kinds
<1> HIDE DEF s, f, entries, frames
<1>7. frames \in [Reactors -> FrameType] /\ FramesWhole(frames) /\ frames[r] = f
  BY <1>1, <1>6, GotoTypes, GotoIs DEF frames
<1>8. Types(conn, sess, entries, removals, frames)
  BY <1>1, <1>4, <1>7 DEF Now, Types
<1>9. /\ \A x \in Conns : ~Coming(x, frame) /\ ~Coming(x, frames)
      /\ \A t \in Sessions, x \in Conns : ~Awaits(t, x, frame) /\ ~Awaits(t, x, frames)
  BY <1>2, <1>6, <1>7, OneFrame
<1> USE DEF RelayInv, Keeps
<1>10. PublishersHold(conn, sess, frames)
  BY <1>9 DEF PublishersHold
<1>11. PlayersHold(conn, sess, frames)
  BY <1>9 DEF PlayersHold
<1>12. ServedHold(conn, sess, entries, frames)
  <2> SUFFICES ASSUME NEW x \in Conns, conn[x].view # "out"
               PROVE  /\ \E q \in Paths : entries[q] = conn[x].session
                      /\ IF Coming(x, frames) THEN conn[x].view = "nothing" ELSE x \in sess[conn[x].session].sinks
    BY Zenon DEF ServedHold
  <2>1. /\ x \in sess[conn[x].session].sinks
        /\ \E q \in Paths : sessionOf[q] = conn[x].session
        /\ conn[x].session # None
    BY <1>9 DEF ServedHold, ConnsHold
  <2> QED BY <1>3, <1>9, <2>1
<1>13. FramesHold(conn, sess, entries, frames)
  <2>1. FrameHolds(conn, sess, entries, f)
    <3>1. s # None
      BY <1>3, NoneAssumption
    <3> QED BY <1>2, <1>3, <1>6, <3>1 DEF FrameHolds
  <2> QED BY <1>7, <2>1 DEF FramesHold, OneReactor
<1>14. Keeps(conn, sess, entries, removals, frames)
  BY <1>10, <1>11, <1>12, <1>13
<1> QED BY <1>1, <1>5, <1>8, <1>14, SettleKeeps

\* The session is still there: nobody collects between the two halves of the handler.
LEMMA EnterKeeps ==
  ASSUME OneReactor, RelayInv, NEW r \in Reactors, Enter(r)
  PROVE  RelayInv'
<1> DEFINE c == frame[r].conn
           f == [Handler("entering", c) EXCEPT !.sess = conn[c].session]
           frames == Goto(r, f)
<1>1. Now /\ Now'
  BY NowHolds, EnterTypes
<1>2. c \in Conns /\ frame[r].at = "enter"
  BY <1>1 DEF Enter, At, Now, Types, FramesWhole
<1>3. conn[c].view # "out" /\ conn[c].session # None
  BY <1>2 DEF RelayInv, Keeps, FramesHold, FrameHolds, ConnsHold
<1>4. conn[c].session \in Sessions
  BY <1>1, <1>2, <1>3 DEF Now, Types, ConnType
<1>5. Settle(conn, sess, sessionOf, removals, frames)
  BY <1>3 DEF Enter
<1>6. f \in FrameType /\ f.at = "entering" /\ f.conn = c /\ f.sess = conn[c].session
  BY <1>2, <1>4 DEF Handler, Idle, FrameType, Places, Kinds
<1> HIDE DEF c, f, frames
<1>7. frames \in [Reactors -> FrameType] /\ FramesWhole(frames) /\ frames[r] = f
  BY <1>1, <1>2, <1>4, <1>6, GotoTypes, GotoIs DEF frames
<1>8. Types(conn, sess, sessionOf, removals, frames)
  BY <1>1, <1>7 DEF Now, Types
<1>9. /\ \A x \in Conns : Coming(x, frame) <=> Coming(x, frames)
      /\ \A t \in Sessions, x \in Conns : ~Awaits(t, x, frame) /\ ~Awaits(t, x, frames)
  BY <1>2, <1>6, <1>7, OneFrame DEF c
<1> USE DEF RelayInv, Keeps
<1>10. PublishersHold(conn, sess, frames)
  BY <1>9 DEF PublishersHold
<1>11. PlayersHold(conn, sess, frames)
  BY <1>9 DEF PlayersHold
<1>12. ServedHold(conn, sess, sessionOf, frames)
  BY <1>9 DEF ServedHold
<1>13. FramesHold(conn, sess, sessionOf, frames)
  BY <1>3, <1>6, <1>7 DEF FramesHold, FrameHolds, OneReactor
<1>14. Keeps(conn, sess, sessionOf, removals, frames)
  BY <1>10, <1>11, <1>12, <1>13
<1> QED BY <1>1, <1>5, <1>8, <1>14, SettleKeeps

\* A publisher enters a session that has none, and its header starts anew.
LEMMA AddSinkKeeps ==
  ASSUME OneReactor, RelayInv, NEW r \in Reactors, AddSink(r)
  PROVE  RelayInv'
<1> DEFINE c == frame[r].conn
           s == frame[r].sess
           new == IF conn[c].state = "START_PUBLISH"
                  THEN [sinks |-> sess[s].sinks \cup {c}, publisher |-> c, header |-> FALSE]
                  ELSE [sess[s] EXCEPT !.sinks = @ \cup {c}]
           sessions == [sess EXCEPT ![s] = new]
           frames == Goto(r, Idle)
<1>1. Now /\ Now'
  BY NowHolds, EnterTypes
<1>2. frame[r].at = "entering" /\ c \in Conns /\ s \in Sessions
  BY <1>1 DEF AddSink, At, Now, Types, FramesWhole
<1>3. conn[c].view # "out" /\ s = conn[c].session
  BY <1>2 DEF RelayInv, Keeps, FramesHold, FrameHolds
<1>4. sess \in [Sessions -> SessionType] /\ sess[s] \in SessionType
  BY <1>1, <1>2 DEF Now, Types
<1>5. Settle(conn, sessions, sessionOf, removals, frames)
  BY DEF AddSink
<1> HIDE DEF c, s, frames
<1>6. /\ new \in SessionType /\ new.sinks = sess[s].sinks \cup {c}
      /\ conn[c].state = "START_PUBLISH" => new.publisher = c /\ ~new.header
      /\ conn[c].state # "START_PUBLISH" => new.publisher = sess[s].publisher /\ new.header = sess[s].header
  BY <1>2, <1>4 DEF SessionType
<1> HIDE DEF new
<1>7. sessions[s] = new /\ \A t \in Sessions : t # s => sessions[t] = sess[t]
  BY <1>2, <1>4
<1>8. sessions \in [Sessions -> SessionType]
  BY <1>4, <1>6
<1> HIDE DEF sessions
<1>9. frames \in [Reactors -> FrameType] /\ FramesWhole(frames) /\ frames[r].at = "idle"
  BY <1>1, GotoIdle, GotoIs, IdleType DEF frames
<1>10. Types(conn, sessions, sessionOf, removals, frames)
  BY <1>1, <1>8, <1>9 DEF Now, Types
<1>11. /\ \A x \in Conns : ~Coming(x, frames)
       /\ \A x \in Conns : Coming(x, frame) <=> x = c
       /\ \A t \in Sessions, x \in Conns : ~Awaits(t, x, frame) /\ ~Awaits(t, x, frames)
  BY <1>2, <1>9, OneFrame DEF c
<1> USE DEF RelayInv, Keeps
<1>12. \A t \in Sessions : sess[t].publisher \in Conns \cup {None}
  BY <1>4 DEF SessionType
<1>13. conn[c].view = "nothing"
  BY <1>2, <1>3, <1>11 DEF ServedHold
<1>14. conn[c].state = "START_PUBLISH" => sess[s].publisher = None
  BY <1>2, <1>3, <1>11 DEF PublishersHold
<1>15. SinksHold(conn, sessions)
  BY <1>2, <1>3, <1>6, <1>7 DEF SinksHold
<1>16. PublishersHold(conn, sessions, frames)
  <2> SUFFICES ASSUME NEW t \in Sessions, NEW x \in Conns
               PROVE  /\ sessions[t].publisher = x => conn[x].session = t /\ conn[x].state = "START_PUBLISH"
                      /\ conn[x].session = t /\ conn[x].state = "START_PUBLISH" => sessions[t].publisher = x
    BY <1>11 DEF PublishersHold
  <2>1. /\ sess[t].publisher = x => conn[x].session = t /\ conn[x].state = "START_PUBLISH"
        /\ conn[x].session = t /\ conn[x].state = "START_PUBLISH" =>
             sess[t].publisher = IF x = c THEN None ELSE x
    BY <1>11 DEF PublishersHold
  <2>2. CASE t # s
    BY <1>3, <1>7, <2>1, <2>2
  <2>3. CASE t = s /\ conn[c].state = "START_PUBLISH"
    BY <1>3, <1>6, <1>7, <1>14, <2>1, <2>3, NoneAssumption
  <2>4. CASE t = s /\ conn[c].state # "START_PUBLISH"
    BY <1>6, <1>7, <2>1, <2>4
  <2> QED BY <2>2, <2>3, <2>4
<1>17. ServedHold(conn, sessions, sessionOf, frames)
  <2> SUFFICES ASSUME NEW x \in Conns, conn[x].view # "out"
               PROVE  (\E p \in Paths : sessionOf[p] = conn[x].session) /\ x \in sessions[conn[x].session].sinks
    BY <1>11 DEF ServedHold
  <2>1. /\ \E p \in Paths : sessionOf[p] = conn[x].session
        /\ x # c => x \in sess[conn[x].session].sinks
    BY <1>11 DEF ServedHold
  <2>2. conn[x].session \in Sessions
    BY <1>1, <2>1 DEF Now, Types, ConnType, ConnsHold
  <2> QED BY <1>3, <1>6, <1>7, <2>1, <2>2
<1>18. HeadersHold(conn, sessions, removals)
  <2> SUFFICES ASSUME NEW t \in Sessions
               PROVE  /\ sessions[t].header =>
                           /\ sessions[t].publisher # None
                           /\ conn[sessions[t].publisher].view # "out" \/ Removed(t, sessions[t].publisher, removals)
                      /\ sessions[t].publisher # None /\ conn[sessions[t].publisher].view \in {"header", "key"} => sessions[t].header
    BY Zenon DEF HeadersHold
  <2>1. CASE t = s /\ conn[c].state = "START_PUBLISH"
    BY <1>6, <1>7, <1>13, <2>1
  <2>2. CASE t # s \/ conn[c].state # "START_PUBLISH"
    <3>1. sessions[t].publisher = sess[t].publisher /\ sessions[t].header = sess[t].header
      BY <1>6, <1>7, <2>2
    <3> QED BY <3>1 DEF HeadersHold
  <2> QED BY <2>1, <2>2
<1>19. PlayersHold(conn, sessions, frames)
  <2> SUFFICES ASSUME NEW t \in Sessions, NEW p \in Conns, NEW x \in Conns,
                      sessions[t].publisher = p, conn[p].view = "key", conn[x].session = t,
                      conn[x].state = "START_PLAY", conn[x].view = "header", conn[x].key
               PROVE  FALSE
    BY DEF PlayersHold
  <2>1. sess[t].publisher = p
    BY <1>6, <1>7, <1>13
  <2> QED BY <1>11, <2>1 DEF PlayersHold
<1>20. FramesHold(conn, sessions, sessionOf, frames)
  BY <1>9, Resting
<1>21. Keeps(conn, sessions, sessionOf, removals, frames)
  BY <1>15, <1>16, <1>17, <1>18, <1>19, <1>20
<1> QED BY <1>1, <1>5, <1>10, <1>21, SettleKeeps

-----------------------------------------------------------------------------
(* Media *)

\* Whoever gets its messages in order sees a header, then a key frame, then the rest.
LEMMA SeenInOrder ==
  ASSUME NEW view \in Views, NEW kind \in Kinds, view # "early",
         view = "key" \/ kind = "header" \/ (view = "header" /\ kind = "key")
  PROVE  /\ view = "out" => See(view, kind) = "out"
         /\ view # "out" => See(view, kind) = IF kind = "header" THEN "header" ELSE "key"
BY DEF See, Views, Kinds

\* What a player that waits for a key frame is sent while the publisher's messages are in order.
LEMMA RelayInOrder ==
  ASSUME NEW x \in ConnType, NEW kind \in Kinds, NEW header \in BOOLEAN,
         kind # "header" => header, x.view # "early",
         x.view # "out" =>
           IF x.playing THEN x.avc /\ x.view # "nothing" /\ (x.key \/ x.view = "header")
                        ELSE x.view = "nothing" /\ ~x.key /\ ~x.avc,
         kind = "delta" /\ x.view = "header" => ~x.key
  PROVE  LET y == Relay(x, kind, header)
         IN  /\ y.life = x.life /\ y.state = x.state /\ y.session = x.session
             /\ x.view = "out" => y.view = "out"
             /\ x.view # "out" =>
                  /\ y.playing /\ y.avc /\ y.view \in {"header", "key"} /\ (y.key \/ y.view = "header")
                  /\ kind = "key" => y.view = "key"
                  /\ kind = "delta" /\ y.view = "header" => ~y.key
<1> DEFINE Met(z) == /\ z.avc /\ z.view \in {"header", "key"} /\ (z.key \/ z.view = "header")
                     /\ kind = "delta" /\ z.view = "header" => ~z.key
<1>1. "header" \in Kinds
  BY DEF Kinds
<1>2. ASSUME NEW z \in ConnType, NEW k \in Kinds
      PROVE  /\ Deliver(z, k) \in ConnType /\ Deliver(z, k).playing
             /\ Deliver(z, k).life = z.life /\ Deliver(z, k).state = z.state /\ Deliver(z, k).session = z.session
             /\ Passes(z, k) => /\ Deliver(z, k).view = See(z.view, k)
                                /\ Deliver(z, k).avc <=> z.avc \/ k = "header"
                                /\ Deliver(z, k).key <=> z.key \/ (k = "key" /\ z.avc)
             /\ ~Passes(z, k) => /\ Deliver(z, k).view = z.view /\ Deliver(z, k).avc = z.avc
                                 /\ Deliver(z, k).key = z.key
  <2>1. Deliver(z, k) \in ConnType
    BY DeliverType
  <2>2. CASE Passes(z, k)
    <3>1. Deliver(z, k) = [z EXCEPT !.playing = TRUE, !.avc = @ \/ k = "header", !.view = See(@, k),
                                    !.key = @ \/ (k = "key" /\ z.avc)]
      BY <2>2 DEF Deliver
    <3> QED BY <2>1, <2>2, <3>1 DEF ConnType
  <2>3. CASE ~Passes(z, k)
    <3>1. Deliver(z, k) = [z EXCEPT !.playing = TRUE]
      BY <2>3 DEF Deliver
    <3> QED BY <2>1, <2>3, <3>1 DEF ConnType
  <2> QED BY <2>2, <2>3
<1>3. ASSUME NEW z \in ConnType, NEW k \in Kinds, z.view = "out" PROVE Deliver(z, k).view = "out"
  <2>1. See("out", k) = "out"
    BY DEF See
  <2> QED BY <1>2, <1>3, <2>1
<1>4. ASSUME NEW z \in ConnType, Met(z)
      PROVE  Met(Deliver(z, kind)) /\ (kind = "key" => Deliver(z, kind).view = "key")
  <2>1. kind \in {"header", "key", "delta"}
    BY DEF Kinds
  <2>2. CASE kind = "header"
    <3>1. Passes(z, kind)
      BY <2>2 DEF Passes
    <3>2. See(z.view, kind) = "header"
      BY <1>4, <2>2 DEF See
    <3> QED BY <1>2, <1>4, <2>2, <3>1, <3>2
  <2>3. CASE kind = "key"
    <3>1. Passes(z, kind)
      BY <2>3 DEF Passes
    <3>2. See(z.view, kind) = "key"
      BY <1>4, <2>3 DEF See
    <3>3. Deliver(z, kind).view = "key" /\ Deliver(z, kind).avc /\ Deliver(z, kind).key
      BY <1>2, <1>4, <2>3, <3>1, <3>2
    <3> QED BY <2>3, <3>3
  <2>4. CASE kind = "delta"
    <3>1. Passes(z, kind) <=> z.key
      BY <1>4, <2>4 DEF Passes
    <3>2. z.key => z.view = "key"
      BY <1>4, <2>4
    <3>3. z.view = "key" => See(z.view, kind) = "key"
      BY <2>4 DEF See
    <3>4. Deliver(z, kind).view = z.view
      BY <1>2, <3>1, <3>2, <3>3
    <3>5. Deliver(z, kind).avc
      BY <1>2, <1>4
    <3>6. Deliver(z, kind).key <=> z.key
      <4>1. CASE Passes(z, kind)
        BY <1>2, <3>1, <4>1
      <4>2. CASE ~Passes(z, kind)
        BY <1>2, <4>2
      <4> QED BY <4>1, <4>2
    <3> QED BY <1>4, <2>4, <3>4, <3>5, <3>6
  <2> QED BY <2>1, <2>2, <2>3, <2>4
<1>5. CASE x.view = "out"
  <2>1. Deliver(x, "header") \in ConnType /\ Deliver(x, "header").view = "out"
        /\ Deliver(x, "header").life = x.life /\ Deliver(x, "header").state = x.state
        /\ Deliver(x, "header").session = x.session
    BY <1>1, <1>2, <1>3, <1>5
  <2> QED BY <1>2, <1>3, <1>5, <2>1 DEF Relay
<1>6. CASE x.view # "out" /\ x.playing
  <2>1. Met(x)
    BY <1>6 DEF ConnType, Views
  <2>2. Relay(x, kind, header) = Deliver(x, kind)
    BY <1>6 DEF Relay
  <2> QED BY <1>2, <1>4, <1>6, <2>1, <2>2
<1>7. CASE x.view # "out" /\ ~x.playing
  <2> DEFINE z == Deliver(x, "header")
  <2>1. x.view = "nothing" /\ ~x.key /\ ~x.avc
    BY <1>7
  <2>2. Passes(x, "header") /\ See(x.view, "header") = "header"
    BY <2>1 DEF Passes, See
  <2>3. /\ z \in ConnType /\ z.avc /\ z.view = "header" /\ ~z.key /\ z.playing
        /\ z.life = x.life /\ z.state = x.state /\ z.session = x.session
    BY <1>1, <1>2, <2>1, <2>2
  <2> HIDE DEF z
  <2>4. Met(z)
    BY <2>3
  <2>5. CASE header
    <3>1. Relay(x, kind, header) = Deliver(z, kind)
      BY <1>7, <2>5 DEF Relay, z
    <3> QED BY <1>2, <1>4, <1>7, <2>3, <2>4, <3>1
  <2>6. CASE ~header
    <3>1. kind = "header"
      BY <2>6
    <3>2. Relay(x, kind, header) = z
      BY <1>7, <2>6, <3>1 DEF Relay, z
    <3> QED BY <1>7, <2>3, <3>1, <3>2
  <2> QED BY <2>5, <2>6
<1> QED BY <1>5, <1>6, <1>7

\* A publisher in order has sent its header before anything else, and its key frame goes to all who wait for one.
LEMMA MediaKeeps ==
  ASSUME OneReactor, RelayInv, NEW r \in Reactors, NEW c \in Conns, NEW kind \in Kinds,
         conn[c].state = "START_PUBLISH", conn[c].view # "out", InOrder(c, kind), Media(r, c, kind)
  PROVE  RelayInv'
<1> DEFINE s == conn[c].session
           f == [Handler("sending", c) EXCEPT !.sess = s, !.kind = kind, !.todo = sess[s].sinks]
           conns == [conn EXCEPT ![c].view = See(@, kind)]
           sessions == [sess EXCEPT ![s].header = @ \/ kind = "header"]
           frames == Goto(r, f)
<1>1. Now /\ Now'
  BY NowHolds, MediaTypes
<1>2. frame[r].at = "idle" /\ conn[c].life = "open" /\ conn[c].state = "START_PUBLISH"
  BY DEF Media, Ready, At
<1>3. conn \in [Conns -> ConnType] /\ conn[c] \in ConnType /\ sess \in [Sessions -> SessionType]
  BY <1>1 DEF Now, Types
<1>4. s # None /\ conn[c].view # "early"
  BY DEF RelayInv, Keeps, ConnsHold
<1>5. s \in Sessions /\ sess[s] \in SessionType
  BY <1>3, <1>4 DEF ConnType
<1>6. Settle(conns, sessions, sessionOf, removals, frames)
  BY <1>4 DEF Media
<1>7. /\ f \in FrameType /\ f.at = "sending" /\ f.conn = c /\ f.sess = s /\ f.kind = kind
      /\ f.todo = sess[s].sinks
  <2>1. sess[s].sinks \in SUBSET Conns
    BY <1>5 DEF SessionType
  <2> HIDE DEF s
  <2> QED BY <1>5, <2>1 DEF Handler, Idle, FrameType, Places, Kinds
<1>8. See(conn[c].view, kind) = IF kind = "header" THEN "header" ELSE "key"
  BY <1>3, <1>4, SeenInOrder DEF InOrder, ConnType
<1>9. /\ conns[c] = [conn[c] EXCEPT !.view = See(conn[c].view, kind)]
      /\ \A x \in Conns : x # c => conns[x] = conn[x]
  BY <1>3
<1>10. conns \in [Conns -> ConnType]
  <2>1. See(conn[c].view, kind) \in Views
    BY <1>8 DEF Views
  <2> QED BY <1>3, <2>1 DEF ConnType
<1> HIDE DEF conns
<1>11. /\ \A x \in Conns :
            /\ conns[x].life = conn[x].life /\ conns[x].state = conn[x].state
            /\ conns[x].session = conn[x].session /\ conns[x].playing = conn[x].playing
            /\ conns[x].key = conn[x].key /\ conns[x].avc = conn[x].avc
            /\ x # c => conns[x] = conn[x]
       /\ conns[c].view = IF kind = "header" THEN "header" ELSE "key"
  BY <1>3, <1>8, <1>9 DEF ConnType
<1>12. /\ sessions[s] = [sess[s] EXCEPT !.header = sess[s].header \/ kind = "header"]
       /\ \A t \in Sessions : t # s => sessions[t] = sess[t]
  BY <1>3, <1>5
<1>13. sessions \in [Sessions -> SessionType]
  BY <1>3, <1>5 DEF SessionType
<1> HIDE DEF sessions, s
<1>14. \A t \in Sessions :
         /\ sessions[t].sinks = sess[t].sinks /\ sessions[t].publisher = sess[t].publisher
         /\ sessions[t].header <=> sess[t].header \/ (t = s /\ kind = "header")
  <2>1. /\ sessions[s].sinks = sess[s].sinks /\ sessions[s].publisher = sess[s].publisher
        /\ sessions[s].header <=> sess[s].header \/ kind = "header"
    BY <1>5, <1>12 DEF SessionType
  <2> QED BY <1>12, <2>1
<1> HIDE DEF f, frames
<1>15. frames \in [Reactors -> FrameType] /\ FramesWhole(frames) /\ frames[r] = f
  BY <1>1, <1>5, <1>7, GotoTypes, GotoIs DEF frames
<1>16. Types(conns, sessions, sessionOf, removals, frames)
  BY <1>1, <1>10, <1>13, <1>15 DEF Now, Types
<1>17. /\ \A x \in Conns : ~Coming(x, frame) /\ ~Coming(x, frames)
       /\ \A t \in Sessions, x \in Conns : ~Awaits(t, x, frame)
       /\ \A t \in Sessions, x \in Conns : Awaits(t, x, frames) <=> t = s /\ kind = "key" /\ x \in sess[s].sinks
  <2>1. frame[r].at \in {"idle", "gc", "close"}
    BY <1>2
  <2>2. /\ \A x \in Conns : ~Coming(x, frame)
        /\ \A t \in Sessions, x \in Conns : ~Awaits(t, x, frame)
    BY <2>1, Resting
  <2>3. /\ \A x \in Conns : ~Coming(x, frames)
        /\ \A t \in Sessions, x \in Conns : Awaits(t, x, frames) <=> s = t /\ kind = "key" /\ x \in sess[s].sinks
    BY <1>7, <1>15, OneFrame
  <2> QED BY <2>2, <2>3
<1> USE DEF RelayInv, Keeps
<1>18. sess[s].publisher = c
  BY <1>2, <1>5, <1>17 DEF PublishersHold, s
<1>19. \A t \in Sessions : sess[t].publisher = c => t = s
  BY DEF PublishersHold, s
<1>20. ConnsHold(conns)
  <2> SUFFICES ASSUME NEW y \in Conns
               PROVE LET x == conns[y] IN
        /\ x.life = "gone" => x = Fresh
        /\ x.state = "HANDSHAKE" => x.session = None /\ x.view = "out" /\ ~x.playing /\ ~x.key /\ ~x.avc
        /\ x.view # "out" => x.life = "open" /\ x.session # None
        /\ x.view # "early"
        /\ x.state = "START_PLAY" /\ x.view # "out" =>
             IF x.playing THEN x.avc /\ x.view # "nothing" /\ (x.key \/ x.view = "header")
                          ELSE x.view = "nothing" /\ ~x.key /\ ~x.avc
    BY Zenon DEF ConnsHold
  <2>1. CASE y = c
    BY <1>2, <1>4, <1>11, <2>1 DEF s
  <2>2. CASE y # c
    BY <1>11, <2>2 DEF ConnsHold
  <2> QED BY <2>1, <2>2
<1>21. SinksHold(conns, sessions)
  BY <1>11, <1>14 DEF SinksHold
<1>22. PublishersHold(conns, sessions, frames)
  BY <1>11, <1>14, <1>17 DEF PublishersHold
<1>23. TimersHold(conns, removals)
  <2>1. \A q \in Reactors : \A i \in DOMAIN removals[q] : removals[q][i].conn \in Conns
    BY <1>1, TimerTypes DEF Now, Types
  <2>2. \A x \in Conns : conn[x].view = "out" => conns[x].view = "out"
    BY <1>11
  <2> QED BY <1>11, <2>1, <2>2 DEF TimersHold
<1>24. ServedHold(conns, sessions, sessionOf, frames)
  <2> SUFFICES ASSUME NEW x \in Conns, conns[x].view # "out"
               PROVE  (\E p \in Paths : sessionOf[p] = conns[x].session) /\ x \in sessions[conns[x].session].sinks
    BY <1>17 DEF ServedHold
  <2>1. conn[x].view # "out"
    BY <1>11
  <2>2. (\E p \in Paths : sessionOf[p] = conn[x].session) /\ x \in sess[conn[x].session].sinks
    BY <1>17, <2>1 DEF ServedHold
  <2>3. conn[x].session \in Sessions
    BY <1>3, <2>1 DEF ConnType, ConnsHold
  <2> QED BY <1>11, <1>14, <2>2, <2>3
<1>25. HeadersHold(conns, sessions, removals)
  <2> SUFFICES ASSUME NEW t \in Sessions
               PROVE  /\ sessions[t].header =>
                           /\ sessions[t].publisher # None
                           /\ conns[sessions[t].publisher].view # "out" \/ Removed(t, sessions[t].publisher, removals)
                      /\ sessions[t].publisher # None /\ conns[sessions[t].publisher].view \in {"header", "key"} => sessions[t].header
    BY Zenon DEF HeadersHold
  <2>1. /\ sess[t].header =>
             /\ sess[t].publisher # None
             /\ conn[sess[t].publisher].view # "out" \/ Removed(t, sess[t].publisher, removals)
        /\ sess[t].publisher # None /\ conn[sess[t].publisher].view \in {"header", "key"} => sess[t].header
    BY DEF HeadersHold
  <2>2. CASE t = s
    <3>1. sessions[t].publisher = c /\ c # None /\ conns[c].view # "out"
      BY <1>11, <1>14, <1>18, <2>2, NoneAssumption
    <3>2. kind # "header" => sess[t].header
      BY <1>18, <2>1, <2>2, NoneAssumption DEF InOrder
    <3>3. sessions[t].header
      BY <1>14, <2>2, <3>2
    <3> QED BY <3>1, <3>3
  <2>3. CASE t # s
    <3>1. sessions[t].publisher = sess[t].publisher /\ (sessions[t].header <=> sess[t].header)
      BY <1>14, <2>3
    <3>2. sess[t].publisher \in (Conns \cup {None}) \ {c}
      BY <1>3, <1>19, <2>3 DEF SessionType
    <3>3. sess[t].publisher # None => conns[sess[t].publisher] = conn[sess[t].publisher]
      BY <1>11, <3>2
    <3> QED BY <2>1, <3>1, <3>3
  <2> QED BY <2>2, <2>3
<1>26. PlayersHold(conns, sessions, frames)
  <2> SUFFICES ASSUME NEW t \in Sessions, NEW p \in Conns, NEW x \in Conns,
                      sessions[t].publisher = p, conns[p].view = "key", conns[x].session = t,
                      conns[x].state = "START_PLAY", conns[x].view = "header", conns[x].key
               PROVE  Awaits(t, x, frames)
    BY DEF PlayersHold
  <2>1. x # c /\ conns[x] = conn[x]
    BY <1>2, <1>11
  <2>2. sess[t].publisher = p
    BY <1>14
  <2>3. conn[p].view = "key" => FALSE
    <3> SUFFICES ASSUME conn[p].view = "key" PROVE Awaits(t, x, frame)
      BY <1>17
    <3> QED BY <2>1, <2>2 DEF PlayersHold
  <2>4. p = c /\ t = s
    BY <1>11, <1>19, <2>2, <2>3
  <2>5. kind = "key"
    BY <1>11, <2>3, <2>4 DEF InOrder
  <2>6. x \in sess[t].sinks
    BY <1>17, <2>1 DEF ServedHold
  <2> QED BY <1>17, <2>4, <2>5, <2>6
<1>27. FramesHold(conns, sessions, sessionOf, frames)
  <2>1. FrameHolds(conns, sessions, sessionOf, f)
    BY <1>2, <1>7, <1>11 DEF FrameHolds, s
  <2> QED BY <1>15, <2>1 DEF FramesHold, OneReactor
<1>28. Keeps(conns, sessions, sessionOf, removals, frames)
  BY <1>20, <1>21, <1>22, <1>23, <1>24, <1>25, <1>26, <1>27
<1> QED BY <1>1, <1>6, <1>16, <1>28, SettleKeeps

\* The frame of a sender, and its publisher: who else the session has is a player, and has it for its session.
LEMMA SenderIs ==
  ASSUME OneReactor, RelayInv, NEW r \in Reactors, frame[r].at = "sending"
  PROVE  LET f == frame[r] IN
         /\ f \in FrameType /\ f.conn \in Conns /\ f.sess \in Sessions
         /\ FrameHolds(conn, sess, sessionOf, f)
         /\ sess[f.sess].publisher = f.conn
         /\ f.kind # "header" => sess[f.sess].header
         /\ \A x \in Conns : ~Coming(x, frame)
         /\ \A t \in Sessions, x \in Conns : Awaits(t, x, frame) <=> t = f.sess /\ f.kind = "key" /\ x \in f.todo
<1> DEFINE f == frame[r]
<1>1. f \in FrameType /\ f.conn \in Conns /\ f.sess \in Sessions
  BY NowHolds DEF Now, Types, FramesWhole
<1>2. FrameHolds(conn, sess, sessionOf, f)
  BY DEF RelayInv, Keeps, FramesHold
<1>3. /\ \A x \in Conns : ~Coming(x, frame)
      /\ \A t \in Sessions, x \in Conns : Awaits(t, x, frame) <=> t = f.sess /\ f.kind = "key" /\ x \in f.todo
  BY OneFrame
<1>4. sess[f.sess].publisher = f.conn
  BY <1>1, <1>2, <1>3 DEF FrameHolds, RelayInv, Keeps, PublishersHold
<1>5. f.kind # "header" => sess[f.sess].header
  BY <1>1, <1>2, <1>4, NoneAssumption DEF FrameHolds, RelayInv, Keeps, HeadersHold
<1> QED BY <1>1, <1>2, <1>3, <1>4, <1>5

\* Who is passed over is no player of the session that is there to be sent to.
LEMMA PassOverKeeps ==
  ASSUME OneReactor, RelayInv, NEW r \in Reactors, NEW x \in Conns, frame[r].at = "sending",
         ~(Player(frame[r], x) /\ conn[x].life = "open"),
         NEW g \in FrameType, g.at = "sending", g.conn = frame[r].conn, g.sess = frame[r].sess,
         g.kind = frame[r].kind, g.todo = frame[r].todo \ {x},
         Settle(conn, sess, sessionOf, removals, Goto(r, g)), Now'
  PROVE  RelayInv'
<1> DEFINE f == frame[r]
           frames == Goto(r, g)
<1>1. Now
  BY NowHolds
<1>2. /\ f.conn \in Conns /\ f.sess \in Sessions /\ FrameHolds(conn, sess, sessionOf, f)
      /\ \A y \in Conns : ~Coming(y, frame)
      /\ \A t \in Sessions, y \in Conns : Awaits(t, y, frame) <=> t = f.sess /\ f.kind = "key" /\ y \in f.todo
  BY SenderIs
<1> HIDE DEF frames
<1>3. frames \in [Reactors -> FrameType] /\ FramesWhole(frames) /\ frames[r] = g
  BY <1>1, <1>2, GotoTypes, GotoIs DEF frames
<1>4. Types(conn, sess, sessionOf, removals, frames)
  BY <1>1, <1>3 DEF Now, Types
<1>5. /\ \A y \in Conns : ~Coming(y, frames)
      /\ \A t \in Sessions, y \in Conns : y # x /\ Awaits(t, y, frame) => Awaits(t, y, frames)
  BY <1>2, <1>3, OneFrame
<1> USE DEF RelayInv, Keeps
<1>6. PublishersHold(conn, sess, frames) /\ ServedHold(conn, sess, sessionOf, frames)
  BY <1>2, <1>5 DEF PublishersHold, ServedHold
<1>7. PlayersHold(conn, sess, frames)
  <2> SUFFICES ASSUME NEW t \in Sessions, NEW p \in Conns, NEW y \in Conns,
                      sess[t].publisher = p, conn[p].view = "key", conn[y].session = t,
                      conn[y].state = "START_PLAY", conn[y].view = "header", conn[y].key
               PROVE  Awaits(t, y, frames)
    BY DEF PlayersHold
  <2>1. Awaits(t, y, frame)
    BY DEF PlayersHold
  <2>2. conn[y].life = "open" /\ y \in sess[t].sinks
    BY <1>2 DEF ConnsHold, ServedHold
  <2>3. y # x
    BY <1>2, <2>1, <2>2 DEF Player
  <2> QED BY <1>5, <2>1, <2>3
<1>8. FramesHold(conn, sess, sessionOf, frames)
  <2>1. FrameHolds(conn, sess, sessionOf, g)
    BY <1>2 DEF FrameHolds
  <2> QED BY <1>3, <2>1 DEF FramesHold, OneReactor
<1>9. Keeps(conn, sess, sessionOf, removals, frames)
  BY <1>6, <1>7, <1>8
<1> QED BY <1>4, <1>9, SettleKeeps DEF frames

\* A player is sent what it can decode, and one that is up to date does not wait for a key frame any more.
LEMMA RelayKeeps ==
  ASSUME OneReactor, RelayInv, NEW r \in Reactors, NEW x \in Conns, frame[r].at = "sending",
         Player(frame[r], x), conn[x].life = "open",
         NEW g \in FrameType, g.at = "sending", g.conn = frame[r].conn, g.sess = frame[r].sess,
         g.kind = frame[r].kind, g.todo = frame[r].todo \ {x},
         Settle([conn EXCEPT ![x] = Relay(@, frame[r].kind, sess[frame[r].sess].header)], sess, sessionOf, removals,
                Goto(r, g)), Now'
  PROVE  RelayInv'
<1> DEFINE f == frame[r]
           y == Relay(conn[x], f.kind, sess[f.sess].header)
           conns == [conn EXCEPT ![x] = Relay(@, f.kind, sess[f.sess].header)]
           frames == Goto(r, g)
<1>1. Now
  BY NowHolds
<1>2. /\ f \in FrameType /\ f.conn \in Conns /\ f.sess \in Sessions /\ FrameHolds(conn, sess, sessionOf, f)
      /\ sess[f.sess].publisher = f.conn
      /\ f.kind # "header" => sess[f.sess].header
      /\ \A z \in Conns : ~Coming(z, frame)
      /\ \A t \in Sessions, z \in Conns : Awaits(t, z, frame) <=> t = f.sess /\ f.kind = "key" /\ z \in f.todo
  BY SenderIs
<1>3. conn \in [Conns -> ConnType] /\ conn[x] \in ConnType /\ f.kind \in Kinds /\ sess[f.sess].header \in BOOLEAN
  BY <1>1, <1>2 DEF Now, Types, FrameType, SessionType
<1>4. conn[x].state = "START_PLAY" /\ conn[x].session = f.sess
  BY <1>2 DEF Player, RelayInv, Keeps, SinksHold
<1>5. y \in ConnType
  BY <1>3, RelayType
<1>6. conns[x] = y /\ \A z \in Conns : z # x => conns[z] = conn[z]
  BY <1>3
<1>7. conns \in [Conns -> ConnType]
  BY <1>3, <1>5
<1>8. f.kind = "delta" /\ conn[x].view = "header" => ~conn[x].key
  BY <1>2, <1>4 DEF RelayInv, Keeps, PlayersHold, FrameHolds
<1>9. /\ conn[x].view # "early"
      /\ conn[x].view # "out" =>
           IF conn[x].playing THEN conn[x].avc /\ conn[x].view # "nothing" /\ (conn[x].key \/ conn[x].view = "header")
                              ELSE conn[x].view = "nothing" /\ ~conn[x].key /\ ~conn[x].avc
  BY <1>4 DEF RelayInv, Keeps, ConnsHold
<1>10. /\ y.life = conn[x].life /\ y.state = conn[x].state /\ y.session = conn[x].session
       /\ conn[x].view = "out" => y.view = "out"
       /\ conn[x].view # "out" =>
            /\ y.playing /\ y.avc /\ y.view \in {"header", "key"} /\ (y.key \/ y.view = "header")
            /\ f.kind = "key" => y.view = "key"
            /\ f.kind = "delta" /\ y.view = "header" => ~y.key
  <2> DEFINE old == conn[x]
             kind == f.kind
             header == sess[f.sess].header
  <2>1. old \in ConnType /\ kind \in Kinds /\ header \in BOOLEAN /\ (kind # "header" => header) /\ old.view # "early"
    BY <1>2, <1>3, <1>9
  <2>2. old.view # "out" =>
          IF old.playing THEN old.avc /\ old.view # "nothing" /\ (old.key \/ old.view = "header")
                         ELSE old.view = "nothing" /\ ~old.key /\ ~old.avc
    BY <1>9
  <2>3. (kind = "delta" /\ old.view = "header" => ~old.key) /\ y = Relay(old, kind, header)
    BY <1>8
  <2> HIDE DEF y, old, kind, header
  <2>4. /\ y.life = old.life /\ y.state = old.state /\ y.session = old.session
        /\ old.view = "out" => y.view = "out"
        /\ old.view # "out" =>
             /\ y.playing /\ y.avc /\ y.view \in {"header", "key"} /\ (y.key \/ y.view = "header")
             /\ kind = "key" => y.view = "key"
             /\ kind = "delta" /\ y.view = "header" => ~y.key
    BY <2>1, <2>2, <2>3, RelayInOrder
  <2> QED BY <2>4 DEF old, kind
<1> HIDE DEF y, conns, frames
<1>11. \A z \in Conns :
         /\ conns[z].life = conn[z].life /\ conns[z].state = conn[z].state /\ conns[z].session = conn[z].session
         /\ conns[z].view = "out" <=> conn[z].view = "out"
         /\ conn[z].state = "START_PUBLISH" => conns[z] = conn[z]
  BY <1>4, <1>6, <1>10
<1>12. frames \in [Reactors -> FrameType] /\ FramesWhole(frames) /\ frames[r] = g
  BY <1>1, <1>2, GotoTypes, GotoIs DEF frames
<1>13. Types(conns, sess, sessionOf, removals, frames)
  BY <1>1, <1>7, <1>12 DEF Now, Types
<1>14. /\ \A z \in Conns : ~Coming(z, frames)
       /\ \A t \in Sessions, z \in Conns : z # x /\ Awaits(t, z, frame) => Awaits(t, z, frames)
  BY <1>2, <1>12, OneFrame
<1> USE DEF RelayInv, Keeps
<1>15. \A t \in Sessions, p \in Conns : sess[t].publisher = p => conn[p].session = t /\ conns[p] = conn[p]
  BY <1>11 DEF PublishersHold
<1>16. ConnsHold(conns)
  <2> SUFFICES ASSUME NEW w \in Conns
               PROVE LET z == conns[w] IN
        /\ z.life = "gone" => z = Fresh
        /\ z.state = "HANDSHAKE" => z.session = None /\ z.view = "out" /\ ~z.playing /\ ~z.key /\ ~z.avc
        /\ z.view # "out" => z.life = "open" /\ z.session # None
        /\ z.view # "early"
        /\ z.state = "START_PLAY" /\ z.view # "out" =>
             IF z.playing THEN z.avc /\ z.view # "nothing" /\ (z.key \/ z.view = "header")
                          ELSE z.view = "nothing" /\ ~z.key /\ ~z.avc
    BY Zenon DEF ConnsHold
  <2>1. CASE w = x
    <3>1. y.session # None
      BY <1>2, <1>4, <1>10, NoneAssumption
    <3> QED BY <1>4, <1>6, <1>10, <2>1, <3>1
  <2>2. CASE w # x
    BY <1>6, <2>2 DEF ConnsHold
  <2> QED BY <2>1, <2>2
<1>17. SinksHold(conns, sess) /\ PublishersHold(conns, sess, frames)
  BY <1>2, <1>11, <1>14 DEF SinksHold, PublishersHold
<1>18. TimersHold(conns, removals)
  <2>1. \A q \in Reactors : \A i \in DOMAIN removals[q] : removals[q][i].conn \in Conns
    BY <1>1, TimerTypes DEF Now, Types
  <2> QED BY <1>11, <2>1 DEF TimersHold
<1>19. ServedHold(conns, sess, sessionOf, frames)
  BY <1>2, <1>11, <1>14 DEF ServedHold
<1>20. HeadersHold(conns, sess, removals)
  <2>1. \A t \in Sessions : sess[t].publisher # None => conns[sess[t].publisher] = conn[sess[t].publisher]
    BY <1>1, <1>15 DEF Now, Types, SessionType
  <2> QED BY <2>1 DEF HeadersHold
<1>21. PlayersHold(conns, sess, frames)
  <2> SUFFICES ASSUME NEW t \in Sessions, NEW p \in Conns, NEW z \in Conns,
                      sess[t].publisher = p, conns[p].view = "key", conns[z].session = t,
                      conns[z].state = "START_PLAY", conns[z].view = "header", conns[z].key
               PROVE  Awaits(t, z, frames)
    BY DEF PlayersHold
  <2>1. conn[p].view = "key"
    BY <1>15
  <2>2. CASE z = x
    <3>1. t = f.sess /\ p = f.conn /\ f.kind # "header"
      BY <1>2, <1>4, <1>11, <2>1, <2>2 DEF FrameHolds
    <3>2. f.kind \in {"key", "delta"}
      BY <1>3, <3>1 DEF Kinds
    <3> QED BY <1>6, <1>10, <2>2, <3>2
  <2>3. CASE z # x
    <3>1. Awaits(t, z, frame)
      BY <1>6, <2>1, <2>3 DEF PlayersHold
    <3> QED BY <1>14, <2>3, <3>1
  <2> QED BY <2>2, <2>3
<1>22. FramesHold(conns, sess, sessionOf, frames)
  <2>1. FrameHolds(conns, sess, sessionOf, g)
    BY <1>2, <1>11 DEF FrameHolds
  <2> QED BY <1>12, <2>1 DEF FramesHold, OneReactor
<1>23. Keeps(conns, sess, sessionOf, removals, frames)
  BY <1>16, <1>17, <1>18, <1>19, <1>20, <1>21, <1>22
<1> QED BY <1>13, <1>23, SettleKeeps DEF conns, frames

LEMMA SendToKeeps ==
  ASSUME OneReactor, RelayInv, NEW r \in Reactors, NEW x \in Conns, SendTo(r, x)
  PROVE  RelayInv'
<1> DEFINE f == frame[r]
           g == [f EXCEPT !.todo = @ \ {x}]
<1>1. Now /\ Now'
  BY NowHolds, SendTypes
<1>2. f \in FrameType /\ f.at = "sending"
  BY <1>1 DEF SendTo, At, Now, Types
<1>3. /\ g \in FrameType /\ g.at = "sending" /\ g.conn = f.conn /\ g.sess = f.sess /\ g.kind = f.kind
      /\ g.todo = f.todo \ {x}
  BY <1>2 DEF FrameType
<1>4. \/ /\ Player(f, x) /\ conn[x].life = "open"
         /\ Settle([conn EXCEPT ![x] = Relay(@, f.kind, sess[f.sess].header)], sess, sessionOf, removals, Goto(r, g))
      \/ /\ ~(Player(f, x) /\ conn[x].life = "open")
         /\ Settle(conn, sess, sessionOf, removals, Goto(r, g))
  BY DEF SendTo
<1> HIDE DEF g
<1> QED BY <1>1, <1>2, <1>3, <1>4, PassOverKeeps, RelayKeeps

\* A player that cannot be written to leaves like any other, while the sender has still to go to the rest.
LEMMA SendFailsKeeps ==
  ASSUME OneReactor, RelayInv, NEW r \in Reactors, NEW x \in Conns, SendFails(r, x)
  PROVE  RelayInv'
<1> DEFINE f == frame[r]
           g == [f EXCEPT !.at = "failing", !.todo = @ \ {x}, !.sink = x]
           conns == [conn EXCEPT ![x].life = "closed", ![x].view = "out"]
           timers == Later(x)
           frames == Goto(r, g)
<1>1. Now /\ Now'
  BY NowHolds, SendTypes
<1>2. f.at = "sending" /\ Player(f, x) /\ conn[x].life = "open"
  BY DEF SendFails, At
<1>3. /\ f \in FrameType /\ f.conn \in Conns /\ f.sess \in Sessions /\ FrameHolds(conn, sess, sessionOf, f)
      /\ \A z \in Conns : ~Coming(z, frame)
      /\ \A t \in Sessions, z \in Conns : Awaits(t, z, frame) <=> t = f.sess /\ f.kind = "key" /\ z \in f.todo
  BY <1>2, SenderIs
<1>4. conn[x].state = "START_PLAY" /\ conn[x].session = f.sess /\ conn[x].session # None
  BY <1>2, <1>3, NoneAssumption DEF Player, RelayInv, Keeps, SinksHold
<1>5. Settle(conns, sess, sessionOf, timers, frames)
  BY <1>4 DEF SendFails
<1>6. /\ g \in FrameType /\ g.at = "failing" /\ g.conn = f.conn /\ g.sess = f.sess /\ g.kind = f.kind
      /\ g.todo = f.todo \ {x} /\ g.sink = x
  BY <1>3 DEF FrameType, Places
<1>7. conn \in [Conns -> ConnType] /\ conns \in [Conns -> ConnType]
  <2>1. conns \in [Conns -> ConnType]
    BY <1>1, ShutTypes
  <2> QED BY <1>1, <2>1 DEF Now, Types
<1>8. /\ conns[x] = [[conn[x] EXCEPT !.life = "closed"] EXCEPT !.view = "out"]
      /\ conn[x] \in ConnType
      /\ \A z \in Conns : z # x => conns[z] = conn[z]
  BY <1>7
<1> HIDE DEF conns
<1>9. /\ \A z \in Conns : conns[z].state = conn[z].state /\ conns[z].session = conn[z].session
      /\ conns[x].view = "out" /\ conns[x].life = "closed"
  <2>1. /\ conns[x].state = conn[x].state /\ conns[x].session = conn[x].session
        /\ conns[x].view = "out" /\ conns[x].life = "closed"
    BY <1>8 DEF ConnType
  <2> QED BY <1>8, <2>1
<1>10. timers \in [Reactors -> Seq([sess : Sessions, conn : Conns])]
  BY <1>1, <1>4, LaterTypes
<1>11. /\ \A q \in Reactors : \A i \in DOMAIN removals[q] : i \in DOMAIN timers[q] /\ timers[q][i] = removals[q][i]
       /\ \A q \in Reactors : \A i \in DOMAIN timers[q] :
            \/ i \in DOMAIN removals[q] /\ timers[q][i] = removals[q][i]
            \/ timers[q][i] = [sess |-> conn[x].session, conn |-> x]
  BY <1>1, <1>4, LaterIs
<1> HIDE DEF g, timers, frames
<1>12. frames \in [Reactors -> FrameType] /\ FramesWhole(frames) /\ frames[r] = g
  BY <1>1, <1>3, <1>6, GotoTypes, GotoIs DEF frames
<1>13. Types(conns, sess, sessionOf, timers, frames)
  BY <1>1, <1>7, <1>10, <1>12 DEF Now, Types
<1>14. /\ \A z \in Conns : ~Coming(z, frames)
       /\ \A t \in Sessions, z \in Conns : z # x /\ Awaits(t, z, frame) => Awaits(t, z, frames)
  BY <1>3, <1>6, <1>12, OneFrame
<1> USE DEF RelayInv, Keeps
<1>15. \A t \in Sessions, p \in Conns : sess[t].publisher = p => p # x /\ conns[p] = conn[p]
  BY <1>4, <1>8 DEF PublishersHold
<1>16. ConnsHold(conns)
  <2> SUFFICES ASSUME NEW w \in Conns
               PROVE LET z == conns[w] IN
        /\ z.life = "gone" => z = Fresh
        /\ z.state = "HANDSHAKE" => z.session = None /\ z.view = "out" /\ ~z.playing /\ ~z.key /\ ~z.avc
        /\ z.view # "out" => z.life = "open" /\ z.session # None
        /\ z.view # "early"
        /\ z.state = "START_PLAY" /\ z.view # "out" =>
             IF z.playing THEN z.avc /\ z.view # "nothing" /\ (z.key \/ z.view = "header")
                          ELSE z.view = "nothing" /\ ~z.key /\ ~z.avc
    BY Zenon DEF ConnsHold
  <2>1. CASE w = x
    BY <1>4, <1>9, <2>1
  <2>2. CASE w # x
    BY <1>8, <2>2 DEF ConnsHold
  <2> QED BY <2>1, <2>2
<1>17. SinksHold(conns, sess) /\ PublishersHold(conns, sess, frames)
  BY <1>3, <1>9, <1>14 DEF SinksHold, PublishersHold
<1>18. TimersHold(conns, timers)
  <2> SUFFICES ASSUME NEW q \in Reactors, NEW i \in DOMAIN timers[q]
               PROVE  conns[timers[q][i].conn].session = timers[q][i].sess /\ conns[timers[q][i].conn].view = "out"
    BY DEF TimersHold
  <2>1. CASE i \in DOMAIN removals[q] /\ timers[q][i] = removals[q][i]
    <3>1. removals[q][i].conn \in Conns
      BY <1>1, <2>1, TimerTypes DEF Now, Types
    <3>2. conn[removals[q][i].conn].session = removals[q][i].sess /\ conn[removals[q][i].conn].view = "out"
      BY <2>1 DEF TimersHold
    <3> QED BY <1>8, <1>9, <2>1, <3>1, <3>2
  <2>2. CASE timers[q][i] = [sess |-> conn[x].session, conn |-> x]
    BY <1>9, <2>2
  <2> QED BY <1>11, <2>1, <2>2
<1>19. ServedHold(conns, sess, sessionOf, frames)
  <2> SUFFICES ASSUME NEW z \in Conns, conns[z].view # "out"
               PROVE  (\E p \in Paths : sessionOf[p] = conns[z].session) /\ z \in sess[conns[z].session].sinks
    BY <1>14 DEF ServedHold
  <2>1. z # x /\ conns[z] = conn[z]
    BY <1>8, <1>9
  <2> QED BY <1>3, <2>1 DEF ServedHold
<1>20. HeadersHold(conns, sess, timers)
  <2>1. \A t \in Sessions : sess[t].publisher # None =>
          sess[t].publisher \in Conns /\ conns[sess[t].publisher] = conn[sess[t].publisher]
    BY <1>1, <1>15 DEF Now, Types, SessionType
  <2>2. \A t \in Sessions, p \in Conns : Removed(t, p, removals) => Removed(t, p, timers)
    BY <1>11, ReactorAssumption DEF Removed
  <2> QED BY <2>1, <2>2 DEF HeadersHold
<1>21. PlayersHold(conns, sess, frames)
  <2> SUFFICES ASSUME NEW t \in Sessions, NEW p \in Conns, NEW z \in Conns,
                      sess[t].publisher = p, conns[p].view = "key", conns[z].session = t,
                      conns[z].state = "START_PLAY", conns[z].view = "header", conns[z].key
               PROVE  Awaits(t, z, frames)
    BY DEF PlayersHold
  <2>1. z # x /\ conn[z] = conns[z] /\ conn[p] = conns[p]
    BY <1>8, <1>9, <1>15
  <2>2. Awaits(t, z, frame)
    BY <2>1 DEF PlayersHold
  <2> QED BY <1>14, <2>1, <2>2
<1>22. FramesHold(conns, sess, sessionOf, frames)
  <2>1. conns[f.conn] = conn[f.conn]
    BY <1>2, <1>3, <1>4, <1>8 DEF FrameHolds
  <2>2. FrameHolds(conns, sess, sessionOf, g)
    BY <1>2, <1>3, <1>6, <1>9, <2>1 DEF FrameHolds
  <2> QED BY <1>12, <2>2 DEF FramesHold, OneReactor
<1>23. Keeps(conns, sess, sessionOf, timers, frames)
  BY <1>16, <1>17, <1>18, <1>19, <1>20, <1>21, <1>22
<1> QED BY <1>1, <1>5, <1>13, <1>23, SettleKeeps

\* A sender that has been to all has nobody left who waits for its key frame.
LEMMA SendEndKeeps ==
  ASSUME OneReactor, RelayInv, NEW r \in Reactors, SendEnd(r)
  PROVE  RelayInv'
<1> DEFINE frames == Goto(r, Idle)
<1>1. Now /\ Now'
  BY NowHolds, EndTypes
<1>2. frame[r].at = "sending" /\ frame[r].todo = {} /\ Settle(conn, sess, sessionOf, removals, frames)
  BY DEF SendEnd, At
<1> HIDE DEF frames
<1>3. frames \in [Reactors -> FrameType] /\ FramesWhole(frames) /\ frames[r].at = "idle"
  BY <1>1, GotoIdle, GotoIs, IdleType DEF frames
<1>4. Types(conn, sess, sessionOf, removals, frames)
  BY <1>1, <1>3 DEF Now, Types
<1>5. /\ \A c \in Conns : ~Coming(c, frame) /\ ~Coming(c, frames)
      /\ \A s \in Sessions, x \in Conns : ~Awaits(s, x, frame)
  BY <1>2, <1>3, OneFrame
<1> USE DEF RelayInv, Keeps
<1>6. PublishersHold(conn, sess, frames) /\ ServedHold(conn, sess, sessionOf, frames)
  BY <1>5 DEF PublishersHold, ServedHold
<1>7. PlayersHold(conn, sess, frames)
  BY <1>5 DEF PlayersHold
<1>8. FramesHold(conn, sess, sessionOf, frames)
  BY <1>3, Resting
<1>9. Keeps(conn, sess, sessionOf, removals, frames)
  BY <1>6, <1>7, <1>8
<1> QED BY <1>1, <1>2, <1>4, <1>9, SettleKeeps

-----------------------------------------------------------------------------
(* The collector *)

LEMMA GcStartKeeps ==
  ASSUME OneReactor, RelayInv, GcStart
  PROVE  RelayInv'
<1> DEFINE f == [Idle EXCEPT !.at = "gc", !.visit = Range(sessionOf) \ {None}]
<1>1. Now /\ Now'
  BY NowHolds, EndTypes
<1>2. Range(sessionOf) \ {None} \in SUBSET Sessions
  BY <1>1 DEF Now, Types, Range
<1>3. f \in FrameType /\ f.at = "gc"
  BY <1>2 DEF Idle, FrameType, Places, Kinds
<1>4. MainOf \in Reactors /\ frame[MainOf].at = "idle" /\ Settle(conn, sess, sessionOf, removals, Goto(MainOf, f))
  BY ReactorAssumption DEF GcStart, At
<1> HIDE DEF f
<1> QED BY <1>1, <1>3, <1>4, RestStep

\* The session of a path that is dropped has no sinks: nobody who was told it plays or publishes is in it.
LEMMA GcVisitKeeps ==
  ASSUME OneReactor, RelayInv, NEW s \in Sessions, GcVisit(s)
  PROVE  RelayInv'
<1> DEFINE f == frame[MainOf]
           g == [f EXCEPT !.visit = @ \ {s}]
           entries == [p \in Paths |-> IF sessionOf[p] = s /\ Clients(s) = {} THEN None ELSE sessionOf[p]]
           frames == Goto(MainOf, g)
<1>1. Now /\ Now'
  BY NowHolds, EndTypes DEF Collect
<1>2. MainOf \in Reactors /\ f.at = "gc" /\ Settle(conn, sess, entries, removals, frames)
  BY ReactorAssumption DEF GcVisit, At
<1>3. g \in FrameType /\ g.at = "gc"
  <2>1. f \in FrameType
    BY <1>1, <1>2 DEF Now, Types
  <2> QED BY <1>2, <2>1 DEF FrameType
<1>4. entries \in [Paths -> Sessions \cup {None}]
  BY <1>1 DEF Now, Types
<1>5. \A p \in Paths : sess[s].sinks # {} \/ sessionOf[p] # s => entries[p] = sessionOf[p]
  BY DEF Clients
<1> HIDE DEF g, entries, frames
<1>6. frames \in [Reactors -> FrameType] /\ FramesWhole(frames) /\ frames[MainOf] = g
  BY <1>1, <1>2, <1>3, GotoTypes, GotoIs DEF frames
<1>7. Types(conn, sess, entries, removals, frames)
  BY <1>1, <1>4, <1>6 DEF Now, Types
<1>8. Keeps(conn, sess, sessionOf, removals, frames)
  BY <1>2, <1>3, <1>6, RestKeeps
<1>9. \A c \in Conns : ~Coming(c, frames)
  BY <1>2, <1>3, <1>6, Resting
<1>10. ServedHold(conn, sess, entries, frames)
  <2> SUFFICES ASSUME NEW c \in Conns, conn[c].view # "out"
               PROVE  (\E p \in Paths : entries[p] = conn[c].session) /\ c \in sess[conn[c].session].sinks
    BY <1>9 DEF ServedHold
  <2>1. (\E p \in Paths : sessionOf[p] = conn[c].session) /\ c \in sess[conn[c].session].sinks
    BY <1>8, <1>9 DEF Keeps, ServedHold
  <2> QED BY <1>5, <2>1
<1>11. FramesHold(conn, sess, entries, frames)
  BY <1>2, <1>3, <1>6, Resting
<1>12. Keeps(conn, sess, entries, removals, frames)
  BY <1>8, <1>10, <1>11 DEF Keeps
<1> QED BY <1>1, <1>2, <1>7, <1>12, SettleKeeps

LEMMA GcEndKeeps ==
  ASSUME OneReactor, RelayInv, GcEnd
  PROVE  RelayInv'
<1>1. Now'
  BY NowHolds, EndTypes DEF Collect
<1>2. MainOf \in Reactors /\ frame[MainOf].at = "gc" /\ Settle(conn, sess, sessionOf, removals, Goto(MainOf, Idle))
  BY ReactorAssumption DEF GcEnd, At
<1> QED BY <1>1, <1>2, IdleType, RestStep

-----------------------------------------------------------------------------
(* The invariant, and what follows from it *)

LEMMA RelayStart == Init => RelayInv
<1> SUFFICES ASSUME Init PROVE RelayInv
  OBVIOUS
<1>1. Now
  BY TypesStart
<1>2. /\ \A c \in Conns : conn[c] = Fresh
      /\ \A s \in Sessions : sess[s] = Empty
      /\ \A r \in Reactors : removals[r] = <<>> /\ DOMAIN removals[r] = {}
      /\ \A r \in Reactors : frame[r] = Idle
  BY DEF Init
<1>3. /\ Fresh.state = "HANDSHAKE" /\ Fresh.session = None /\ Fresh.view = "out" /\ ~Fresh.playing /\ ~Fresh.key
      /\ ~Fresh.avc
      /\ Empty.sinks = {} /\ Empty.publisher = None /\ ~Empty.header
      /\ Idle.at = "idle"
  BY DEF Fresh, Empty, Idle
<1>4. ConnsHold(conn) /\ SinksHold(conn, sess) /\ TimersHold(conn, removals)
  BY <1>2, <1>3 DEF ConnsHold, SinksHold, TimersHold
<1>5. PublishersHold(conn, sess, frame) /\ ServedHold(conn, sess, sessionOf, frame)
  BY <1>2, <1>3, NoneAssumption DEF PublishersHold, ServedHold
<1>6. HeadersHold(conn, sess, removals) /\ PlayersHold(conn, sess, frame)
  BY <1>2, <1>3, NoneAssumption DEF HeadersHold, PlayersHold
<1>7. FramesHold(conn, sess, sessionOf, frame)
  BY <1>2, <1>3 DEF FramesHold, FrameHolds
<1>8. Unheld
  BY <1>2 DEF Unheld
<1> QED BY <1>1, <1>4, <1>5, <1>6, <1>7, <1>8 DEF RelayInv, Keeps, Now

LEMMA RelayStep == OneReactor /\ RelayInv /\ [OrderlyNext]_vars => RelayInv'
<1> SUFFICES ASSUME OneReactor, RelayInv, [OrderlyNext]_vars PROVE RelayInv'
  OBVIOUS
<1>1. CASE UNCHANGED vars
  BY <1>1 DEF vars, RelayInv, Unheld, InUse
<1>2. ASSUME NEW c \in Conns, Accept(c) PROVE RelayInv'
  BY <1>2, AcceptKeeps
<1>3. ASSUME NEW r \in Reactors, Continue(r) PROVE RelayInv'
  BY <1>3, CloseStartKeeps, DeleteEndKeeps, PublishStartKeeps, EnterKeeps, AddSinkKeeps, SendEndKeeps,
     SendToKeeps, SendFailsKeeps DEF Continue
<1>4. ASSUME NEW r \in Reactors, RunRemoval(r) PROVE RelayInv'
  BY <1>4, RunRemovalKeeps
<1>5. ASSUME NEW r \in Reactors, NEW c \in Conns, Disconnect(r, c) \/ DeleteStream(r, c) PROVE RelayInv'
  BY <1>5, DisconnectKeeps, DeleteStreamKeeps
<1>6. ASSUME NEW r \in Reactors, NEW c \in Conns, NEW p \in Paths,
             conn[c].state = "HANDSHAKE", Publish(r, c, p) \/ Play(r, c, p)
      PROVE  RelayInv'
  BY <1>6, PublishKeeps, PlayKeeps
<1>7. ASSUME NEW r \in Reactors, NEW c \in Conns, NEW kind \in Kinds,
             conn[c].state = "START_PUBLISH", conn[c].view # "out", InOrder(c, kind), Media(r, c, kind)
      PROVE  RelayInv'
  BY <1>7, MediaKeeps
<1>8. CASE GcStart \/ Collect
  BY <1>8, GcStartKeeps, GcVisitKeeps, GcEndKeeps DEF Collect
<1> QED BY <1>1, <1>2, <1>3, <1>4, <1>5, <1>6, <1>7, <1>8 DEF OrderlyNext

LEMMA HeadersFromInv == RelayInv => HeadersBelong
<1> SUFFICES ASSUME RelayInv, NEW s \in Sessions, sess[s].header
             PROVE  LET c == sess[s].publisher IN
                    /\ c # None
                    /\ conn[c].view # "out" \/ [sess |-> s, conn |-> c] \in Range(removals[ReactorOf[c]])
  BY Zenon DEF HeadersBelong
<1>1. /\ sess[s].publisher # None
      /\ conn[sess[s].publisher].view # "out" \/ Removed(s, sess[s].publisher, removals)
  BY DEF RelayInv, Keeps, HeadersHold
<1> QED BY <1>1 DEF Removed, Range

\* With one reactor, and clients that play or publish once and in order, the header that SendMediaData gives
\* to newcomers is that of the session's publisher, who is there or whose RemoveSink is due.
THEOREM OwnHeaders == OneReactor => (OrderlySpec => []HeadersBelong)
<1> SUFFICES ASSUME OneReactor PROVE OrderlySpec => []HeadersBelong
  OBVIOUS
<1>1. RelayInv /\ [OrderlyNext]_vars => RelayInv'
  BY RelayStep
<1> QED BY <1>1, HeadersFromInv, RelayStart, PTL DEF OrderlySpec

\* With one reactor and such clients, bSendMediaData passes no player a frame it cannot decode, whenever it
\* came in and whoever published before.
THEOREM KeyFramesFirst == OneReactor => (OrderlySpec => []KeyFrameFirst)
<1> SUFFICES ASSUME OneReactor PROVE OrderlySpec => []KeyFrameFirst
  OBVIOUS
<1>1. RelayInv /\ [OrderlyNext]_vars => RelayInv'
  BY RelayStep
<1>2. RelayInv => KeyFrameFirst
  BY DEF RelayInv, Keeps, ConnsHold, KeyFrameFirst
<1> QED BY <1>1, <1>2, RelayStart, PTL DEF OrderlySpec
=============================================================================
