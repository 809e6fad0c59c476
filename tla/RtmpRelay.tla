----------------------------- MODULE RtmpRelay -----------------------------
(***************************************************************************)
(* The RTMP relay: CRtmpServer's sessions, CRtmpSession, and what          *)
(* CRtmpConnection does once it has connected and created its stream:      *)
(* publish, play, media, DeleteStream and close.                           *)
(*                                                                         *)
(* A reactor is in one handler at a time.  A handler is cut where it takes *)
(* a mutex another thread may hold for long: the server's (held by the     *)
(* session collector), a session's (held by SendMediaData) or a            *)
(* connection's (held by Close), and where it lets go of one and acts on   *)
(* what it read.  An object dies in the step in which the last shared_ptr  *)
(* to it goes.                                                             *)
(***************************************************************************)
EXTENDS Naturals, Sequences, SequencesExt

CONSTANTS
  Conns,      \* the sockets connections come in on
  Paths,      \* stream paths
  Sessions,   \* CRtmpSession objects (a bound on how many exist at once)
  Reactors,   \* reactor threads
  ReactorOf,  \* the reactor of each socket's connections
  MainOf,     \* reactor 0, which runs the server's timer
  None        \* a null or expired pointer

ASSUME ReactorAssumption == ReactorOf \in [Conns -> Reactors] /\ MainOf \in Reactors
ASSUME NoneAssumption == None \notin Conns \cup Sessions \cup Paths

VARIABLES
  conn,       \* the connection on each socket
  sess,       \* the session objects
  sessionOf,  \* CRtmpServer::m_mapRtmpSessions
  removals,   \* the RemoveSink timers of each reactor, the earliest first
  frame       \* the handler each reactor is in

vars == <<conn, sess, sessionOf, removals, frame>>

\* "header" is the AVC sequence header (the AAC one is kept and sent to newcomers likewise, and left out),
\* "key" a key frame, "delta" all other video and audio.
Kinds == {"header", "key", "delta"}

\* What the client at the other end has had of the stream since it was told it has one ("out" when it
\* has none): sent for a publisher, received for a player; "early" is a frame it could not decode.  It is
\* there for the properties only.
Views == {"out", "nothing", "header", "key", "early"}

ConnType == [life : {"gone", "open", "closed"}, state : {"HANDSHAKE", "START_PLAY", "START_PUBLISH"},
             session : Sessions \cup {None}, publishing : BOOLEAN, playing : BOOLEAN,
             key : BOOLEAN, avc : BOOLEAN, view : Views]

SessionType == [sinks : SUBSET Conns, publisher : Conns \cup {None}, header : BOOLEAN]

Places == {"idle", "publish", "enter", "entering", "close", "closing", "deleting", "sending", "failing", "gc"}

\* todo are the sinks SendMediaData has still to go to, visit the sessions the collector has.
FrameType == [at : Places, conn : Conns \cup {None}, path : Paths \cup {None}, sess : Sessions \cup {None},
              kind : Kinds, todo : SUBSET Conns, sink : Conns \cup {None}, visit : SUBSET Sessions]

TypeOK ==
  /\ conn \in [Conns -> ConnType]
  /\ sess \in [Sessions -> SessionType]
  /\ sessionOf \in [Paths -> Sessions \cup {None}]
  /\ removals \in [Reactors -> Seq([sess : Sessions, conn : Conns])]
  /\ frame \in [Reactors -> FrameType]

Fresh == [life |-> "gone", state |-> "HANDSHAKE", session |-> None, publishing |-> FALSE, playing |-> FALSE,
          key |-> FALSE, avc |-> FALSE, view |-> "out"]

Empty == [sinks |-> {}, publisher |-> None, header |-> FALSE]

Idle == [at |-> "idle", conn |-> None, path |-> None, sess |-> None, kind |-> "delta", todo |-> {},
         sink |-> None, visit |-> {}]

Init ==
  /\ conn = [c \in Conns |-> Fresh]
  /\ sess = [s \in Sessions |-> Empty]
  /\ sessionOf = [p \in Paths |-> None]
  /\ removals = [r \in Reactors |-> <<>>]
  /\ frame = [r \in Reactors |-> Idle]

-----------------------------------------------------------------------------
(* Mutexes and pointers *)

ServerFree == \A r \in Reactors : frame[r].at # "gc"

SessionFree(s) == \A r \in Reactors : frame[r].sess = s => frame[r].at \notin {"sending", "failing"}

\* A connection's mutex is held while it closes: by its own handler or by a sender whose write failed.
ConnFree(c) == \A r \in Reactors : /\ frame[r].at = "closing" => frame[r].conn # c
                                   /\ frame[r].sink # c

InUse(s, entries, timers, frames) ==
  \/ \E p \in Paths : entries[p] = s
  \/ \E r \in Reactors : frames[r].sess = s \/ \E i \in DOMAIN timers[r] : timers[r][i].sess = s

Held(c, timers, frames) ==
  \E r \in Reactors : c \in {frames[r].conn, frames[r].sink} \/ \E i \in DOMAIN timers[r] : timers[r][i].conn = c

\* The new state.  Sessions and closed connections that nothing holds are destroyed, and the weak_ptrs
\* to them expire.
Settle(conns, sessions, entries, timers, frames) ==
  LET live == {s \in Sessions : InUse(s, entries, timers, frames)}
      here == {c \in Conns : conns[c].life = "open" \/ (conns[c].life = "closed" /\ Held(c, timers, frames))}
      Weak(x, alive) == IF x \in alive THEN x ELSE None
  IN  /\ conn' = [c \in Conns |-> IF c \in here THEN [conns[c] EXCEPT !.session = Weak(@, live)] ELSE Fresh]
      /\ sess' = [s \in Sessions |-> IF s \in live
                    THEN [sessions[s] EXCEPT !.sinks = @ \cap here, !.publisher = Weak(@, here)] ELSE Empty]
      /\ sessionOf' = entries
      /\ removals' = timers
      /\ frame' = frames

Goto(r, f) == [frame EXCEPT ![r] = f]

At(r, place) == frame[r].at = place

\* The reactor is between two handlers, and the connection is one of its own.
Ready(r, c) == At(r, "idle") /\ ReactorOf[c] = r /\ conn[c].life = "open"

Handler(place, c) == [Idle EXCEPT !.at = place, !.conn = c]

Unused == {s \in Sessions : ~InUse(s, sessionOf, removals, frame)}

\* CRtmpServer::pGetSession: the session of the path, which is made when missing, and the map with it.
pGetSession(p) == IF sessionOf[p] # None THEN sessionOf[p] ELSE CHOOSE s \in Unused : TRUE

With(p) == [sessionOf EXCEPT ![p] = pGetSession(p)]

\* The server's mutex is free, and so is a session object where one has to be made (the bound on Sessions).
CanGetSession(p) == ServerFree /\ (sessionOf[p] # None \/ Unused # {})

-----------------------------------------------------------------------------
(* Connections come and go *)

Accept(c) ==
  /\ conn[c].life = "gone"
  /\ Settle([conn EXCEPT ![c] = [Fresh EXCEPT !.life = "open"]], sess, sessionOf, removals, frame)

\* An error, or a hang-up, or a handler that returned false.
Disconnect(r, c) ==
  /\ Ready(r, c)
  /\ Settle(conn, sess, sessionOf, removals, Goto(r, Handler("close", c)))

\* The timer that bHandleDeleteStream starts on the connection's reactor.
Later(c) == [removals EXCEPT ![ReactorOf[c]] = Append(@, [sess |-> conn[c].session, conn |-> c])]

\* Mutant: the session is not looked at.
CloseStartUnchecked(r) ==
  LET c == frame[r].conn
  IN  /\ At(r, "close")
      /\ ConnFree(c)
      /\ Settle([conn EXCEPT ![c].life = "closed", ![c].view = "out"], sess, sessionOf, Later(c),
                Goto(r, Handler("closing", c)))

\* Close, under the connection's mutex, and OnClose -> bHandleDeleteStream up to NotifyEvent.
CloseStart(r) ==
  LET c == frame[r].conn
      shut == [conn EXCEPT ![c].life = "closed", ![c].view = "out"]
  IN  /\ At(r, "close")
      /\ ConnFree(c)
      /\ IF conn[c].life = "open" /\ conn[c].session # None
         THEN Settle(shut, sess, sessionOf, Later(c), Goto(r, Handler("closing", c)))
         ELSE Settle(shut, sess, sessionOf, removals, Goto(r, Idle))

\* The message: bHandleDeleteStream up to NotifyEvent.
DeleteStream(r, c) ==
  /\ Ready(r, c)
  /\ IF conn[c].session = None
     THEN Settle(conn, sess, sessionOf, removals, Goto(r, Handler("close", c)))
     ELSE Settle([conn EXCEPT ![c].view = "out"], sess, sessionOf, Later(c), Goto(r, Handler("deleting", c)))

Stopped(c) == [c EXCEPT !.playing = FALSE, !.publishing = FALSE, !.key = FALSE]

\* NotifyEvent takes the server's mutex; then the rest of bHandleDeleteStream.  A sender goes on with
\* its next sink.
DeleteEnd(r) ==
  LET f == frame[r]
      c == IF f.at = "failing" THEN f.sink ELSE f.conn
  IN  /\ f.at \in {"closing", "deleting", "failing"}
      /\ ServerFree
      /\ Settle([conn EXCEPT ![c] = Stopped(@)], sess, sessionOf, removals,
                Goto(r, IF f.at = "failing" THEN [f EXCEPT !.at = "sending", !.sink = None] ELSE Idle))

\* Mutant: the headers stay.
RemoveSinkOnly(s, c) == [sess[s] EXCEPT !.sinks = @ \ {c}]

\* CRtmpSession::RemoveSink; bIsPublisher looks at m_state.
RemoveSink(s, c) ==
  [sess[s] EXCEPT !.sinks = @ \ {c}, !.header = @ /\ conn[c].state # "START_PUBLISH"]

\* Mutant: the timer's callback returns true, and it is run again and again.
RunRemovalAgain(r) ==
  LET next == Head(removals[r])
  IN  /\ At(r, "idle")
      /\ removals[r] # <<>>
      /\ SessionFree(next.sess)
      /\ Settle(conn, [sess EXCEPT ![next.sess] = RemoveSink(next.sess, next.conn)], sessionOf,
                [removals EXCEPT ![r] = Append(Tail(@), next)], frame)

\* The reactor's next timer.
RunRemoval(r) ==
  LET next == Head(removals[r])
  IN  /\ At(r, "idle")
      /\ removals[r] # <<>>
      /\ SessionFree(next.sess)
      /\ Settle(conn, [sess EXCEPT ![next.sess] = RemoveSink(next.sess, next.conn)], sessionOf,
                [removals EXCEPT ![r] = Tail(@)], frame)

-----------------------------------------------------------------------------
(* Publish and play *)

\* bHandlePublish: bHasPublisher, which makes the session, and m_state.
Publish(r, c, p) ==
  LET s == pGetSession(p)
  IN  /\ Ready(r, c)
      /\ CanGetSession(p) /\ SessionFree(s)
      /\ Settle(conn, sess, With(p), removals,
                Goto(r, IF sess[s].publisher # None \/ conn[c].state = "START_PUBLISH"
                        THEN Handler("close", c)
                        ELSE [Handler("publish", c) EXCEPT !.path = p]))

\* The rest of bHandlePublish up to m_pRtmpSession.lock(): the session is looked up again, the client is
\* told.  A connection that was closed meanwhile cannot be told.
PublishStart(r) ==
  LET c == frame[r].conn
      p == frame[r].path
      found == [conn EXCEPT ![c].session = pGetSession(p)]
  IN  /\ At(r, "publish")
      /\ CanGetSession(p) /\ ConnFree(c)
      /\ IF conn[c].life = "closed"
         THEN Settle(found, sess, With(p), removals, Goto(r, Idle))
         ELSE Settle([found EXCEPT ![c].state = "START_PUBLISH", ![c].publishing = TRUE, ![c].view = "nothing"],
                     sess, With(p), removals, Goto(r, Handler("enter", c)))

\* bHandlePlay up to m_pRtmpSession.lock(): the client is told first.
Play(r, c, p) ==
  /\ Ready(r, c)
  /\ CanGetSession(p) /\ ConnFree(c)
  /\ Settle([conn EXCEPT ![c].session = pGetSession(p), ![c].state = "START_PLAY", ![c].view = "nothing"],
            sess, With(p), removals, Goto(r, Handler("enter", c)))

\* The collector may have dropped the session meanwhile.
Enter(r) ==
  LET c == frame[r].conn
  IN  /\ At(r, "enter")
      /\ Settle(conn, sess, sessionOf, removals,
                Goto(r, IF conn[c].session = None THEN Handler("close", c)
                        ELSE [Handler("entering", c) EXCEPT !.sess = conn[c].session]))

\* CRtmpSession::AddSink.
AddSink(r) ==
  LET c == frame[r].conn
      s == frame[r].sess
  IN  /\ At(r, "entering")
      /\ SessionFree(s)
      /\ Settle(conn,
                [sess EXCEPT ![s] = IF conn[c].state = "START_PUBLISH"
                                    THEN [sinks |-> sess[s].sinks \cup {c}, publisher |-> c, header |-> FALSE]
                                    ELSE [sess[s] EXCEPT !.sinks = @ \cup {c}]],
                sessionOf, removals, Goto(r, Idle))

-----------------------------------------------------------------------------
(* Media *)

\* The client at the other end has had a message of this kind.
See(view, kind) ==
  IF view \in {"out", "early"} THEN view
  ELSE IF kind = "header" THEN "header"
  ELSE IF view = "key" \/ (view = "header" /\ kind = "key") THEN "key"
  ELSE "early"

\* bHandleVideo and bHandleAudio: the header is kept, and SendMediaData begins.  Nobody asks whether the
\* connection publishes: whoever has a session may send.
Media(r, c, kind) ==
  LET s == conn[c].session
      f == [Handler("sending", c) EXCEPT !.sess = s, !.kind = kind, !.todo = sess[s].sinks]
      seen == [conn EXCEPT ![c].view = IF conn[c].state = "START_PUBLISH" THEN See(@, kind) ELSE @]
  IN  /\ Ready(r, c)
      /\ IF s = None
         THEN Settle(conn, sess, sessionOf, removals, Goto(r, Handler("close", c)))
         ELSE /\ SessionFree(s)
              /\ Settle(seen, [sess EXCEPT ![s].header = @ \/ kind = "header"], sessionOf, removals, Goto(r, f))

\* Mutant: m_bIsPlaying is looked at for m_bHasKeyFrame.
PassesPlaying(x, kind) == kind = "header" \/ x.playing \/ ~x.avc \/ kind = "key"

\* Whether bSendMediaData sends a message of this kind: a player that knows a header waits for a key frame.
Passes(x, kind) == kind = "header" \/ x.key \/ ~x.avc \/ kind = "key"

\* bSendMediaData to the connection x.
Deliver(x, kind) ==
  IF Passes(x, kind)
  THEN [x EXCEPT !.playing = TRUE, !.avc = @ \/ kind = "header", !.view = See(@, kind),
                 !.key = @ \/ (kind = "key" /\ x.avc)]
  ELSE [x EXCEPT !.playing = TRUE]

\* What SendMediaData does with a player: one that has just come in gets the header first.
Relay(x, kind, header) == Deliver(IF ~x.playing /\ header THEN Deliver(x, "header") ELSE x, kind)

Player(f, x) == x \in sess[f.sess].sinks /\ conn[x].state = "START_PLAY"

SendTo(r, x) ==
  LET f == frame[r]
      rest == Goto(r, [f EXCEPT !.todo = @ \ {x}])
  IN  /\ At(r, "sending")
      /\ x \in f.todo
      /\ IF Player(f, x) /\ conn[x].life = "open"
         THEN /\ ConnFree(x)
              /\ Settle([conn EXCEPT ![x] = Relay(@, f.kind, sess[f.sess].header)], sess, sessionOf, removals, rest)
         ELSE Settle(conn, sess, sessionOf, removals, rest)

\* The write to the player's socket fails: HandleWrite closes it, in this thread, with both mutexes held.
SendFails(r, x) ==
  LET f == frame[r]
      shut == [conn EXCEPT ![x].life = "closed", ![x].view = "out"]
  IN  /\ At(r, "sending")
      /\ x \in f.todo
      /\ Player(f, x) /\ conn[x].life = "open"
      /\ ConnFree(x)
      /\ IF conn[x].session # None
         THEN Settle(shut, sess, sessionOf, Later(x),
                     Goto(r, [f EXCEPT !.at = "failing", !.todo = @ \ {x}, !.sink = x]))
         ELSE Settle(shut, sess, sessionOf, removals, Goto(r, [f EXCEPT !.todo = @ \ {x}]))

SendEnd(r) ==
  /\ At(r, "sending")
  /\ frame[r].todo = {}
  /\ Settle(conn, sess, sessionOf, removals, Goto(r, Idle))

-----------------------------------------------------------------------------
(* The collector: a timer of reactor 0, every three seconds, with the server's mutex held *)

GcStart ==
  /\ At(MainOf, "idle")
  /\ ServerFree
  /\ Settle(conn, sess, sessionOf, removals,
            Goto(MainOf, [Idle EXCEPT !.at = "gc", !.visit = Range(sessionOf) \ {None}]))

\* Mutant: the publisher counts, and nobody else.
ClientsPublisher(s) == {c \in sess[s].sinks : c = sess[s].publisher}

\* CRtmpSession::nGetClients.
Clients(s) == sess[s].sinks

\* Mutant: the collector stops at a session that has clients.
GcVisitFirst(s) ==
  LET f == frame[MainOf]
  IN  /\ At(MainOf, "gc")
      /\ s \in f.visit
      /\ SessionFree(s)
      /\ IF Clients(s) = {}
         THEN Settle(conn, sess, [p \in Paths |-> IF sessionOf[p] = s THEN None ELSE sessionOf[p]],
                     removals, Goto(MainOf, [f EXCEPT !.visit = @ \ {s}]))
         ELSE Settle(conn, sess, sessionOf, removals, Goto(MainOf, [f EXCEPT !.visit = {}]))

GcVisit(s) ==
  LET f == frame[MainOf]
  IN  /\ At(MainOf, "gc")
      /\ s \in f.visit
      /\ SessionFree(s)
      /\ Settle(conn, sess,
                [p \in Paths |-> IF sessionOf[p] = s /\ Clients(s) = {} THEN None ELSE sessionOf[p]],
                removals, Goto(MainOf, [f EXCEPT !.visit = @ \ {s}]))

GcEnd ==
  /\ At(MainOf, "gc")
  /\ frame[MainOf].visit = {}
  /\ Settle(conn, sess, sessionOf, removals, Goto(MainOf, Idle))

-----------------------------------------------------------------------------
(* Specifications *)

\* The steps that finish what a reactor has begun.
Continue(r) ==
  \/ CloseStart(r) \/ DeleteEnd(r) \/ PublishStart(r) \/ Enter(r) \/ AddSink(r) \/ SendEnd(r)
  \/ \E x \in Conns : SendTo(r, x) \/ SendFails(r, x)

Collect == GcEnd \/ \E s \in Sessions : GcVisit(s)

Next ==
  \/ \E c \in Conns : Accept(c)
  \/ \E r \in Reactors : Continue(r) \/ RunRemoval(r)
  \/ \E r \in Reactors, c \in Conns :
       \/ Disconnect(r, c) \/ DeleteStream(r, c)
       \/ \E p \in Paths : Publish(r, c, p) \/ Play(r, c, p)
       \/ \E kind \in Kinds : Media(r, c, kind)
  \/ GcStart \/ Collect

Spec == Init /\ [][Next]_vars

\* What a publisher that begins with its header, and then with a key frame, sends next.
InOrder(c, kind) == conn[c].view = "key" \/ kind = "header" \/ (conn[c].view = "header" /\ kind = "key")

\* Clients like this project's own: a connection plays or publishes once, only a publisher sends media, in
\* order, and nothing after it has deleted its stream.
OrderlyNext ==
  \/ \E c \in Conns : Accept(c)
  \/ \E r \in Reactors : Continue(r) \/ RunRemoval(r)
  \/ \E r \in Reactors, c \in Conns :
       \/ Disconnect(r, c)
       \/ conn[c].view # "out" /\ DeleteStream(r, c)
       \/ \E p \in Paths : conn[c].state = "HANDSHAKE" /\ (Publish(r, c, p) \/ Play(r, c, p))
       \/ \E kind \in Kinds :
            /\ conn[c].state = "START_PUBLISH" /\ conn[c].view # "out" /\ InOrder(c, kind)
            /\ Media(r, c, kind)
  \/ GcStart \/ Collect

\* A reactor goes on with what it has begun, and every turn of its loop runs the timers that are due,
\* whatever else there is to do.
Fairness ==
  /\ \A r \in Reactors : WF_vars(Continue(r)) /\ SF_vars(RunRemoval(r))
  /\ WF_vars(Collect) /\ SF_vars(GcStart)

OrderlySpec == Init /\ [][OrderlyNext]_vars /\ Fairness

-----------------------------------------------------------------------------
(* Properties *)

\* Between the handlers of one reactor, a client that was told it plays or publishes is where the collector and
\* the others look for it.  With more reactors it need not be: the collector of another thread may drop the session
\* between pGetSession and AddSink.
ClientsAreServed ==
  \A c \in Conns :
    LET s == conn[c].session
    IN  conn[c].life = "open" /\ conn[c].view # "out" /\ At(ReactorOf[c], "idle") =>
          /\ s # None /\ s \in Range(sessionOf)
          /\ c \in sess[s].sinks
          /\ conn[c].state = "START_PUBLISH" => sess[s].publisher = c

\* The header a session hands to newcomers is that of its present publisher, or of one that is being
\* removed, never of one that has left.
HeadersBelong ==
  \A s \in Sessions : sess[s].header =>
    LET c == sess[s].publisher
    IN  /\ c # None
        /\ conn[c].view # "out" \/ [sess |-> s, conn |-> c] \in Range(removals[ReactorOf[c]])

\* No client gets a frame before the header and the key frame it needs to decode it, whenever it came in
\* and however publishers follow each other.
KeyFrameFirst == \A c \in Conns : conn[c].view # "early"

\* A session that nobody is in does not stay.
EmptySessionsGo ==
  \A s \in Sessions : s \in Range(sessionOf) /\ sess[s].sinks = {} ~> s \notin Range(sessionOf) \/ sess[s].sinks # {}

\* A closed connection is destroyed, and its socket closed with it.
ClosedAreDestroyed == \A c \in Conns : conn[c].life = "closed" ~> conn[c].life # "closed"

\* r cannot go on before q lets go of a mutex.
WaitsFor(r, q) ==
  LET f == frame[r]
      g == frame[q]
  IN  \/ f.at \in {"closing", "deleting", "failing"} /\ g.at = "gc"
      \/ f.at = "gc" /\ g.at \in {"sending", "failing"} /\ f.visit = {g.sess}
      \/ /\ f.at = "sending" /\ f.todo # {}
         /\ \A x \in f.todo : Player(f, x) /\ (g.sink = x \/ (g.at = "closing" /\ g.conn = x))

\* The collector runs every three seconds: it is in no circle of threads that wait for each other.
CollectorGoesOn ==
  ~ \E S \in SUBSET Reactors : MainOf \in S /\ \A r \in S : \E q \in S : WaitsFor(r, q)
=============================================================================
