----------------------------- MODULE Signaling -----------------------------
(***************************************************************************)
(* The signalling server of CloudTeachingAssistant: CSigConnection (one    *)
(* object per accepted TCP connection), the singleton CConnectionManager   *)
(* that maps a client's code to its connection, and the parts of           *)
(* CTcpServer and CTcpConnection that decide how long an object lives.     *)
(*                                                                         *)
(* A connection is served by one reactor thread, and a reactor runs one    *)
(* handler at a time.  A handler that queries the manager and acts on the  *)
(* answer later, or that walks m_vecObjectes, is cut where other threads   *)
(* can get in between: the reactor's frame holds the handler's local       *)
(* variables until its next step.  With one reactor the handlers are       *)
(* therefore sequential; with several they interleave between those steps. *)
(*                                                                         *)
(* A Send appends to the receiver's write buffer, so that it shows here as *)
(* a message in outbox, the messages sent by the last step; a socket that  *)
(* breaks is seen by a later Disconnect of its connection.                 *)
(***************************************************************************)
EXTENDS Naturals, Sequences, SequencesExt

CONSTANTS
  Conns,       \* connection objects, one for every accept of a run
  Codes,       \* the non-empty client codes
  NoCode,      \* the empty string: a JOIN or OBTAINSTREAM may carry it
  NoConn,      \* the null shared_ptr
  Reactors,    \* reactor threads
  ReactorOf,   \* the reactor that CSigServer::onConnect picks for each object
  Asked        \* the ids that JOIN and OBTAINSTREAM carry

Ids == Codes \cup {NoCode}

ASSUME CodesAssumption == NoCode \notin Codes
ASSUME ConnsAssumption == NoConn \notin Conns
ASSUME ReactorAssumption == ReactorOf \in [Conns -> Reactors]
ASSUME AskedAssumption == Asked \subseteq Ids

VARIABLES
  life,      \* the object: new (not accepted), open, closing (m_bIsClosed is set,
             \* still in m_mapConnections), closed (only shared_ptrs hold it), gone
  role,      \* m_state
  code,      \* m_strCode
  addr,      \* whether m_strStreamAddr is non-empty
  target,    \* m_conn
  objs,      \* m_vecObjectes
  registry,  \* CConnectionManager::m_mapConnMaps
  frame,     \* the handler each reactor is in, with its local variables
  outbox     \* the messages sent by the last step

vars == <<life, role, code, addr, target, objs, registry, frame, outbox>>

Lives == {"new", "open", "closing", "closed", "gone"}

Roles == {"IDLE", "NONE", "CLOSE", "PULLER", "PUSHER"}

Idle == [op |-> "idle", conn |-> NoConn, id |-> NoCode, peer |-> NoConn, i |-> 0, end |-> 0]

\* The locals of a request that has checked, and those of a loop over m_vecObjectes.
Request(op, c, k, o) == [op |-> op, conn |-> c, id |-> k, peer |-> o, i |-> 0, end |-> 0]

Loop(op, c) == [op |-> op, conn |-> c, id |-> NoCode, peer |-> NoConn, i |-> 1, end |-> Len(objs[c])]

Frame ==
  [op : {"idle", "join", "control", "watch", "create", "clear", "close"},
   conn : Conns \cup {NoConn}, id : Ids, peer : Conns \cup {NoConn}, i : Nat, end : Nat]

Message ==
  [to : Conns, cmd : {"JOIN", "OBTAINSTREAM", "CREATESTREAM", "PLAYSTREAM", "DELETESTREAM", "KEY"},
   ok : BOOLEAN, count : Nat]

TypeOK ==
  /\ life \in [Conns -> Lives]
  /\ role \in [Conns -> Roles]
  /\ code \in [Conns -> Ids]
  /\ addr \in [Conns -> BOOLEAN]
  /\ target \in [Conns -> Conns \cup {NoConn}]
  /\ objs \in [Conns -> Seq(Ids)]
  /\ registry \in [Codes -> Conns \cup {NoConn}]
  /\ frame \in [Reactors -> Frame]
  /\ outbox \subseteq Message

Init ==
  /\ life = [c \in Conns |-> "new"]
  /\ role = [c \in Conns |-> "NONE"]
  /\ code = [c \in Conns |-> NoCode]
  /\ addr = [c \in Conns |-> FALSE]
  /\ target = [c \in Conns |-> NoConn]
  /\ objs = [c \in Conns |-> <<>>]
  /\ registry = [k \in Codes |-> NoConn]
  /\ frame = [r \in Reactors |-> Idle]
  /\ outbox = {}

-----------------------------------------------------------------------------
(* Helpers *)

\* CConnectionManager::QueryConn; nothing is ever stored under the empty string.
QueryConn(k) == IF k \in Codes THEN registry[k] ELSE NoConn

\* Mutant: the search for the code is dropped.
AddClientAlways(s, k) == Append(s, k)

\* AddClient: append unless present.
AddClient(s, k) == IF k \in Range(s) THEN s ELSE Append(s, k)

\* std::remove + erase.  AddClient keeps the elements distinct (DistinctPartners), so
\* that there is one element to take out.
Without(s, k) ==
  IF k \in Range(s) THEN RemoveAt(s, CHOOSE i \in DOMAIN s : s[i] = k) ELSE s

OneReactor == \A x, y \in Reactors : x = y

\* Mutant: an index that is one too high.
SlotShifted(s, i) == IF i + 1 \in DOMAIN s THEN {s[i + 1]} ELSE {NoCode}

\* What a range-for over m_vecObjectes can read at index i.  RemoveClient shortens the vector
\* that DoCreateStream is walking, but the loop keeps the end it started with, and the slots
\* that erase freed hold the empty strings it moved from.  Another thread's AddClient or
\* RemoveClient moves the elements, or the whole buffer, with nothing to order the two: then
\* the loop may read any string.
Slot(s, i) ==
  IF ~OneReactor THEN Ids
  ELSE IF i \in DOMAIN s THEN {s[i]} ELSE {NoCode}

\* Mutant: the client stays busy when its last partner goes.
RemoveClientOnly(o, k) == objs' = [objs EXCEPT ![o] = Without(@, k)] /\ UNCHANGED role

\* RemoveClient(k) of the object o: m_vecObjectes, then m_state.
RemoveClient(o, k) ==
  /\ objs' = [objs EXCEPT ![o] = Without(@, k)]
  /\ role' = [role EXCEPT ![o] =
                IF objs[o] # <<>> /\ Without(objs[o], k) = <<>> THEN "IDLE" ELSE @]

\* Mutant: the entry is not erased.
RemoveConnNot(k) == registry

\* RemoveConn: the entry of the code, whoever it leads to.
RemoveConn(k) == [j \in Codes |-> IF j = k THEN NoConn ELSE registry[j]]

\* Mutant: an entry that is already there is replaced.
AddConnOver(k, c) == [j \in Codes |-> IF j = k THEN c ELSE registry[j]]

\* AddConn leaves an entry that is already there.
AddConn(k, c) == [j \in Codes |-> IF j = k /\ registry[j] = NoConn THEN c ELSE registry[j]]

Msg(to, cmd, ok, count) == [to |-> to, cmd |-> cmd, ok |-> ok, count |-> count]

\* CTcpConnection::Send drops what is sent to a connection that is closed.
Send(ms) == outbox' = {m \in ms : life'[m.to] = "open"}

Reply(c, cmd, ok) == Send({Msg(c, cmd, ok, 0)})

\* The reactor of c is between two events, and c can get one.
Ready(c) == life[c] = "open" /\ frame[ReactorOf[c]].op = "idle"

\* The rest of a loop: the next iteration, or the end of the handler.
NextIteration(f) == IF f.i < f.end THEN [f EXCEPT !.i = f.i + 1] ELSE Idle

\* The shared_ptrs that keep a closed object alive: another object's m_conn, and the
\* locals of a handler.
Held(o, targets, frames) ==
  \/ \E c \in Conns : targets[c] = o
  \/ \E r \in Reactors : o \in {frames[r].conn, frames[r].peer}

\* A closed object that nothing holds any more is destroyed; its destructor calls Clear
\* again, of which only RemoveConn(m_strCode) still has an effect: it takes the entry of
\* that code out of the manager, whoever is registered under it by then.
Settle(lives, targets, frames, entries) ==
  LET dead == {o \in Conns : lives[o] = "closed" /\ ~Held(o, targets, frames)}
  IN  /\ life' = [o \in Conns |-> IF o \in dead THEN "gone" ELSE lives[o]]
      /\ target' = targets
      /\ frame' = frames
      /\ registry' = [k \in Codes |-> IF \E o \in dead : code[o] = k THEN NoConn ELSE entries[k]]

-----------------------------------------------------------------------------
(* Connections come and go *)

\* CTcpServer's new-connection callback: a fresh CSigConnection enters m_mapConnections.
Accept(c) ==
  /\ life[c] = "new"
  /\ life' = [life EXCEPT ![c] = "open"]
  /\ outbox' = {}
  /\ UNCHANGED <<role, code, addr, target, objs, registry, frame>>

\* The start of Clear: m_state = CLOSE, m_conn = nullptr (which may destroy the target).
StartClear(c, op, lives) ==
  /\ role' = [role EXCEPT ![c] = "CLOSE"]
  /\ Settle(lives, [target EXCEPT ![c] = NoConn], [frame EXCEPT ![ReactorOf[c]] = Loop(op, c)], registry)
  /\ outbox' = {}
  /\ UNCHANGED <<code, addr, objs>>

\* CTcpConnection::Close: m_bIsClosed is set, then the close callback runs Clear.
Disconnect(c) ==
  /\ Ready(c)
  /\ StartClear(c, "close", [life EXCEPT ![c] = "closing"])

\* HandleDeleteStream: only a PUSHER or a PULLER clears; the TCP connection stays open.
DeleteStream(c) ==
  /\ Ready(c)
  /\ role[c] \in {"PUSHER", "PULLER"}
  /\ StartClear(c, "clear", life)

\* Mutants: the number of partners is taken before our code is removed.
RemainingEarly(o) == Len(objs[o]) - 1
RemainingBefore(o) == Len(objs[o])

\* The stream count of a DELETESTREAM, read from the receiver after the removal.
Remaining(o) == Len(objs'[o])

\* One iteration of Clear: take our code out of a registered partner and tell it how many
\* partners it has left.
ClearStep(r) ==
  LET f == frame[r]
  IN  /\ f.op \in {"clear", "close"}
      /\ f.i <= f.end
      /\ frame' = [frame EXCEPT ![r].i = @ + 1]
      /\ UNCHANGED <<life, code, addr, target, registry>>
      /\ \E k \in Slot(objs[f.conn], f.i) :
           \/ /\ QueryConn(k) = NoConn
              /\ outbox' = {}
              /\ UNCHANGED <<objs, role>>
           \/ /\ QueryConn(k) # NoConn
              /\ RemoveClient(QueryConn(k), code[f.conn])
              /\ Send({Msg(QueryConn(k), "DELETESTREAM", TRUE, Remaining(QueryConn(k)))})

\* The end of Clear: m_vecObjectes is emptied and RemoveConn(m_strCode) erases the entry of
\* that code.  When the connection closes, the disconnect callback then takes the object out
\* of m_mapConnections.
ClearEnd(r) ==
  LET f == frame[r]
      c == f.conn
  IN  /\ f.op \in {"clear", "close"}
      /\ f.i > f.end
      /\ objs' = [objs EXCEPT ![c] = <<>>]
      /\ Settle(IF f.op = "close" THEN [life EXCEPT ![c] = "closed"] ELSE life,
                target,
                [frame EXCEPT ![r] = Idle],
                RemoveConn(code[c]))
      /\ outbox' = {}
      /\ UNCHANGED <<role, code, addr>>

-----------------------------------------------------------------------------
(* Requests *)

MayJoin(c, k) == role[c] = "NONE" /\ QueryConn(k) = NoConn

\* HandleJoin up to QueryConn: a code that is taken, or a second JOIN, is an error.
JoinCheck(c, k) ==
  /\ Ready(c)
  /\ UNCHANGED <<life, role, code, addr, target, objs, registry>>
  /\ \/ /\ ~MayJoin(c, k)
        /\ Reply(c, "JOIN", FALSE)
        /\ UNCHANGED frame
     \/ /\ MayJoin(c, k)
        /\ frame' = [frame EXCEPT ![ReactorOf[c]] = Request("join", c, k, NoConn)]
        /\ outbox' = {}

\* The rest of HandleJoin.
JoinAdd(r) ==
  LET f == frame[r]
  IN  /\ f.op = "join"
      /\ code' = [code EXCEPT ![f.conn] = f.id]
      /\ role' = [role EXCEPT ![f.conn] = "IDLE"]
      /\ registry' = AddConn(f.id, f.conn)
      /\ frame' = [frame EXCEPT ![r] = Idle]
      /\ UNCHANGED <<life, addr, target, objs>>
      /\ Reply(f.conn, "JOIN", TRUE)

\* DoObtainStream up to the switch: what becomes of a request for the connection o.  A target
\* that is IDLE is going to be controlled, one that is PUSHER and has an address watched.
ObtainBranch(c, o) ==
  IF o \in {NoConn, c} \/ role[c] # "IDLE" THEN "error"
  ELSE IF role[o] = "IDLE" THEN "control"
  ELSE IF role[o] = "PUSHER" /\ addr[o] THEN "watch"
  ELSE "error"

ObtainCheck(c, k) ==
  LET o == QueryConn(k)
      branch == ObtainBranch(c, o)
  IN  /\ Ready(c)
      /\ UNCHANGED <<life, role, code, addr, target, objs, registry>>
      /\ \/ /\ branch = "error"
            /\ UNCHANGED frame
            /\ Reply(c, "OBTAINSTREAM", FALSE)
         \/ /\ branch # "error"
            /\ frame' = [frame EXCEPT ![ReactorOf[c]] = Request(branch, c, k, o)]
            /\ outbox' = {}

\* The rest of DoObtainStream.  The two become each other's partners; only the branch of an
\* IDLE target sets m_conn, which drops the connection it held before.
ObtainLink(r) ==
  LET f == frame[r]
      c == f.conn
      o == f.peer
      control == f.op = "control"
      listed == [objs EXCEPT ![c] = AddClient(objs[c], f.id)]
  IN  /\ f.op \in {"control", "watch"}
      /\ role' = [role EXCEPT ![c] = "PULLER"]
      /\ objs' = [listed EXCEPT ![o] = AddClient(listed[o], code[c])]
      /\ Settle(life, IF control THEN [target EXCEPT ![c] = o] ELSE target, [frame EXCEPT ![r] = Idle], registry)
      /\ Send(IF control THEN {Msg(o, "CREATESTREAM", TRUE, 0), Msg(c, "OBTAINSTREAM", TRUE, 0)}
                         ELSE {Msg(c, "PLAYSTREAM", TRUE, 0)})
      /\ UNCHANGED <<code, addr>>

\* DoCreateStream: keep the address (a client whose push failed replies with none) and start
\* walking m_vecObjectes.
CreateStream(c, hasAddr) ==
  /\ Ready(c)
  /\ addr' = [addr EXCEPT ![c] = hasAddr]
  /\ frame' = IF objs[c] = <<>> THEN frame ELSE [frame EXCEPT ![ReactorOf[c]] = Loop("create", c)]
  /\ outbox' = {}
  /\ UNCHANGED <<life, role, code, target, objs, registry>>

\* What DoCreateStream does for the code k: its connection o is gone, or is told that there is no
\* stream, or is dropped because it is not pulling, or gets the address.
CreateFor(c, k, o) ==
  LET play(ok) == Send({Msg(o, "PLAYSTREAM", ok, 0)})
  IN  \/ o = NoConn /\ RemoveClient(c, k) /\ outbox' = {}
      \/ o # NoConn /\ ~addr[c]
         /\ role' = [role EXCEPT ![o] = "IDLE"] /\ UNCHANGED objs /\ play(FALSE)
      \/ o # NoConn /\ addr[c] /\ role[o] # "PULLER"
         /\ RemoveClient(c, code[o]) /\ play(FALSE)
      \/ o # NoConn /\ addr[c] /\ role[o] = "PULLER"
         /\ role' = [role EXCEPT ![c] = "PUSHER"] /\ UNCHANGED objs /\ play(TRUE)

\* One iteration of DoCreateStream.
CreateStep(r) ==
  LET f == frame[r]
      c == f.conn
  IN  /\ f.op = "create"
      /\ frame' = [frame EXCEPT ![r] = NextIteration(f)]
      /\ UNCHANGED <<life, code, addr, target, registry>>
      /\ \E k \in Slot(objs[c], f.i) : CreateFor(c, k, QueryConn(k))

\* HandleOtherMessage: a puller's mouse and key messages go to m_conn.
Forward(c) ==
  /\ Ready(c)
  /\ target[c] # NoConn /\ role[c] = "PULLER"
  /\ UNCHANGED <<life, role, code, addr, target, objs, registry, frame>>
  /\ Send({Msg(target[c], "KEY", TRUE, 0)})

Next ==
  \/ \E c \in Conns : Accept(c) \/ Disconnect(c) \/ DeleteStream(c) \/ Forward(c)
  \/ \E c \in Conns, k \in Asked : JoinCheck(c, k) \/ ObtainCheck(c, k)
  \/ \E c \in Conns, hasAddr \in BOOLEAN : CreateStream(c, hasAddr)
  \/ \E r \in Reactors : JoinAdd(r) \/ ObtainLink(r) \/ CreateStep(r) \/ ClearStep(r) \/ ClearEnd(r)

Spec == Init /\ [][Next]_vars

\* Clients that never join with a code some earlier object still carries.  The server does
\* not ask for it: a client that reconnects while its old object is held does not keep to it.
CodeFree(k) == \A o \in Conns : life[o] \in {"open", "closing", "closed"} => code[o] # k

Orderly ==
  \A r \in Reactors :
    frame[r].op # "join" /\ frame'[r].op = "join" /\ frame'[r].id \in Codes => CodeFree(frame'[r].id)

OrderlySpec == Init /\ [][Next /\ Orderly]_vars

-----------------------------------------------------------------------------
(* Properties *)

Clearing(c) == \E r \in Reactors : frame[r].op \in {"clear", "close"} /\ frame[r].conn = c

\* What the manager finds under a code is a connection that joined with that code, has not been
\* closed, and is not CLOSE unless its own thread is inside Clear.  Every handler trusts QueryConn
\* for that: it sends to the connection found and changes its state.
RegisteredAreOpen ==
  \A k \in Codes : registry[k] # NoConn =>
    LET o == registry[k]
    IN  /\ life[o] \in {"open", "closing"}
        /\ code[o] = k
        /\ role[o] # "NONE"
        /\ (role[o] = "CLOSE" \/ life[o] = "closing") => Clearing(o)

\* A client that pulls or pushes has a partner in m_vecObjectes, whose leaving ends it: when the
\* last partner is removed the client is IDLE again, whichever handler removed it.
BusyHavePartners ==
  \A c \in Conns : role[c] \in {"PULLER", "PUSHER"} => objs[c] # <<>>

\* No code is twice in m_vecObjectes: DELETESTREAM carries its length as the number of clients
\* that are left.
DistinctPartners ==
  \A c \in Conns : \A i, j \in DOMAIN objs[c] : objs[c][i] = objs[c][j] => i = j

\* CLOSE is final: no handler of another connection makes a closed client IDLE again.
ClosedIsFinal == [][\A c \in Conns : role[c] = "CLOSE" => role'[c] = "CLOSE"]_vars

\* When Clear ends, no registered partner still lists the client that left.
LeaveReachesAll ==
  [][\A r \in Reactors :
        LET c == frame[r].conn
        IN  frame[r].op \in {"clear", "close"} /\ frame'[r].op = "idle" =>
              \A k \in Range(objs[c]) :
                QueryConn(k) # NoConn => code[c] \notin Range(objs[QueryConn(k)])]_vars

\* The server is in HandleJoin of the client.
Joining(c) == \E r \in Reactors : frame[r].op = "join" /\ frame[r].conn = c

\* The manager as a directory: a client asks between QueryConn and AddConn, and leaves while its
\* Clear runs and, once closed, until its destructor has run.
Standing ==
  [c \in Conns |-> IF code[c] \in Codes
                     THEN IF life[c] = "gone" THEN "gone"
                          ELSE IF Clearing(c) \/ life[c] = "closed" THEN "leaving"
                          ELSE "carrying"
                     ELSE IF Joining(c) /\ frame[ReactorOf[c]].id \in Codes THEN "asking" ELSE "out"]

HeldCode == [c \in Conns |-> IF Joining(c) THEN frame[ReactorOf[c]].id ELSE code[c]]

D == INSTANCE Directory WITH owner <- registry, standing <- Standing, held <- HeldCode

\* The server implements the directory, whatever its clients and reactors do: a client is entered
\* only under a code it has found free, and does not replace one entered meanwhile; an entry goes
\* only in the Clear or the destructor of an object that joined with its code.
ImplementsDirectory == D!Spec

-----------------------------------------------------------------------------
(* What the code does not keep: TLC refutes each of these, see the README *)

\* A client that joined and has not left is found under its code.  The Clear or the destructor of
\* an earlier object that joined with the code takes the entry.
DirectoryExact ==
  \A c \in Conns : role[c] \in {"IDLE", "PULLER", "PUSHER"} /\ code[c] \in Codes => registry[code[c]] = c

\* A JOIN answered with SUCCESSFUL has put the client into the manager.  On two reactors another
\* client may have been added between the query and the insertion.
JoinRegisters ==
  [][\A m \in outbox' : m.cmd = "JOIN" /\ m.ok /\ code'[m.to] \in Codes => registry'[code'[m.to]] = m.to]_vars

\* A puller's mouse and key messages go to a connection it has a session with.
ControlsWhatItWatches ==
  \A c \in Conns : role[c] = "PULLER" /\ target[c] # NoConn => code[target[c]] \in Range(objs[c])

\* When DoCreateStream has walked m_vecObjectes with an address, a partner that is pulling has
\* made the connection a PUSHER (and has been sent the address).
CreateReachesPullers ==
  [][\A r \in Reactors :
        LET c == frame[r].conn
            pulls(k) == QueryConn(k) # NoConn /\ role'[QueryConn(k)] = "PULLER"
        IN  frame[r].op = "create" /\ frame'[r].op = "idle" /\ addr[c] /\ (\E k \in Range(objs'[c]) : pulls(k))
              => role'[c] = "PUSHER"]_vars
=============================================================================
