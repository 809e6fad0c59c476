--------------------------- MODULE TcpConnection ---------------------------
(***************************************************************************)
(* The locks of CTcpConnection: every connection has a mutex, held while   *)
(* its buffers are used and, in Close, while the callbacks run; Send may   *)
(* be called by any thread, from inside any callback.                      *)
(*                                                                         *)
(* A thread is a stack of calls, the innermost last.  A call is cut at     *)
(* every lock, unlock and unlocked read of m_bIsClosed; what it does while *)
(* it holds the mutex is one step.  Close sets m_bIsClosed and goes        *)
(* through RemoveChannel, which takes the reactor's mutex, before it calls *)
(* anything, so that other threads see the flag no later than the calls    *)
(* the callbacks make.                                                     *)
(***************************************************************************)
EXTENDS Naturals, Sequences, SequencesExt

CONSTANTS
  Conns,      \* connections
  Threads,    \* reactor threads, and the thread that calls CTcpServer::Stop
  Free,       \* no thread: the mutex is not held
  ReactorOf,  \* the reactor of each connection
  SendsTo,    \* the connections that the handlers a thread runs send to
  Capacity    \* the packets a write buffer takes (500 in the code)

ASSUME ThreadsAssumption == Free \notin Threads
ASSUME ReactorAssumption == ReactorOf \in [Conns -> Threads]
ASSUME SendsAssumption == SendsTo \in [Threads -> SUBSET Conns]
ASSUME CapacityAssumption == Capacity \in Nat

VARIABLES
  closedAt,  \* m_bIsClosed: 0 while it is false, else the turn in which it was set
  closes,    \* the number of connections closed so far
  mutex,     \* the thread that holds m_mutex
  pending,   \* the packets in m_writeBuf
  writing,   \* EVENT_OUT in the channel's events
  polled,    \* the channel is in the reactor's m_mapChannels
  stack      \* the calls each thread is in

vars == <<closedAt, closes, mutex, pending, writing, polled, stack>>

Places == {"read", "reading", "callback", "send", "append", "appending",
           "write", "try", "writing", "close", "notify"}

\* A call on conn; rest are the connections a callback has still to send to.
Call(at, conn, rest) == [at |-> at, conn |-> conn, rest |-> rest]

TypeOK ==
  /\ closedAt \in [Conns -> Nat]
  /\ closes \in Nat
  /\ mutex \in [Conns -> Threads \cup {Free}]
  /\ pending \in [Conns -> 0..Capacity]
  /\ writing \in [Conns -> BOOLEAN]
  /\ polled \in [Conns -> BOOLEAN]
  /\ stack \in [Threads -> Seq([at : Places, conn : Conns, rest : SUBSET Conns])]

Init ==
  /\ closedAt = [c \in Conns |-> 0]
  /\ closes = 0
  /\ mutex = [c \in Conns |-> Free]
  /\ pending = [c \in Conns |-> 0]
  /\ writing = [c \in Conns |-> FALSE]
  /\ polled = [c \in Conns |-> TRUE]
  /\ stack = [t \in Threads |-> <<>>]

-----------------------------------------------------------------------------
(* Calls, locks and callbacks *)

Closed(c) == closedAt[c] # 0

In(t, place) == stack[t] # <<>> /\ Last(stack[t]).at = place

\* The connection of the innermost call.
Conn(t) == Last(stack[t]).conn

Return(t) == stack' = [stack EXCEPT ![t] = Front(@)]

Goto(t, place, rest) == stack' = [stack EXCEPT ![t] = Append(Front(@), Call(place, Conn(t), rest))]

Lock(t) == mutex[Conn(t)] = Free /\ mutex' = [mutex EXCEPT ![Conn(t)] = t]

Unlock(t) == mutex' = [mutex EXCEPT ![Conn(t)] = Free]

\* Mutant: m_bIsClosed is set after the callbacks, not before.
CloseLate(t) ==
  /\ ~Closed(Conn(t))
  /\ polled' = [polled EXCEPT ![Conn(t)] = FALSE]
  /\ \E rest \in SUBSET SendsTo[t] : Goto(t, "notify", rest)
  /\ UNCHANGED <<closedAt, closes, pending, writing>>

\* Close of a connection whose mutex the thread holds: the flag, RemoveChannel, and the close
\* callback begins; it sends to connections the handlers of this thread know.
Close(t) ==
  /\ ~Closed(Conn(t))
  /\ closedAt' = [closedAt EXCEPT ![Conn(t)] = closes + 1]
  /\ closes' = closes + 1
  /\ polled' = [polled EXCEPT ![Conn(t)] = FALSE]
  /\ \E rest \in SUBSET SendsTo[t] : Goto(t, "notify", rest)
  /\ UNCHANGED <<pending, writing>>

-----------------------------------------------------------------------------
(* What starts a thread's work *)

\* CChannel::HandleEvent: the events epoll reports for c are handled one after the other.  EVENT_OUT
\* is reported only when the channel asked for it.  Events fetched before a channel was removed are
\* handled after it.
Event(t, c, in, out, hup) ==
  LET calls == (IF hup THEN <<Call("close", c, {})>> ELSE <<>>)
                 \o (IF out THEN <<Call("write", c, {})>> ELSE <<>>)
                 \o (IF in THEN <<Call("read", c, {})>> ELSE <<>>)
  IN  /\ stack[t] = <<>>
      /\ ReactorOf[c] = t /\ (polled[c] \/ Closed(c))
      /\ calls # <<>>
      /\ out => writing[c]
      /\ stack' = [stack EXCEPT ![t] = calls]
      /\ UNCHANGED <<closedAt, closes, mutex, pending, writing, polled>>

\* CTcpServer::Stop calls disConnect on a connection, from a thread that is no reactor.
Disconnect(t, c) ==
  /\ stack[t] = <<>>
  /\ \A x \in Conns : ReactorOf[x] # t
  /\ stack' = [stack EXCEPT ![t] = <<Call("close", c, {})>>]
  /\ UNCHANGED <<closedAt, closes, mutex, pending, writing, polled>>

-----------------------------------------------------------------------------
(* HandleRead *)

ReadLock(t) ==
  /\ In(t, "read")
  /\ UNCHANGED <<closedAt, closes, pending, writing, polled>>
  /\ \/ mutex[Conn(t)] = Free /\ Closed(Conn(t)) /\ Return(t) /\ UNCHANGED mutex
     \/ ~Closed(Conn(t)) /\ Lock(t) /\ Goto(t, "reading", {})

ReadFails(t) ==
  /\ In(t, "reading")
  /\ Close(t)
  /\ UNCHANGED mutex

\* The bytes are in m_readBuf: the read callback runs without the mutex.
ReadDone(t) ==
  /\ In(t, "reading")
  /\ Unlock(t)
  /\ \E rest \in SUBSET SendsTo[t] : Goto(t, "callback", rest)
  /\ UNCHANGED <<closedAt, closes, pending, writing, polled>>

\* The read callback returned: false closes the connection.
CallbackDone(t) ==
  /\ In(t, "callback")
  /\ Last(stack[t]).rest = {}
  /\ Return(t) \/ Goto(t, "close", {})
  /\ UNCHANGED <<closedAt, closes, mutex, pending, writing, polled>>

\* HandleClose, HandleError, disConnect, and the end of a HandleRead whose callback returned false.
CloseLock(t) ==
  /\ In(t, "close")
  /\ \/ /\ mutex[Conn(t)] = Free /\ Closed(Conn(t)) /\ Return(t)
        /\ UNCHANGED <<closedAt, closes, mutex, pending, writing, polled>>
     \/ Lock(t) /\ Close(t)

\* The callbacks of Close have returned.
NotifyDone(t) ==
  /\ In(t, "notify")
  /\ Last(stack[t]).rest = {}
  /\ Unlock(t)
  /\ Return(t)
  /\ UNCHANGED <<closedAt, closes, pending, writing, polled>>

-----------------------------------------------------------------------------
(* Send and HandleWrite *)

\* A callback calls Send for one of the connections it still has to send to.
CallSend(t, x) ==
  LET f == Last(stack[t])
  IN  /\ In(t, "callback") \/ In(t, "notify")
      /\ x \in f.rest
      /\ stack' = [stack EXCEPT ![t] = Front(@) \o <<Call(f.at, f.conn, f.rest \ {x}), Call("send", x, {})>>]
      /\ UNCHANGED <<closedAt, closes, mutex, pending, writing, polled>>

\* Send reads m_bIsClosed without the mutex.
SendCheck(t) ==
  /\ In(t, "send")
  /\ IF Closed(Conn(t)) THEN Return(t) ELSE Goto(t, "append", {})
  /\ UNCHANGED <<closedAt, closes, mutex, pending, writing, polled>>

SendLock(t) ==
  /\ In(t, "append")
  /\ Lock(t)
  /\ Goto(t, "appending", {})
  /\ UNCHANGED <<closedAt, closes, pending, writing, polled>>

\* Mutant: the capacity is not looked at.
SendAppendAlways(t) ==
  /\ In(t, "appending")
  /\ pending' = [pending EXCEPT ![Conn(t)] = @ + 1]
  /\ Unlock(t)
  /\ Goto(t, "write", {})
  /\ UNCHANGED <<closedAt, closes, writing, polled>>

\* bAppend, which drops the packet when the buffer is full, and unlock.
SendAppend(t) ==
  /\ In(t, "appending")
  /\ pending' = [pending EXCEPT ![Conn(t)] = IF @ < Capacity THEN @ + 1 ELSE @]
  /\ Unlock(t)
  /\ Goto(t, "write", {})
  /\ UNCHANGED <<closedAt, closes, writing, polled>>

WriteCheck(t) ==
  /\ In(t, "write")
  /\ IF Closed(Conn(t)) THEN Return(t) ELSE Goto(t, "try", {})
  /\ UNCHANGED <<closedAt, closes, mutex, pending, writing, polled>>

\* try_lock: HandleWrite gives up when another thread holds the mutex.
WriteTry(t) ==
  /\ In(t, "try")
  /\ \/ Lock(t) /\ Goto(t, "writing", {})
     \/ mutex[Conn(t)] # Free /\ Return(t) /\ UNCHANGED mutex
  /\ UNCHANGED <<closedAt, closes, pending, writing, polled>>

\* nSend fails; Close does nothing when another thread has closed the connection meanwhile.
WriteFails(t) ==
  /\ In(t, "writing")
  /\ pending[Conn(t)] > 0
  /\ \/ Close(t) /\ UNCHANGED mutex
     \/ /\ Closed(Conn(t)) /\ Unlock(t) /\ Return(t)
        /\ UNCHANGED <<closedAt, closes, pending, writing, polled>>

\* Mutant: EVENT_OUT is asked for only when nothing could be written.
WriteDoneStalled(t) ==
  LET c == Conn(t)
  IN  /\ In(t, "writing")
      /\ \E left \in 0..pending[c] :
           /\ pending' = [pending EXCEPT ![c] = left]
           /\ writing' = [writing EXCEPT ![c] = left = pending[c] /\ left > 0]
           /\ polled' = [polled EXCEPT ![c] = IF writing'[c] = writing[c] THEN @ ELSE TRUE]
      /\ Unlock(t)
      /\ Return(t)
      /\ UNCHANGED <<closedAt, closes>>

\* nSend writes as many packets as the socket takes; EVENT_OUT is asked for when some are left and
\* given up when none is.  UpdateChannel adds the channel when it is not in the reactor's map.
WriteDone(t) ==
  LET c == Conn(t)
  IN  /\ In(t, "writing")
      /\ \E left \in 0..pending[c] :
           /\ pending' = [pending EXCEPT ![c] = left]
           /\ writing' = [writing EXCEPT ![c] = left > 0]
           /\ polled' = [polled EXCEPT ![c] = IF writing'[c] = writing[c] THEN @ ELSE TRUE]
      /\ Unlock(t)
      /\ Return(t)
      /\ UNCHANGED <<closedAt, closes>>

Next ==
  \/ \E t \in Threads, c \in Conns, in, out, hup \in BOOLEAN : Event(t, c, in, out, hup)
  \/ \E t \in Threads, c \in Conns : Disconnect(t, c) \/ CallSend(t, c)
  \/ \E t \in Threads :
       \/ ReadLock(t) \/ ReadFails(t) \/ ReadDone(t) \/ CallbackDone(t) \/ CloseLock(t) \/ NotifyDone(t)
       \/ SendCheck(t) \/ SendLock(t) \/ SendAppend(t)
       \/ WriteCheck(t) \/ WriteTry(t) \/ WriteFails(t) \/ WriteDone(t)

Spec == Init /\ [][Next]_vars

-----------------------------------------------------------------------------
(* Properties *)

\* The thread is blocked in a lock() of this connection's mutex.
Waits(t, c) == (In(t, "read") \/ In(t, "close") \/ In(t, "append")) /\ Conn(t) = c /\ mutex[c] # Free

Blocked(t) == \E c \in Conns : Waits(t, c)

\* Close calls out with the mutex held, and the callbacks of two connections may send to each other.
\* Still no thread waits for a mutex it holds, nor two or more for each other: whoever waits for the
\* mutex of a thread that waits too holds only connections that were closed before that one.
WaitsUpward ==
  \A t, u \in Threads, c, h \in Conns :
    Waits(t, c) /\ mutex[c] = u /\ Blocked(u) /\ mutex[h] = t => closedAt[h] < closedAt[c]

\* A connection that only its own reactor's handlers send to.
Private(c) == \A t \in Threads : c \in SendsTo[t] => t = ReactorOf[c]

\* The connection has a packet to write and no thread is at it.
Left(c) ==
  /\ pending[c] > 0 /\ ~Closed(c)
  /\ \A t \in Threads : \A i \in DOMAIN stack[t] :
       stack[t][i].conn = c => stack[t][i].at \notin {"appending", "write", "try", "writing"}

\* Data that is left in the write buffer waits for a write event, when no other reactor's handlers
\* send to the connection.
PrivateLeftIsAwaited == \A c \in Conns : Private(c) /\ Left(c) => writing[c] /\ polled[c]

-----------------------------------------------------------------------------
(* What the code does not keep: TLC refutes this, see the README *)

\* Data that is left in the write buffer waits for a write event.
LeftIsAwaited == \A c \in Conns : Left(c) => writing[c] /\ polled[c]
=============================================================================
