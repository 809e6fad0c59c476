----------------------------- MODULE TcpServer -----------------------------
(***************************************************************************)
(* CTcpServer over CAcceptor, CEventLoop and CReactorEpoll: connections    *)
(* are accepted on reactor 0, dealt out to the reactors and entered in     *)
(* m_mapConnections; a connection closes on its reactor, in Stop or where  *)
(* a write to it fails, leaves the table through its disconnect callback,  *)
(* and its descriptor is closed, free for the next one, when the last that *)
(* holds the connection lets go of it.                                     *)
(*                                                                         *)
(* Everything is found by descriptor: the table, each reactor's            *)
(* m_mapChannels and the kernel's epoll set, from which a descriptor       *)
(* vanishes when it is closed.  Any thread may be writing to a connection  *)
(* while another closes it; who writes holds the connection.               *)
(***************************************************************************)
EXTENDS Naturals

CONSTANTS
  Conns,     \* connection objects
  Fds,       \* descriptors, numbers
  Reactors,  \* the number of reactors
  Main,      \* the thread that calls CTcpServer::Stop
  None

ASSUME ReactorsAssumption == Reactors \in Nat \ {0}
ASSUME NoneAssumption == None \notin Conns

VARIABLES
  life,      \* a connection is "unborn", "open", "closed" (m_bIsClosed) or "gone"
  fd,        \* its descriptor
  home,      \* its reactor
  notifies,  \* its disconnect callback is set
  table,     \* m_mapConnections
  channels,  \* m_mapChannels of each reactor
  epoll,     \* the kernel's set of each reactor
  index,     \* m_nReactorIndex
  dealt,     \* how many connections each reactor was given (a history variable)
  accepting, \* where onAccept is, and its connection
  closing,   \* the connections whose Close each thread is in, with their mutexes held
  writing,   \* the connection whose HandleWrite each thread is in, its m_bIsClosed looked at
  late,      \* the connections whose channel was updated after they closed (a history variable)
  started    \* m_bIsStarted and how far Stop is

connVars == <<life, fd, home, notifies>>
pollVars == <<channels, epoll>>
vars == <<connVars, table, pollVars, index, dealt, accepting, closing, writing, late, started>>

Ids == 0..(Reactors - 1)
Closers == Ids \cup {Main}
Nobody == [at |-> "no", conn |-> None]

TypeOK ==
  /\ life \in [Conns -> {"unborn", "open", "closed", "gone"}]
  /\ fd \in [Conns -> Fds \cup {None}]
  /\ home \in [Conns -> Ids \cup {None}]
  /\ notifies \in [Conns -> BOOLEAN]
  /\ table \in [Fds -> Conns \cup {None}]
  /\ channels \in [Ids -> [Fds -> Conns \cup {None}]]
  /\ epoll \in [Ids -> [Fds -> Conns \cup {None}]]
  /\ index \in Ids \cup {1}
  /\ dealt \in [Ids -> Nat]
  /\ accepting \in [at : {"no", "add", "callback"}, conn : Conns \cup {None}]
  /\ closing \in [Closers -> SUBSET Conns]
  /\ writing \in [Closers -> Conns \cup {None}]
  /\ late \subseteq Conns
  /\ started \in {"yes", "walking", "no"}

Init ==
  /\ life = [c \in Conns |-> "unborn"]
  /\ fd = [c \in Conns |-> None] /\ home = [c \in Conns |-> None]
  /\ notifies = [c \in Conns |-> FALSE]
  /\ table = [f \in Fds |-> None]
  /\ channels = [r \in Ids |-> [f \in Fds |-> None]] /\ epoll = channels
  /\ index = 1
  /\ dealt = [r \in Ids |-> 0]
  /\ accepting = Nobody
  /\ closing = [t \in Closers |-> {}]
  /\ writing = [t \in Closers |-> None]
  /\ late = {}
  /\ started = "no"

-----------------------------------------------------------------------------
(* CEventLoop::GetReactor, CReactorEpoll *)

GetReactor == IF Reactors = 1 THEN 0 ELSE index

\* Mutant: the index wraps to the second reactor.
NextIndexFromOne == IF Reactors = 1 THEN index ELSE IF index + 1 >= Reactors THEN 1 ELSE index + 1

\* Mutant: the index runs one past the last reactor.
NextIndexPastEnd == IF Reactors = 1 THEN index ELSE IF index + 1 > Reactors THEN 0 ELSE index + 1

NextIndex == IF Reactors = 1 THEN index ELSE IF index + 1 >= Reactors THEN 0 ELSE index + 1

\* A channel with interests: a descriptor that m_mapChannels knows is modified, which fails when the
\* kernel does not know it; any other is added.
UpdateChannel(r, f, c) ==
  IF channels[r][f] # None
    THEN /\ epoll' = [epoll EXCEPT ![r][f] = IF @ = None THEN None ELSE c]
         /\ UNCHANGED channels
    ELSE /\ channels' = [channels EXCEPT ![r][f] = c]
         /\ epoll' = [epoll EXCEPT ![r][f] = c]

RemoveChannel(r, f) ==
  /\ channels' = [channels EXCEPT ![r][f] = None]
  /\ epoll' = [epoll EXCEPT ![r][f] = IF channels[r][f] # None THEN None ELSE @]

-----------------------------------------------------------------------------
(* Accept, on reactor 0 *)

\* What a thread is in the middle of, but for the callbacks of a Close.
Busy(t) == writing[t] # None \/ (t = 0 /\ accepting # Nobody)

\* Mutant: Close closes the descriptor, not the destructor.
FreeFdsOfClosed == {f \in Fds : \A c \in Conns : fd[c] = f => life[c] # "open"}

FreeFds == {f \in Fds : \A c \in Conns : fd[c] = f => life[c] = "gone"}

\* nListen has put the listening socket into epoll.
Listening == started # "no"

\* onConnect: the constructor registers the channel, with the lowest free descriptor, at the reactor it
\* was given.
Accept(c) ==
  /\ Listening
  /\ ~Busy(0) /\ closing[0] = {}
  /\ life[c] = "unborn"
  /\ \E f \in FreeFds :
       /\ \A g \in FreeFds : f <= g
       /\ fd' = [fd EXCEPT ![c] = f]
       /\ UpdateChannel(GetReactor, f, c)
  /\ life' = [life EXCEPT ![c] = "open"]
  /\ home' = [home EXCEPT ![c] = GetReactor]
  /\ dealt' = [dealt EXCEPT ![GetReactor] = @ + 1]
  /\ index' = NextIndex
  /\ accepting' = [at |-> "add", conn |-> c]
  /\ UNCHANGED <<notifies, table, closing, writing, late, started>>

\* addConnection: emplace leaves an entry that is there.
AddConnection ==
  /\ accepting.at = "add"
  /\ LET f == fd[accepting.conn]
     IN  table' = IF table[f] = None THEN [table EXCEPT ![f] = accepting.conn] ELSE table
  /\ accepting' = [accepting EXCEPT !.at = "callback"]
  /\ UNCHANGED <<connVars, pollVars, index, dealt, closing, writing, late, started>>

SetDisconnectCallback ==
  /\ accepting.at = "callback"
  /\ notifies' = [notifies EXCEPT ![accepting.conn] = TRUE]
  /\ accepting' = Nobody
  /\ UNCHANGED <<life, fd, home, table, pollVars, index, dealt, closing, writing, late, started>>

-----------------------------------------------------------------------------
(* Close, on the connection's reactor, in Stop or in a write that fails *)

\* Mutant: the channel is removed after the callbacks.
CloseStartKeepsChannel(t, c) ==
  /\ life[c] = "open"
  /\ life' = [life EXCEPT ![c] = "closed"]
  /\ closing' = [closing EXCEPT ![t] = @ \cup {c}]
  /\ UNCHANGED <<fd, home, notifies, pollVars, table, index, dealt, accepting, late>>

\* m_bIsClosed is set and the channel removed.
CloseStart(t, c) ==
  /\ life[c] = "open"
  /\ life' = [life EXCEPT ![c] = "closed"]
  /\ RemoveChannel(home[c], fd[c])
  /\ closing' = [closing EXCEPT ![t] = @ \cup {c}]
  /\ UNCHANGED <<fd, home, notifies, table, index, dealt, accepting, late>>

\* A hang-up or an error is reported for a channel that epoll knows; for one that is closed already
\* nothing happens.
HangUp(r, f) ==
  /\ ~Busy(r) /\ closing[r] = {}
  /\ epoll[r][f] # None
  /\ CloseStart(r, epoll[r][f])
  /\ UNCHANGED <<writing, started>>

\* The disconnect callback, when it is set: removeConnection, by descriptor.  Of closes within each
\* other's callbacks any may be done first.
Notify(t, c) ==
  /\ c \in closing[t] /\ writing[t] = None
  /\ closing' = [closing EXCEPT ![t] = @ \ {c}]
  /\ table' = IF notifies[c] THEN [table EXCEPT ![fd[c]] = None] ELSE table
  /\ UNCHANGED <<connVars, pollVars, index, dealt, accepting, writing, late, started>>

\* The last reference is gone, which a session may have held for a while: the descriptor is closed,
\* and leaves the kernel's sets but not m_mapChannels.
Destroy(c) ==
  /\ life[c] = "closed"
  /\ accepting.conn # c
  /\ \A f \in Fds : table[f] # c
  /\ \A t \in Closers : c \notin closing[t] /\ writing[t] # c
  /\ life' = [life EXCEPT ![c] = "gone"]
  /\ epoll' = [r \in Ids |-> [epoll[r] EXCEPT ![fd[c]] = None]]
  /\ UNCHANGED <<fd, home, notifies, channels, table, index, dealt, accepting, closing, writing, late, started>>

-----------------------------------------------------------------------------
(* HandleWrite, on any reactor's thread, and on Stop's within the callbacks of a Close *)

WriteChecks(t, c) ==
  /\ ~Busy(t)
  /\ t = Main => closing[Main] # {}
  /\ life[c] = "open"
  /\ writing' = [writing EXCEPT ![t] = c]
  /\ UNCHANGED <<connVars, table, pollVars, index, dealt, accepting, closing, late, started>>

\* Close holds the mutex throughout.
MutexFree(c) == \A t \in Closers : c \notin closing[t]

\* What is left to send has come or gone: the interest in writing changes with it.  The connection may
\* have been closed since it was looked at.
WriteUpdates(t) ==
  LET c == writing[t]
  IN  /\ c # None /\ MutexFree(c)
      /\ UpdateChannel(home[c], fd[c], c)
      /\ late' = IF life[c] = "open" THEN late ELSE late \cup {c}
      /\ writing' = [writing EXCEPT ![t] = None]
      /\ UNCHANGED <<connVars, table, index, dealt, accepting, closing, started>>

\* The socket fails: the writer closes.
WriteFails(t) ==
  /\ writing[t] # None /\ MutexFree(writing[t])
  /\ CloseStart(t, writing[t])
  /\ writing' = [writing EXCEPT ![t] = None]
  /\ UNCHANGED started

\* The mutex is taken, or the interest is right, or the socket of what is closed already fails.
WriteLeaves(t) ==
  /\ writing[t] # None
  /\ writing' = [writing EXCEPT ![t] = None]
  /\ UNCHANGED <<connVars, table, pollVars, index, dealt, accepting, closing, late, started>>

-----------------------------------------------------------------------------
(* bStart and Stop, on a thread that is no reactor *)

\* nListen succeeds: accepting begins, with the connections that an earlier Stop did not reach.
StartListening ==
  /\ started = "no"
  /\ started' = "yes"
  /\ UNCHANGED <<connVars, table, pollVars, index, dealt, accepting, closing, writing, late>>

StopBegins ==
  /\ started = "yes"
  /\ started' = "walking"
  /\ UNCHANGED <<connVars, table, pollVars, index, dealt, accepting, closing, writing, late>>

\* disConnect of an entry the walk is at.  The callback erases it, and where an iterator that was
\* erased leads is undefined: the walk may meet any entry next, or end early.
Disconnect(f) ==
  /\ started = "walking"
  /\ ~Busy(Main) /\ closing[Main] = {}
  /\ table[f] # None
  /\ CloseStart(Main, table[f])
  /\ UNCHANGED <<writing, started>>

\* The walk is over: the acceptor stops listening.
StopEnds ==
  /\ started = "walking"
  /\ ~Busy(Main) /\ closing[Main] = {}
  /\ started' = "no"
  /\ UNCHANGED <<connVars, table, pollVars, index, dealt, accepting, closing, writing, late>>

Next ==
  \/ \E c \in Conns : Accept(c) \/ Destroy(c)
  \/ AddConnection \/ SetDisconnectCallback
  \/ \E r \in Ids, f \in Fds : HangUp(r, f)
  \/ \E t \in Closers, c \in Conns : Notify(t, c) \/ WriteChecks(t, c)
  \/ \E t \in Closers : WriteUpdates(t) \/ WriteFails(t) \/ WriteLeaves(t)
  \/ StartListening \/ StopBegins \/ StopEnds
  \/ \E f \in Fds : Disconnect(f)

Spec == Init /\ [][Next]_vars

-----------------------------------------------------------------------------
(* Properties *)

\* Every open connection is polled by its reactor under its own descriptor, and nothing that is closed
\* is polled: a closing connection never takes away the channel of the one that got its descriptor.  The
\* exception is a channel that a write put back when its connection had been closed under it: it stays
\* in m_mapChannels, is polled until the connection is destroyed, and then keeps the next connection
\* with that descriptor on that reactor out of the kernel's set.
PolledAreOpen ==
  \A r \in Ids, f \in Fds :
    LET c    == channels[r][f]
        open == {d \in Conns : life[d] = "open" /\ home[d] = r /\ fd[d] = f}
    IN  IF c \in late
          THEN life[c] # "open" /\ epoll[r][f] = IF life[c] = "closed" THEN c ELSE None
          ELSE epoll[r][f] = c /\ open = {c} \ {None}

\* What is in the table has the descriptor it is listed under, and is not destroyed; an open connection
\* that was set up is in the table: nothing but its own close takes it out.
ListedAreAlive ==
  /\ \A f \in Fds : table[f] # None => fd[table[f]] = f /\ life[table[f]] \in {"open", "closed"}
  /\ \A c \in Conns : life[c] = "open" /\ accepting.conn # c => table[fd[c]] = c

\* No reactor is ever two connections ahead of another.
DealtEvenly == \A r, q \in Ids : dealt[r] <= dealt[q] + 1
=============================================================================
