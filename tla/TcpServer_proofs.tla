-------------------------- MODULE TcpServer_proofs --------------------------
(***************************************************************************)
(* Theorems about the server's table of connections, for any number of     *)
(* connections, descriptors and reactors.                                  *)
(***************************************************************************)
EXTENDS TcpServer, TLAPS

Live(c) == life[c] \in {"open", "closed"}

-----------------------------------------------------------------------------
(* The inductive invariant *)

\* A connection that is there has a descriptor and a reactor, and shares its descriptor with no other.
HaveFds ==
  /\ \A c \in Conns : Live(c) => fd[c] \in Fds /\ home[c] \in Ids
  /\ \A c, d \in Conns : Live(c) /\ Live(d) /\ fd[c] = fd[d] => c = d

\* m_mapChannels has a channel under its descriptor, on its reactor.  It is that of the open connection
\* that has both, and is polled, or one that was put back late and is polled as long as it is there.
Polls ==
  \A r \in Ids, f \in Fds :
    /\ channels[r][f] # None => home[channels[r][f]] = r /\ fd[channels[r][f]] = f
    /\ channels[r][f] \in late => epoll[r][f] = IF life[channels[r][f]] = "closed" THEN channels[r][f] ELSE None
    /\ channels[r][f] \notin late =>
         /\ epoll[r][f] = channels[r][f]
         /\ \A c \in Conns : epoll[r][f] = c <=> life[c] = "open" /\ home[c] = r /\ fd[c] = f

\* What was updated late is not open.
Lates == \A c \in late : life[c] \in {"closed", "gone"}

\* The table holds connections that are there, under their descriptors, and each open one but that
\* which is still to be entered.
Listed ==
  /\ \A f \in Fds : table[f] # None => fd[table[f]] = f /\ Live(table[f])
  /\ \A c \in Conns : life[c] = "open" /\ accepting # [at |-> "add", conn |-> c] => table[fd[c]] = c

\* The connection that is being set up is there.
Accepts ==
  \/ accepting = Nobody
  \/ accepting.at \in {"add", "callback"} /\ accepting.conn \in Conns /\ Live(accepting.conn)

\* What is being closed is closed, and what is being written to is there.
Uses ==
  \A t \in Closers :
    /\ \A c \in closing[t] : life[c] = "closed"
    /\ writing[t] # None => Live(writing[t])

SInv == TypeOK /\ HaveFds /\ Polls /\ Lates /\ Listed /\ Accepts /\ Uses

-----------------------------------------------------------------------------
(* One lemma for each action *)

LEMMA GetReactorIsId ==
  ASSUME TypeOK
  PROVE  GetReactor \in Ids /\ NextIndex \in Ids \cup {1}
BY ReactorsAssumption DEF TypeOK, GetReactor, NextIndex, Ids

LEMMA AcceptKeeps ==
  ASSUME SInv, NEW c \in Conns, Accept(c)
  PROVE  SInv'
<1> DEFINE r == GetReactor
<1>1. PICK f \in FreeFds : fd' = [fd EXCEPT ![c] = f] /\ UpdateChannel(r, f, c)
  BY DEF Accept
<1>2. /\ accepting = Nobody /\ life[c] = "unborn"
      /\ life' = [life EXCEPT ![c] = "open"]
      /\ home' = [home EXCEPT ![c] = r]
      /\ dealt' = [dealt EXCEPT ![r] = @ + 1]
      /\ index' = NextIndex
      /\ accepting' = [at |-> "add", conn |-> c]
      /\ UNCHANGED <<notifies, table, closing, writing, late, started>>
  BY DEF Accept, Busy
<1>3. r \in Ids /\ NextIndex \in Ids \cup {1}
  BY GetReactorIsId DEF SInv
<1> HIDE DEF r
<1>4. f \in Fds /\ \A d \in Conns : fd[d] = f => life[d] = "gone"
  BY DEF FreeFds
<1>5. \A q \in Ids : epoll[q][f] = None
  <2> SUFFICES ASSUME NEW q \in Ids PROVE epoll[q][f] = None
    OBVIOUS
  <2>1. channels[q][f] \in Conns \cup {None}
    BY <1>4 DEF SInv, TypeOK
  <2>2. channels[q][f] # None => life[channels[q][f]] = "gone"
    BY <1>4, <2>1 DEF SInv, Polls
  <2> QED
    BY <1>4, <2>1, <2>2 DEF SInv, Polls
<1>6. IF channels[r][f] = None
        THEN channels' = [channels EXCEPT ![r][f] = c] /\ epoll' = [epoll EXCEPT ![r][f] = c]
        ELSE channels' = channels /\ epoll' = [epoll EXCEPT ![r][f] = None]
  BY <1>1, <1>3, <1>5 DEF UpdateChannel
<1>7. \A d \in Conns : d # c => life'[d] = life[d] /\ fd'[d] = fd[d] /\ home'[d] = home[d]
  BY <1>1, <1>2 DEF SInv, TypeOK
<1>8. life'[c] = "open" /\ fd'[c] = f /\ home'[c] = r
  BY <1>1, <1>2 DEF SInv, TypeOK
<1>9. TypeOK'
  <2>1. life' \in [Conns -> {"unborn", "open", "closed", "gone"}] /\ fd' \in [Conns -> Fds \cup {None}]
        /\ home' \in [Conns -> Ids \cup {None}]
    BY <1>1, <1>2, <1>3, <1>4 DEF SInv, TypeOK
  <2>2. channels' \in [Ids -> [Fds -> Conns \cup {None}]] /\ epoll' \in [Ids -> [Fds -> Conns \cup {None}]]
    <3>1. channels \in [Ids -> [Fds -> Conns \cup {None}]] /\ epoll \in [Ids -> [Fds -> Conns \cup {None}]]
      BY DEF SInv, TypeOK
    <3>2. \A x \in Conns \cup {None} : /\ [channels EXCEPT ![r][f] = x] \in [Ids -> [Fds -> Conns \cup {None}]]
                                      /\ [epoll EXCEPT ![r][f] = x] \in [Ids -> [Fds -> Conns \cup {None}]]
      BY <1>3, <1>4, <3>1
    <3>3. CASE channels[r][f] = None
      BY <1>6, <3>2, <3>3
    <3>4. CASE channels[r][f] # None
      BY <1>6, <3>1, <3>2, <3>4
    <3> QED
      BY <3>3, <3>4
  <2>3. dealt' \in [Ids -> Nat] /\ index' \in Ids \cup {1}
    BY <1>2, <1>3 DEF SInv, TypeOK
  <2>4. accepting' \in [at : {"no", "add", "callback"}, conn : Conns \cup {None}]
    BY <1>2
  <2> QED
    BY <1>2, <2>1, <2>2, <2>3, <2>4 DEF SInv, TypeOK
<1>10. HaveFds'
  BY <1>3, <1>4, <1>7, <1>8 DEF SInv, HaveFds, Live
<1>11. c \notin late /\ late \subseteq Conns
  BY <1>2 DEF SInv, Lates, TypeOK
<1>12. Lates'
  BY <1>2, <1>7, <1>11 DEF SInv, Lates
<1>13. Polls'
  <2> SUFFICES ASSUME NEW q \in Ids, NEW g \in Fds
               PROVE  /\ channels'[q][g] # None => home'[channels'[q][g]] = q /\ fd'[channels'[q][g]] = g
                      /\ channels'[q][g] \in late =>
                           epoll'[q][g] = IF life'[channels'[q][g]] = "closed" THEN channels'[q][g] ELSE None
                      /\ channels'[q][g] \notin late =>
                           /\ epoll'[q][g] = channels'[q][g]
                           /\ \A d \in Conns : epoll'[q][g] = d <=> life'[d] = "open" /\ home'[d] = q /\ fd'[d] = g
    BY <1>2 DEF Polls
  <2>0. channels[q][g] \in Conns \cup {None} /\ channels[r][f] \in Conns \cup {None}
    BY <1>3, <1>4 DEF SInv, TypeOK
  <2>1. CASE q = r /\ g = f /\ channels[r][f] = None
    <3>1. channels'[q][g] = c /\ epoll'[q][g] = c
      BY <1>3, <1>4, <1>6, <2>1 DEF SInv, TypeOK
    <3>2. \A d \in Conns : d # c => ~(life'[d] = "open" /\ fd'[d] = g)
      BY <1>4, <1>7, <2>1
    <3> QED
      BY <1>8, <1>11, <2>1, <3>1, <3>2, NoneAssumption
  <2>2. CASE q = r /\ g = f /\ channels[r][f] # None
    <3>1. channels'[q][g] = channels[r][f] /\ epoll'[q][g] = None
      BY <1>3, <1>4, <1>6, <2>2 DEF SInv, TypeOK
    <3>2. channels[r][f] \in Conns /\ life[channels[r][f]] = "gone" /\ channels[r][f] \in late
      BY <1>3, <1>4, <1>5, <2>0, <2>2 DEF SInv, Polls
    <3> QED
      BY <1>2, <1>3, <1>4, <1>7, <2>2, <3>1, <3>2 DEF SInv, Polls
  <2>3. CASE ~(q = r /\ g = f)
    <3>1. channels'[q][g] = channels[q][g] /\ epoll'[q][g] = epoll[q][g]
      BY <1>3, <1>4, <1>6, <2>3 DEF SInv, TypeOK
    <3>2. channels[q][g] # c
      <4> SUFFICES ASSUME channels[q][g] = c PROVE FALSE
        OBVIOUS
      <4>1. epoll[q][g] = c /\ life[c] = "open"
        BY <1>11 DEF SInv, Polls
      <4> QED
        BY <1>2, <4>1
    <3>3. ~(home'[c] = q /\ fd'[c] = g)
      BY <1>8, <2>3
    <3>4. channels[q][g] # None => home'[channels[q][g]] = q /\ fd'[channels[q][g]] = g
      BY <1>7, <2>0, <3>2 DEF SInv, Polls
    <3>5. CASE channels[q][g] \in late
      BY <1>7, <1>11, <3>1, <3>2, <3>4, <3>5 DEF SInv, Polls
    <3>6. CASE channels[q][g] \notin late
      <4>1. epoll[q][g] = channels[q][g] /\ \A d \in Conns : epoll[q][g] = d <=> life[d] = "open" /\ home[d] = q /\ fd[d] = g
        BY <3>6 DEF SInv, Polls
      <4> QED
        BY <1>7, <3>1, <3>2, <3>3, <3>4, <3>6, <4>1
    <3> QED
      BY <3>5, <3>6
  <2> QED
    BY <2>1, <2>2, <2>3
<1>14. Listed'
  <2>1. \A g \in Fds : table[g] # None => table[g] \in Conns /\ table[g] # c
    BY <1>2 DEF SInv, Listed, Live, TypeOK
  <2>2. \A d \in Conns : life[d] = "open" => table[fd[d]] = d
    BY <1>2, NoneAssumption DEF SInv, Listed, Nobody
  <2> QED
    BY <1>2, <1>7, <2>1, <2>2 DEF SInv, Listed, Live
<1>15. Accepts'
  BY <1>2, <1>8 DEF Accepts, Live
<1>16. Uses'
  <2>1. \A t \in Closers : closing[t] \subseteq Conns /\ c \notin closing[t]
    BY <1>2 DEF SInv, Uses, TypeOK
  <2>2. \A t \in Closers : writing[t] # None => writing[t] \in Conns /\ writing[t] # c
    BY <1>2 DEF SInv, Uses, TypeOK, Live
  <2> QED
    BY <1>2, <1>7, <2>1, <2>2 DEF SInv, Uses, Live
<1> QED
  BY <1>9, <1>10, <1>12, <1>13, <1>14, <1>15, <1>16 DEF SInv

LEMMA AddConnectionKeeps == SInv /\ AddConnection => SInv'
<1> SUFFICES ASSUME SInv, AddConnection PROVE SInv'
  OBVIOUS
<1> DEFINE c == accepting.conn
           f == fd[c]
<1>1. /\ accepting.at = "add"
      /\ table' = IF table[f] = None THEN [table EXCEPT ![f] = c] ELSE table
      /\ accepting' = [accepting EXCEPT !.at = "callback"]
      /\ UNCHANGED <<connVars, pollVars, index, dealt, closing, writing, late, started>>
  BY DEF AddConnection
<1>2. /\ c \in Conns /\ Live(c)
      /\ accepting = [at |-> "add", conn |-> c]
      /\ accepting' = [at |-> "callback", conn |-> c]
  BY <1>1 DEF SInv, Accepts, Nobody, TypeOK
<1>3. f \in Fds
  BY <1>2 DEF SInv, HaveFds
<1>4. table' \in [Fds -> Conns \cup {None}] /\ table'[f] = c /\ \A g \in Fds : g # f => table'[g] = table[g]
  <2>1. CASE table[f] = None
    BY <1>1, <1>2, <1>3, <2>1 DEF SInv, TypeOK
  <2>2. CASE table[f] # None
    <3>1. table[f] \in Conns /\ fd[table[f]] = f /\ Live(table[f])
      BY <1>3, <2>2 DEF SInv, TypeOK, Listed
    <3>2. table[f] = c
      BY <1>2, <3>1 DEF SInv, HaveFds
    <3> QED
      BY <1>1, <2>2, <3>2 DEF SInv, TypeOK
  <2> QED
    BY <2>1, <2>2
<1>5. UNCHANGED <<life, fd, home, notifies, channels, epoll>>
  BY <1>1 DEF connVars, pollVars
<1> HIDE DEF c
<1>6. TypeOK'
  BY <1>1, <1>2, <1>4, <1>5 DEF SInv, TypeOK
<1>7. HaveFds' /\ Polls' /\ Lates' /\ Uses'
  BY <1>1, <1>5 DEF SInv, HaveFds, Polls, Lates, Uses, Live
<1>8. Accepts'
  BY <1>2, <1>5 DEF Accepts, Live
<1>9. Listed'
  <2>1. \A g \in Fds : table'[g] # None => fd[table'[g]] = g /\ Live(table'[g])
    BY <1>2, <1>4 DEF SInv, Listed
  <2>2. \A d \in Conns : life[d] = "open" /\ d # c => fd[d] \in Fds /\ fd[d] # f /\ table[fd[d]] = d
    BY <1>2 DEF SInv, Listed, HaveFds, Live
  <2>3. \A d \in Conns : life[d] = "open" => table'[fd[d]] = d
    BY <1>4, <2>2
  <2> QED
    BY <1>5, <2>1, <2>3 DEF Listed, Live
<1> QED
  BY <1>6, <1>7, <1>8, <1>9 DEF SInv

LEMMA SetDisconnectCallbackKeeps == SInv /\ SetDisconnectCallback => SInv'
<1> SUFFICES ASSUME SInv, SetDisconnectCallback PROVE SInv'
  OBVIOUS
<1>1. /\ accepting.at = "callback"
      /\ notifies' = [notifies EXCEPT ![accepting.conn] = TRUE]
      /\ accepting' = Nobody
      /\ UNCHANGED <<life, fd, home, table, pollVars, index, dealt, closing, writing, late, started>>
  BY DEF SetDisconnectCallback
<1>2. TypeOK'
  BY <1>1 DEF SInv, TypeOK, Nobody, pollVars
<1>3. HaveFds' /\ Polls' /\ Lates' /\ Uses'
  BY <1>1 DEF SInv, HaveFds, Polls, Lates, Uses, Live, pollVars
<1>4. Accepts'
  BY <1>1 DEF Accepts
<1>5. Listed'
  BY <1>1 DEF SInv, Listed, Live
<1> QED
  BY <1>2, <1>3, <1>4, <1>5 DEF SInv

\* Closing an open connection, from HangUp, Disconnect or WriteFails.
LEMMA CloseStartKeeps ==
  ASSUME SInv, NEW t \in Closers, NEW c \in Conns, CloseStart(t, c), UNCHANGED started,
         writing' \in [Closers -> Conns \cup {None}],
         \A u \in Closers : writing'[u] \in {writing[u], None}
  PROVE  SInv'
<1> DEFINE r == home[c]
           f == fd[c]
<1>1. /\ life[c] = "open"
      /\ life' = [life EXCEPT ![c] = "closed"]
      /\ RemoveChannel(r, f)
      /\ closing' = [closing EXCEPT ![t] = @ \cup {c}]
      /\ UNCHANGED <<fd, home, notifies, table, index, dealt, accepting, late>>
  BY DEF CloseStart
<1>2. r \in Ids /\ f \in Fds
  BY <1>1 DEF SInv, HaveFds, Live
<1>3. channels[r][f] # None
  BY <1>1, <1>2, NoneAssumption DEF SInv, Polls, TypeOK
<1>4. /\ channels' = [channels EXCEPT ![r][f] = None]
      /\ epoll' = [epoll EXCEPT ![r][f] = None]
  BY <1>1, <1>2, <1>3 DEF RemoveChannel
<1>5. life'[c] = "closed" /\ \A d \in Conns : d # c => life'[d] = life[d]
  BY <1>1 DEF SInv, TypeOK
<1>6. \A d \in Conns : Live(d)' <=> Live(d)
  BY <1>1, <1>5 DEF Live
<1>7. TypeOK'
  <2>1. life' \in [Conns -> {"unborn", "open", "closed", "gone"}]
    BY <1>1 DEF SInv, TypeOK
  <2>2. channels' \in [Ids -> [Fds -> Conns \cup {None}]] /\ epoll' \in [Ids -> [Fds -> Conns \cup {None}]]
    BY <1>4 DEF SInv, TypeOK
  <2>3. closing' \in [Closers -> SUBSET Conns]
    BY <1>1 DEF SInv, TypeOK
  <2> QED
    BY <1>1, <2>1, <2>2, <2>3 DEF SInv, TypeOK
<1>8. HaveFds'
  BY <1>1, <1>6 DEF SInv, HaveFds
<1>9. Lates' /\ c \notin late /\ late \subseteq Conns /\ None \notin late
  BY <1>1, <1>5, NoneAssumption DEF SInv, Lates, TypeOK
<1>10. Polls'
  <2> SUFFICES ASSUME NEW q \in Ids, NEW g \in Fds
               PROVE  /\ channels'[q][g] # None => home[channels'[q][g]] = q /\ fd[channels'[q][g]] = g
                      /\ channels'[q][g] \in late =>
                           epoll'[q][g] = IF life'[channels'[q][g]] = "closed" THEN channels'[q][g] ELSE None
                      /\ channels'[q][g] \notin late =>
                           /\ epoll'[q][g] = channels'[q][g]
                           /\ \A d \in Conns : epoll'[q][g] = d <=> life'[d] = "open" /\ home[d] = q /\ fd[d] = g
    BY <1>1 DEF Polls
  <2>1. CASE q = r /\ g = f
    <3>1. channels'[q][g] = None /\ epoll'[q][g] = None
      BY <1>2, <1>4, <2>1 DEF SInv, TypeOK
    <3>2. \A d \in Conns : ~(life'[d] = "open" /\ home[d] = q /\ fd[d] = g)
      BY <1>1, <1>5, <2>1 DEF SInv, HaveFds, Live
    <3> QED
      BY <1>9, <3>1, <3>2, NoneAssumption
  <2>2. CASE ~(q = r /\ g = f)
    <3>1. channels'[q][g] = channels[q][g] /\ epoll'[q][g] = epoll[q][g]
      BY <1>2, <1>4, <2>2 DEF SInv, TypeOK
    <3>2. channels[q][g] # c
      BY <2>2, NoneAssumption DEF SInv, Polls
    <3>3. channels[q][g] # None => home[channels[q][g]] = q /\ fd[channels[q][g]] = g
      BY DEF SInv, Polls
    <3>4. CASE channels[q][g] \in late
      BY <1>5, <1>9, <3>1, <3>2, <3>3, <3>4 DEF SInv, Polls
    <3>5. CASE channels[q][g] \notin late
      <4>1. epoll[q][g] = channels[q][g] /\ \A d \in Conns : epoll[q][g] = d <=> life[d] = "open" /\ home[d] = q /\ fd[d] = g
        BY <3>5 DEF SInv, Polls
      <4>2. life'[c] # "open"
        BY <1>5
      <4> QED
        BY <1>5, <3>1, <3>2, <3>3, <3>5, <4>1, <4>2
    <3> QED
      BY <3>4, <3>5
  <2> QED
    BY <2>1, <2>2
<1>11. Listed'
  <2>1. \A g \in Fds : table[g] # None => table[g] \in Conns
    BY DEF SInv, TypeOK
  <2>2. \A d \in Conns : life'[d] = "open" => life[d] = "open"
    BY <1>1, <1>5
  <2> QED
    BY <1>1, <1>6, <2>1, <2>2 DEF SInv, Listed
<1>12. Accepts'
  BY <1>1, <1>6 DEF SInv, Accepts
<1>13. Uses'
  <2>1. \A u \in Closers : closing'[u] \subseteq closing[u] \cup {c} /\ closing[u] \subseteq Conns
    BY <1>1 DEF SInv, TypeOK
  <2>2. \A u \in Closers : \A d \in closing'[u] : life'[d] = "closed"
    BY <1>5, <2>1 DEF SInv, Uses
  <2>3. \A u \in Closers : writing'[u] # None => writing'[u] = writing[u] /\ writing[u] \in Conns
    BY DEF SInv, TypeOK
  <2> QED
    BY <1>6, <2>2, <2>3 DEF SInv, Uses
<1> QED
  BY <1>7, <1>8, <1>9, <1>10, <1>11, <1>12, <1>13 DEF SInv

LEMMA HangUpKeeps ==
  ASSUME SInv, NEW r \in Ids, NEW f \in Fds, HangUp(r, f)
  PROVE  SInv'
<1>1. epoll[r][f] \in Conns /\ r \in Closers
  BY DEF HangUp, SInv, TypeOK, Closers
<1>2. /\ CloseStart(r, epoll[r][f]) /\ UNCHANGED started
      /\ writing' \in [Closers -> Conns \cup {None}]
      /\ \A u \in Closers : writing'[u] \in {writing[u], None}
  BY DEF HangUp, SInv, TypeOK
<1> QED
  BY <1>1, <1>2, CloseStartKeeps

LEMMA DisconnectKeeps ==
  ASSUME SInv, NEW f \in Fds, Disconnect(f)
  PROVE  SInv'
<1>1. table[f] \in Conns /\ Main \in Closers
  BY DEF Disconnect, SInv, TypeOK, Closers
<1>2. /\ CloseStart(Main, table[f]) /\ UNCHANGED started
      /\ writing' \in [Closers -> Conns \cup {None}]
      /\ \A u \in Closers : writing'[u] \in {writing[u], None}
  BY DEF Disconnect, SInv, TypeOK
<1> QED
  BY <1>1, <1>2, CloseStartKeeps

LEMMA WriteFailsKeeps ==
  ASSUME SInv, NEW t \in Closers, WriteFails(t)
  PROVE  SInv'
<1>1. writing[t] \in Conns
  BY DEF WriteFails, SInv, TypeOK
<1>2. /\ CloseStart(t, writing[t]) /\ UNCHANGED started
      /\ writing' \in [Closers -> Conns \cup {None}]
      /\ \A u \in Closers : writing'[u] \in {writing[u], None}
  BY DEF WriteFails, SInv, TypeOK
<1> QED
  BY <1>1, <1>2, CloseStartKeeps

LEMMA NotifyKeeps ==
  ASSUME SInv, NEW t \in Closers, NEW c \in Conns, Notify(t, c)
  PROVE  SInv'
<1>1. /\ c \in closing[t]
      /\ closing' = [closing EXCEPT ![t] = @ \ {c}]
      /\ table' = IF notifies[c] THEN [table EXCEPT ![fd[c]] = None] ELSE table
      /\ UNCHANGED <<life, fd, home, notifies, channels, epoll, index, dealt, accepting, writing, late, started>>
  BY DEF Notify, connVars, pollVars
<1>2. life[c] = "closed" /\ fd[c] \in Fds
  BY <1>1 DEF SInv, Uses, HaveFds, Live
<1>3. \A u \in Closers : closing'[u] \subseteq closing[u]
  BY <1>1 DEF SInv, TypeOK
<1>4. \A g \in Fds : table'[g] = table[g] \/ (table'[g] = None /\ g = fd[c])
  BY <1>1, <1>2 DEF SInv, TypeOK
<1>5. TypeOK'
  <2>1. closing' \in [Closers -> SUBSET Conns] /\ table' \in [Fds -> Conns \cup {None}]
    BY <1>1, <1>2 DEF SInv, TypeOK
  <2> QED
    BY <1>1, <2>1 DEF SInv, TypeOK
<1>6. HaveFds' /\ Polls' /\ Lates' /\ Accepts'
  BY <1>1 DEF SInv, HaveFds, Polls, Lates, Accepts, Live
<1>7. Listed'
  <2>1. \A d \in Conns : life[d] = "open" => fd[d] \in Fds /\ fd[d] # fd[c]
    BY <1>2 DEF SInv, HaveFds, Live
  <2> QED
    BY <1>1, <1>4, <2>1 DEF SInv, Listed, Live
<1>8. Uses'
  BY <1>1, <1>3 DEF SInv, Uses, Live
<1> QED
  BY <1>5, <1>6, <1>7, <1>8 DEF SInv

LEMMA DestroyKeeps ==
  ASSUME SInv, NEW c \in Conns, Destroy(c)
  PROVE  SInv'
<1>1. /\ life[c] = "closed" /\ accepting.conn # c
      /\ \A f \in Fds : table[f] # c
      /\ \A t \in Closers : c \notin closing[t] /\ writing[t] # c
      /\ life' = [life EXCEPT ![c] = "gone"]
      /\ epoll' = [r \in Ids |-> [epoll[r] EXCEPT ![fd[c]] = None]]
      /\ UNCHANGED <<fd, home, notifies, channels, table, index, dealt, accepting, closing, writing, late, started>>
  BY DEF Destroy
<1>2. life'[c] = "gone" /\ \A d \in Conns : d # c => life'[d] = life[d]
  BY <1>1 DEF SInv, TypeOK
<1>3. fd[c] \in Fds
  BY <1>1 DEF SInv, HaveFds, Live
<1>4. \A r \in Ids, f \in Fds : epoll'[r][f] = IF f = fd[c] THEN None ELSE epoll[r][f]
  BY <1>1 DEF SInv, TypeOK
<1>5. TypeOK'
  <2>1. life' \in [Conns -> {"unborn", "open", "closed", "gone"}] /\ epoll' \in [Ids -> [Fds -> Conns \cup {None}]]
    BY <1>1 DEF SInv, TypeOK
  <2> QED
    BY <1>1, <2>1 DEF SInv, TypeOK
<1>6. HaveFds'
  BY <1>1, <1>2 DEF SInv, HaveFds, Live
<1>7. Lates' /\ late \subseteq Conns /\ None \notin late
  BY <1>1, <1>2, NoneAssumption DEF SInv, Lates, TypeOK
<1>8. Polls'
  <2> SUFFICES ASSUME NEW q \in Ids, NEW g \in Fds
               PROVE  /\ channels[q][g] # None => home[channels[q][g]] = q /\ fd[channels[q][g]] = g
                      /\ channels[q][g] \in late =>
                           epoll'[q][g] = IF life'[channels[q][g]] = "closed" THEN channels[q][g] ELSE None
                      /\ channels[q][g] \notin late =>
                           /\ epoll'[q][g] = channels[q][g]
                           /\ \A d \in Conns : epoll'[q][g] = d <=> life'[d] = "open" /\ home[d] = q /\ fd[d] = g
    BY <1>1 DEF Polls
  <2>1. channels[q][g] # None => home[channels[q][g]] = q /\ fd[channels[q][g]] = g
    BY DEF SInv, Polls
  <2>2. CASE channels[q][g] \in late
    <3>1. epoll[q][g] = IF life[channels[q][g]] = "closed" THEN channels[q][g] ELSE None
      BY <2>2 DEF SInv, Polls
    <3>2. channels[q][g] \in Conns /\ fd[channels[q][g]] = g
      BY <1>7, <2>1, <2>2
    <3>3. CASE channels[q][g] = c
      BY <1>2, <1>4, <2>1, <2>2, <3>2, <3>3
    <3>4. CASE channels[q][g] # c
      <4>1. life[channels[q][g]] = "closed" => g # fd[c]
        BY <1>1, <3>2, <3>4 DEF SInv, HaveFds, Live
      <4> QED
        BY <1>2, <1>4, <2>1, <2>2, <3>1, <3>2, <3>4, <4>1
    <3> QED
      BY <3>3, <3>4
  <2>3. CASE channels[q][g] \notin late
    <3>1. epoll[q][g] = channels[q][g] /\ \A d \in Conns : epoll[q][g] = d <=> life[d] = "open" /\ home[d] = q /\ fd[d] = g
      BY <2>3 DEF SInv, Polls
    <3>2. epoll[q][g] \in Conns \cup {None}
      BY DEF SInv, TypeOK
    <3>3. epoll'[q][g] = epoll[q][g]
      <4>1. CASE g = fd[c]
        <5>1. \A d \in Conns : life[d] = "open" => fd[d] # g
          BY <1>1, <4>1 DEF SInv, HaveFds, Live
        <5> QED
          BY <1>4, <3>1, <3>2, <4>1, <5>1
      <4>2. CASE g # fd[c]
        BY <1>4, <4>2
      <4> QED
        BY <4>1, <4>2
    <3>4. \A d \in Conns : life'[d] = "open" <=> life[d] = "open"
      BY <1>1, <1>2
    <3> QED
      BY <2>1, <2>3, <3>1, <3>3, <3>4
  <2> QED
    BY <2>2, <2>3
<1>9. Listed'
  <2>1. \A g \in Fds : table[g] # None => table[g] \in Conns /\ table[g] # c
    BY <1>1 DEF SInv, TypeOK
  <2> QED
    BY <1>1, <1>2, <2>1 DEF SInv, Listed, Live
<1>10. Accepts'
  BY <1>1, <1>2 DEF SInv, Accepts, Live
<1>11. Uses'
  <2>1. \A t \in Closers : closing[t] \subseteq Conns /\ writing[t] \in Conns \cup {None}
    BY DEF SInv, TypeOK
  <2> QED
    BY <1>1, <1>2, <2>1 DEF SInv, Uses, Live
<1> QED
  BY <1>5, <1>6, <1>7, <1>8, <1>9, <1>10, <1>11 DEF SInv

LEMMA WriteChecksKeeps ==
  ASSUME SInv, NEW t \in Closers, NEW c \in Conns, WriteChecks(t, c)
  PROVE  SInv'
<1>1. /\ life[c] = "open"
      /\ writing' = [writing EXCEPT ![t] = c]
      /\ UNCHANGED <<life, fd, home, notifies, table, channels, epoll, index, dealt, accepting, closing, late, started>>
  BY DEF WriteChecks, connVars, pollVars
<1>2. \A u \in Closers : writing'[u] = IF u = t THEN c ELSE writing[u]
  BY <1>1 DEF SInv, TypeOK
<1>3. TypeOK'
  BY <1>1 DEF SInv, TypeOK
<1>4. Uses'
  BY <1>1, <1>2 DEF SInv, Uses, Live
<1> QED
  BY <1>1, <1>3, <1>4 DEF SInv, HaveFds, Polls, Lates, Listed, Accepts, Live

LEMMA WriteLeavesKeeps ==
  ASSUME SInv, NEW t \in Closers, WriteLeaves(t)
  PROVE  SInv'
<1>1. /\ writing' = [writing EXCEPT ![t] = None]
      /\ UNCHANGED <<life, fd, home, notifies, table, channels, epoll, index, dealt, accepting, closing, late, started>>
  BY DEF WriteLeaves, connVars, pollVars
<1>2. \A u \in Closers : writing'[u] \in {writing[u], None}
  BY <1>1 DEF SInv, TypeOK
<1>3. TypeOK'
  BY <1>1 DEF SInv, TypeOK
<1>4. Uses'
  BY <1>1, <1>2 DEF SInv, Uses, Live
<1> QED
  BY <1>1, <1>3, <1>4 DEF SInv, HaveFds, Polls, Lates, Listed, Accepts, Live

\* The channel of a connection that is still open is polled already; that of one closed meanwhile is
\* put back, unless a stale one is in its place.
LEMMA WriteUpdatesKeeps ==
  ASSUME SInv, NEW t \in Closers, WriteUpdates(t)
  PROVE  SInv'
<1>1. PICK c : c = writing[t]
  OBVIOUS
<1>2. PICK r : r = home[c]
  OBVIOUS
<1>3. PICK f : f = fd[c]
  OBVIOUS
<1>4. /\ c \in Conns
      /\ UpdateChannel(r, f, c)
      /\ late' = IF life[c] = "open" THEN late ELSE late \cup {c}
      /\ writing' = [writing EXCEPT ![t] = None]
      /\ UNCHANGED <<life, fd, home, notifies, table, index, dealt, accepting, closing, started>>
  BY <1>1, <1>2, <1>3 DEF WriteUpdates, connVars, SInv, TypeOK
<1>5. Live(c)
  BY <1>1, <1>4, NoneAssumption DEF SInv, Uses
<1>6. r \in Ids /\ f \in Fds
  BY <1>2, <1>3, <1>4, <1>5 DEF SInv, HaveFds
<1>7. channels[r][f] \in Conns \cup {None} /\ epoll[r][f] \in Conns \cup {None} /\ late \subseteq Conns /\ None \notin late
  BY <1>6, NoneAssumption DEF SInv, TypeOK
<1>8. \A d \in Conns : Live(d) /\ fd[d] = f => d = c
  BY <1>3, <1>4, <1>5 DEF SInv, HaveFds
<1>9. \A u \in Closers : writing'[u] \in {writing[u], None}
  BY <1>4 DEF SInv, TypeOK
\* Either nothing changes but what was late, or the channel of a closed connection comes back.
<1>10. \/ /\ channels' = channels /\ epoll' = epoll
          /\ channels[r][f] # None
          /\ channels[r][f] # c \/ life[c] = "open" \/ c \in late
       \/ /\ channels[r][f] = None /\ life[c] = "closed"
          /\ channels' = [channels EXCEPT ![r][f] = c] /\ epoll' = [epoll EXCEPT ![r][f] = c]
  <2>1. CASE channels[r][f] = None
    <3>1. life[c] # "open"
      BY <1>2, <1>3, <1>4, <1>6, <1>7, <2>1, NoneAssumption DEF SInv, Polls
    <3> QED
      BY <1>4, <1>5, <2>1, <3>1 DEF UpdateChannel, Live
  <2>2. CASE channels[r][f] # None
    <3>1. fd[channels[r][f]] = f
      BY <1>6, <2>2 DEF SInv, Polls
    <3>2. epoll[r][f] \in {None, c}
      <4>1. CASE channels[r][f] \in late
        <5>1. life[channels[r][f]] = "closed" => channels[r][f] = c
          BY <1>7, <1>8, <2>2, <3>1 DEF Live
        <5> QED
          BY <1>6, <4>1, <5>1 DEF SInv, Polls
      <4>2. CASE channels[r][f] \notin late
        <5>1. epoll[r][f] = channels[r][f] /\ life[channels[r][f]] = "open"
          BY <1>6, <1>7, <2>2, <4>2 DEF SInv, Polls
        <5> QED
          BY <1>7, <1>8, <2>2, <3>1, <5>1 DEF Live
      <4> QED
        BY <4>1, <4>2
    <3>3. channels' = channels /\ epoll' = [epoll EXCEPT ![r][f] = IF @ = None THEN None ELSE c]
      BY <1>4, <2>2 DEF UpdateChannel
    <3>4. epoll' = epoll
      BY <1>6, <3>2, <3>3 DEF SInv, TypeOK
    <3>5. channels[r][f] = c /\ life[c] # "open" => c \in late
      BY <1>4, <1>6 DEF SInv, Polls
    <3> QED
      BY <2>2, <3>3, <3>4, <3>5
  <2> QED
    BY <2>1, <2>2
<1>11. TypeOK'
  <2>1. channels' \in [Ids -> [Fds -> Conns \cup {None}]] /\ epoll' \in [Ids -> [Fds -> Conns \cup {None}]]
    <3>1. channels \in [Ids -> [Fds -> Conns \cup {None}]] /\ epoll \in [Ids -> [Fds -> Conns \cup {None}]]
      BY DEF SInv, TypeOK
    <3>2. [channels EXCEPT ![r][f] = c] \in [Ids -> [Fds -> Conns \cup {None}]]
      BY <1>4, <1>6, <3>1
    <3>3. [epoll EXCEPT ![r][f] = c] \in [Ids -> [Fds -> Conns \cup {None}]]
      BY <1>4, <1>6, <3>1
    <3> QED
      BY <1>10, <3>1, <3>2, <3>3
  <2>2. late' \subseteq Conns /\ writing' \in [Closers -> Conns \cup {None}]
    BY <1>4 DEF SInv, TypeOK
  <2> QED
    BY <1>4, <2>1, <2>2 DEF SInv, TypeOK
<1>12. HaveFds' /\ Listed' /\ Accepts'
  BY <1>4 DEF SInv, HaveFds, Listed, Accepts, Live
<1>13. Lates'
  BY <1>4, <1>5 DEF SInv, Lates, Live
<1>14. Uses'
  BY <1>4, <1>9 DEF SInv, Uses, Live
<1>15. Polls'
  <2> SUFFICES ASSUME NEW q \in Ids, NEW g \in Fds
               PROVE  /\ channels'[q][g] # None => home[channels'[q][g]] = q /\ fd[channels'[q][g]] = g
                      /\ channels'[q][g] \in late' =>
                           epoll'[q][g] = IF life[channels'[q][g]] = "closed" THEN channels'[q][g] ELSE None
                      /\ channels'[q][g] \notin late' =>
                           /\ epoll'[q][g] = channels'[q][g]
                           /\ \A d \in Conns : epoll'[q][g] = d <=> life[d] = "open" /\ home[d] = q /\ fd[d] = g
    BY <1>4 DEF Polls
  <2>1. late \subseteq late' /\ late' \subseteq late \cup {c}
    BY <1>4
  <2>2. channels[q][g] # None => home[channels[q][g]] = q /\ fd[channels[q][g]] = g
    BY DEF SInv, Polls
  <2>3. CASE channels'[q][g] = channels[q][g] /\ epoll'[q][g] = epoll[q][g]
    <3>1. channels[q][g] \in late' => channels[q][g] \in late
      <4> SUFFICES ASSUME channels[q][g] = c, c \notin late, c \in late' PROVE FALSE
        BY <2>1
      <4>1. epoll[q][g] = c /\ life[c] = "open"
        BY <1>4 DEF SInv, Polls
      <4> QED
        BY <1>4, <4>1
    <3> QED
      BY <2>1, <2>2, <2>3, <3>1 DEF SInv, Polls
  <2>4. CASE ~(channels'[q][g] = channels[q][g] /\ epoll'[q][g] = epoll[q][g])
    <3>1. q = r /\ g = f /\ life[c] = "closed" /\ channels'[q][g] = c /\ epoll'[q][g] = c
      BY <1>6, <1>10, <2>4 DEF SInv, TypeOK
    <3>2. c \in late'
      BY <1>4, <3>1
    <3> QED
      BY <1>2, <1>3, <3>1, <3>2
  <2> QED
    BY <2>3, <2>4
<1> QED
  BY <1>11, <1>12, <1>13, <1>14, <1>15 DEF SInv

-----------------------------------------------------------------------------
(* The table and the reactors *)

LEMMA SStart == Init => SInv
<1> SUFFICES ASSUME Init PROVE SInv
  OBVIOUS
<1>1. TypeOK
  BY DEF Init, TypeOK, Nobody
<1>2. HaveFds /\ Polls /\ Lates /\ Listed /\ Accepts /\ Uses
  BY NoneAssumption DEF Init, HaveFds, Polls, Lates, Listed, Accepts, Uses, Live, Nobody
<1> QED
  BY <1>1, <1>2 DEF SInv

LEMMA SStep == SInv /\ [Next]_vars => SInv'
<1> SUFFICES ASSUME SInv, [Next]_vars PROVE SInv'
  OBVIOUS
<1>1. CASE \E c \in Conns : Accept(c)
  BY <1>1, AcceptKeeps
<1>2. CASE AddConnection
  BY <1>2, AddConnectionKeeps
<1>3. CASE SetDisconnectCallback
  BY <1>3, SetDisconnectCallbackKeeps
<1>4. CASE \E r \in Ids, f \in Fds : HangUp(r, f)
  BY <1>4, HangUpKeeps
<1>5. CASE \E t \in Closers, c \in Conns : Notify(t, c)
  BY <1>5, NotifyKeeps
<1>6. CASE \E f \in Fds : Disconnect(f)
  BY <1>6, DisconnectKeeps
<1>7. CASE \E c \in Conns : Destroy(c)
  BY <1>7, DestroyKeeps
<1>8. CASE \E t \in Closers, c \in Conns : WriteChecks(t, c)
  BY <1>8, WriteChecksKeeps
<1>9. CASE \E t \in Closers : WriteUpdates(t)
  BY <1>9, WriteUpdatesKeeps
<1>10. CASE \E t \in Closers : WriteFails(t)
  BY <1>10, WriteFailsKeeps
<1>11. CASE \E t \in Closers : WriteLeaves(t)
  BY <1>11, WriteLeavesKeeps
<1>12. CASE StartListening \/ StopBegins \/ StopEnds \/ UNCHANGED vars
  <2>1. /\ UNCHANGED <<life, fd, home, notifies, table, channels, epoll, index, dealt, accepting, closing,
                       writing, late>>
        /\ started' \in {"yes", "walking", "no"}
    BY <1>12 DEF StartListening, StopBegins, StopEnds, vars, connVars, pollVars, SInv, TypeOK
  <2>2. TypeOK'
    BY <2>1 DEF SInv, TypeOK
  <2> QED
    BY <2>1, <2>2 DEF SInv, HaveFds, Polls, Lates, Listed, Accepts, Uses, Live
<1> QED
  BY <1>1, <1>2, <1>3, <1>4, <1>5, <1>6, <1>7, <1>8, <1>9, <1>10, <1>11, <1>12 DEF Next

LEMMA SInvariant == Spec => []SInv
BY SStart, SStep, PTL DEF Spec

\* Every variable of the server keeps its type.
THEOREM TypeCorrect == Spec => []TypeOK
<1>1. SInv => TypeOK
  BY DEF SInv
<1> QED
  BY <1>1, SInvariant, PTL

\* Every open connection is polled by its reactor under its own descriptor, and nothing that is closed,
\* but for the channels that an overlapping write put back.
THEOREM OnlyOpenArePolled == Spec => []PolledAreOpen
<1>1. SInv => PolledAreOpen
  <2> SUFFICES ASSUME SInv, NEW r \in Ids, NEW f \in Fds, NEW c, c = channels[r][f]
               PROVE  IF c \in late
                        THEN life[c] # "open" /\ epoll[r][f] = IF life[c] = "closed" THEN c ELSE None
                        ELSE /\ epoll[r][f] = c
                             /\ {d \in Conns : life[d] = "open" /\ home[d] = r /\ fd[d] = f} = {c} \ {None}
    BY DEF PolledAreOpen
  <2>1. CASE c \in late
    BY <2>1 DEF SInv, Polls, Lates
  <2>2. CASE c \notin late
    <3>1. c \in Conns \cup {None}
      BY DEF SInv, TypeOK
    <3>2. epoll[r][f] = c /\ \A d \in Conns : c = d <=> life[d] = "open" /\ home[d] = r /\ fd[d] = f
      BY <2>2 DEF SInv, Polls
    <3> QED
      BY <2>2, <3>1, <3>2, NoneAssumption
  <2> QED
    BY <2>1, <2>2
<1> QED
  BY <1>1, SInvariant, PTL

\* What the table holds is not destroyed, and an open connection that was set up is in it.
THEOREM ListedAreThere == Spec => []ListedAreAlive
<1>1. SInv => ListedAreAlive
  <2> SUFFICES ASSUME SInv PROVE ListedAreAlive
    OBVIOUS
  <2>1. \A c \in Conns : life[c] = "open" /\ accepting.conn # c => table[fd[c]] = c
    BY DEF SInv, Listed
  <2> QED
    BY <2>1 DEF SInv, Listed, Live, ListedAreAlive
<1> QED
  BY <1>1, SInvariant, PTL

-----------------------------------------------------------------------------
(* Round robin *)

\* The turn of a reactor: 1, 2 and so on, and 0 last.
Turn(r) == IF r = 0 THEN Reactors - 1 ELSE r - 1

\* The reactors whose turn has been have one connection more.
Extra(r) == IF Turn(r) < Turn(index) THEN 1 ELSE 0

DealtInTurns ==
  Reactors # 1 => \A r, q \in Ids : dealt[r] + Extra(q) = dealt[q] + Extra(r)

LEMMA DealStep == SInv /\ DealtInTurns /\ [Next]_vars => DealtInTurns'
<1> SUFFICES ASSUME SInv, DealtInTurns, [Next]_vars, Reactors # 1
             PROVE  \A r, q \in Ids : dealt'[r] + Extra(q)' = dealt'[q] + Extra(r)'
  BY DEF DealtInTurns
<1>1. CASE \E c \in Conns : Accept(c)
  <2>1. /\ dealt' = [dealt EXCEPT ![index] = @ + 1]
        /\ index' = IF index + 1 >= Reactors THEN 0 ELSE index + 1
    BY <1>1 DEF Accept, GetReactor, NextIndex
  <2>2. Reactors \in Nat /\ Reactors > 1 /\ index \in 0..(Reactors - 1)
    BY ReactorsAssumption DEF SInv, TypeOK, Ids
  <2> SUFFICES ASSUME NEW r \in Ids, NEW q \in Ids
               PROVE  dealt'[r] + Extra(q)' = dealt'[q] + Extra(r)'
    OBVIOUS
  <2>3. r \in 0..(Reactors - 1) /\ q \in 0..(Reactors - 1) /\ index \in Ids
    BY <2>2 DEF Ids
  <2>4. dealt[r] \in Nat /\ dealt[q] \in Nat /\ dealt[index] \in Nat
    BY <2>3 DEF SInv, TypeOK
  <2>5. /\ dealt'[r] = dealt[r] + (IF r = index THEN 1 ELSE 0)
        /\ dealt'[q] = dealt[q] + (IF q = index THEN 1 ELSE 0)
    BY <2>1, <2>3, <2>4 DEF SInv, TypeOK
  <2>6. dealt[r] + Extra(q) = dealt[q] + Extra(r)
    BY DEF DealtInTurns
  <2> QED
    BY <2>1, <2>2, <2>3, <2>4, <2>5, <2>6 DEF Extra, Turn
<1>2. CASE ~\E c \in Conns : Accept(c)
  <2>1. UNCHANGED <<dealt, index>>
    BY <1>2 DEF Next, AddConnection, SetDisconnectCallback, HangUp, Disconnect, CloseStart, Notify, Destroy,
                WriteChecks, WriteUpdates, WriteFails, WriteLeaves, StartListening, StopBegins, StopEnds, vars
  <2> QED
    BY <2>1 DEF DealtInTurns, Extra, Turn
<1> QED
  BY <1>1, <1>2

LEMMA DealStart == Init => DealtInTurns
BY ReactorsAssumption DEF Init, DealtInTurns, Extra, Turn, Ids

\* No reactor is ever two connections ahead of another, however many there are.
THEOREM RoundRobin == Spec => []DealtEvenly
<1>1. SInv /\ DealtInTurns => DealtEvenly
  <2> SUFFICES ASSUME SInv, DealtInTurns, NEW r \in Ids, NEW q \in Ids
               PROVE  dealt[r] <= dealt[q] + 1
    BY DEF DealtEvenly
  <2>1. dealt[r] \in Nat /\ dealt[q] \in Nat
    BY DEF SInv, TypeOK
  <2>2. CASE Reactors = 1
    BY <2>1, <2>2 DEF Ids
  <2>3. CASE Reactors # 1
    BY <2>1, <2>3 DEF DealtInTurns, Extra
  <2> QED
    BY <2>2, <2>3
<1>2. Spec => []DealtInTurns
  BY DealStart, DealStep, SInvariant, PTL DEF Spec
<1> QED
  BY <1>1, <1>2, SInvariant, PTL
=============================================================================
