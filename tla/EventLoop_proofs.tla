-------------------------- MODULE EventLoop_proofs --------------------------
(***************************************************************************)
(* Theorems about the timer queue and the reactor's loop, for any number   *)
(* of timers, any intervals and any set of channels.  The loop uses its    *)
(* timers as TimersSpec says (LoopUsesTimers), so that what is proved of   *)
(* the timer queue alone holds of the loop.                                *)
(***************************************************************************)
EXTENDS EventLoop, TLAPS

-----------------------------------------------------------------------------
(* The inductive invariant of the timer queue *)

\* The event whose callback runs stays first: what the callback adds is due later.
FirstIsFiring ==
  firing # 0 => point # Idle /\ \E e \in events : IsFirst(e) /\ e.id = firing

\* The clock does not go back, so that what is added now is due after the time HandleTimerEvent read.
PointIsPast == point # Idle => point <= now

\* What has run in this HandleTimerEvent, and is still there, is due after it.
RanIsLater ==
  point # Idle => \A i \in ran \ {firing} : i \in DOMAIN timers => timers[i].next > point

\* The event whose callback runs was due.
FiringWasDue == firing # 0 => \A e \in events : e.id = firing => e.at <= point

TimersInv == TimersTypeOK /\ MapsAgree /\ FirstIsFiring /\ PointIsPast /\ RanIsLater /\ FiringWasDue

\* A set of events has one first: what begin() finds after the callback is the event that ran.
LEMMA FirstIsUnique ==
  ASSUME TimersTypeOK, NEW e \in events, NEW f \in events, IsFirst(e), IsFirst(f)
  PROVE  e = f
<1>1. e.at \in Nat /\ e.id \in Nat /\ f.at \in Nat /\ f.id \in Nat
  BY DEF TimersTypeOK
<1>2. SUFFICES ASSUME e # f PROVE FALSE
  OBVIOUS
<1>3. Before(e, f) /\ Before(f, e)
  BY <1>2 DEF IsFirst
<1> QED
  BY <1>1, <1>3 DEF Before

\* A timer has one event.
LEMMA EventIsUnique ==
  ASSUME TimersTypeOK, MapsAgree, NEW e \in events, NEW f \in events, e.id = f.id
  PROVE  e = f
BY DEF TimersTypeOK, MapsAgree

\* While a callback runs, begin() is the event that it is run for.
LEMMA FirstHasRun ==
  ASSUME TimersInv, firing # 0, NEW e \in events, IsFirst(e)
  PROVE  e.id = firing /\ e.timer = firing /\ firing \in DOMAIN timers /\ point \in Nat
<1>1. PICK f \in events : IsFirst(f) /\ f.id = firing
  BY DEF TimersInv, FirstIsFiring
<1>2. e = f
  BY <1>1, FirstIsUnique DEF TimersInv
<1>3. point \in Nat
  BY DEF TimersInv, TimersTypeOK, FirstIsFiring
<1> QED
  BY <1>1, <1>2, <1>3 DEF TimersInv, MapsAgree

-----------------------------------------------------------------------------
(* One lemma for each action *)

LEMMA TickKeeps == TimersInv /\ Tick => TimersInv'
<1> SUFFICES ASSUME TimersInv, Tick PROVE TimersInv'
  OBVIOUS
<1>1. /\ UNCHANGED <<last, timers, events, point, firing, ran>>
      /\ now \in Nat /\ now' = now + 1
  BY DEF Tick, TimersInv, TimersTypeOK
<1>2. TimersTypeOK' /\ MapsAgree' /\ FirstIsFiring' /\ RanIsLater' /\ FiringWasDue'
  BY <1>1 DEF TimersInv, TimersTypeOK, MapsAgree, FirstIsFiring, RanIsLater, FiringWasDue, IsFirst, Before
<1>3. PointIsPast'
  BY <1>1 DEF TimersInv, TimersTypeOK, PointIsPast, Idle
<1> QED
  BY <1>2, <1>3 DEF TimersInv

LEMMA AddTimerKeeps ==
  ASSUME TimersInv, NEW ms \in Intervals, AddTimer(ms)
  PROVE  TimersInv'
<1> DEFINE new == [at |-> now + ms, id |-> last + 1, timer |-> last + 1]
<1>1. /\ ms \in Nat \ {0} /\ now \in Nat /\ last \in Nat /\ now + ms \in Nat
      /\ last' = last + 1
      /\ timers' = [i \in DOMAIN timers \cup {last + 1} |->
                      IF i = last + 1 THEN [interval |-> ms, next |-> now + ms] ELSE timers[i]]
      /\ events' = events \cup {new}
      /\ UNCHANGED <<now, point, firing, ran>>
  BY IntervalsAssumption DEF AddTimer, TimersInv, TimersTypeOK
<1>2. /\ last + 1 \notin DOMAIN timers
      /\ DOMAIN timers' = DOMAIN timers \cup {last + 1}
      /\ \A i \in DOMAIN timers : timers'[i] = timers[i]
      /\ timers'[last + 1] = [interval |-> ms, next |-> now + ms]
  BY <1>1 DEF TimersInv, TimersTypeOK
<1>3. TimersTypeOK'
  <2>1. \A i \in DOMAIN timers' : timers'[i] \in [interval : Intervals, next : Nat]
    BY <1>1, <1>2 DEF TimersInv, TimersTypeOK
  <2>2. events' \subseteq [at : Nat, id : 1..last', timer : 1..last']
    BY <1>1 DEF TimersInv, TimersTypeOK
  <2> QED
    BY <1>1, <1>2, <2>1, <2>2 DEF TimersInv, TimersTypeOK
<1>4. MapsAgree'
  <2>1. \A e \in events : e.id \in DOMAIN timers' /\ e.timer = e.id /\ e.at = timers'[e.id].next
    BY <1>2 DEF TimersInv, MapsAgree
  <2>2. new.id = last + 1 /\ new.timer = last + 1 /\ new.at = timers'[last + 1].next
    BY <1>2
  <2>3. \A e \in events' : e.id \in DOMAIN timers' /\ e.timer = e.id /\ e.at = timers'[e.id].next
    <3> HIDE DEF new
    <3> QED
      BY <1>1, <1>2, <2>1, <2>2
  <2>4. \A i \in DOMAIN timers' : \E e \in events' : e.id = i
    <3> SUFFICES ASSUME NEW i \in DOMAIN timers' PROVE \E e \in events' : e.id = i
      OBVIOUS
    <3>1. CASE i \in DOMAIN timers
      BY <1>1, <3>1 DEF TimersInv, MapsAgree
    <3>2. CASE i = last + 1
      <4> new \in events'
        BY <1>1
      <4> HIDE DEF new
      <4> QED
        BY <2>2, <3>2
    <3> QED
      BY <1>2, <3>1, <3>2
  <2> QED
    BY <2>3, <2>4 DEF MapsAgree
<1>5. FirstIsFiring'
  <2> SUFFICES ASSUME firing # 0
               PROVE  point # Idle /\ \E e \in events' : IsFirst(e)' /\ e.id = firing
    BY <1>1 DEF FirstIsFiring
  <2>1. PICK e \in events : IsFirst(e) /\ e.id = firing
    BY DEF TimersInv, FirstIsFiring
  <2>2. e.at <= point /\ point # Idle /\ point <= now /\ point \in Nat /\ e.at \in Nat
    BY <2>1 DEF TimersInv, FiringWasDue, FirstIsFiring, PointIsPast, TimersTypeOK
  <2>3. Before(e, new)
    BY <1>1, <2>2 DEF Before
  <2>4. IsFirst(e)'
    BY <1>1, <2>1, <2>3 DEF IsFirst, Before
  <2> QED
    BY <1>1, <2>1, <2>2, <2>4
<1>6. RanIsLater'
  <2>1. last + 1 \notin ran
    BY <1>1 DEF TimersInv, TimersTypeOK
  <2> QED
    BY <1>1, <1>2, <2>1 DEF TimersInv, RanIsLater
<1>7. FiringWasDue'
  BY <1>1 DEF TimersInv, TimersTypeOK, FiringWasDue
<1> QED
  BY <1>1, <1>3, <1>4, <1>5, <1>6, <1>7 DEF TimersInv, PointIsPast

LEMMA RemoveTimerKeeps ==
  ASSUME TimersInv, NEW id \in DOMAIN timers, RemoveTimer(id)
  PROVE  TimersInv'
<1>1. /\ id # firing
      /\ events' = {e \in events : ~(e.at = timers[id].next /\ e.id = id)}
      /\ DOMAIN timers' = DOMAIN timers \ {id}
      /\ \A i \in DOMAIN timers' : timers'[i] = timers[i]
      /\ UNCHANGED <<now, last, point, firing, ran>>
  BY DEF RemoveTimer
<1>2. events' = {e \in events : e.id # id}
  BY <1>1 DEF TimersInv, MapsAgree
<1>3. TimersTypeOK'
  BY <1>1, <1>2 DEF TimersInv, TimersTypeOK
<1>4. MapsAgree'
  BY <1>1, <1>2 DEF TimersInv, MapsAgree
<1>5. FirstIsFiring'
  BY <1>1, <1>2 DEF TimersInv, FirstIsFiring, IsFirst, Before
<1>6. RanIsLater' /\ PointIsPast' /\ FiringWasDue'
  BY <1>1, <1>2 DEF TimersInv, RanIsLater, PointIsPast, FiringWasDue
<1> QED
  BY <1>3, <1>4, <1>5, <1>6 DEF TimersInv

LEMMA HandleStartKeeps == TimersInv /\ HandleStart => TimersInv'
<1> SUFFICES ASSUME TimersInv, HandleStart PROVE TimersInv'
  OBVIOUS
<1>1. /\ firing = 0 /\ point' = now /\ ran' = {} /\ now \in Nat
      /\ UNCHANGED <<now, last, timers, events, firing>>
  BY DEF HandleStart, TimersInv, FirstIsFiring, TimersTypeOK
<1> QED
  BY <1>1 DEF TimersInv, TimersTypeOK, MapsAgree, FirstIsFiring, PointIsPast, RanIsLater, FiringWasDue

LEMMA FireKeeps == TimersInv /\ Fire => TimersInv' /\ firing' \notin ran
<1> SUFFICES ASSUME TimersInv, Fire PROVE TimersInv' /\ firing' \notin ran
  OBVIOUS
<1>1. PICK e \in events : IsFirst(e) /\ e.at <= point /\ firing' = e.id
  BY DEF Fire
<1>2. /\ point # Idle /\ firing = 0 /\ ran' = ran \cup {e.id}
      /\ UNCHANGED <<now, last, timers, events, point>>
  BY <1>1 DEF Fire
<1>3. /\ e.id \in 1..last /\ e.id \in DOMAIN timers /\ e.at = timers[e.id].next
      /\ e.at \in Nat /\ point \in Nat /\ last \in Nat
  BY <1>1, <1>2 DEF TimersInv, TimersTypeOK, MapsAgree
<1>4. \A i \in ran : i \in DOMAIN timers => timers[i].next > point
  BY <1>2, <1>3 DEF TimersInv, TimersTypeOK, RanIsLater
<1>5. firing' \notin ran
  BY <1>1, <1>3, <1>4
<1>6. TimersTypeOK' /\ MapsAgree' /\ PointIsPast'
  <2>1. TimersTypeOK'
    <3>1. ran \subseteq 1..last
      BY DEF TimersInv, TimersTypeOK
    <3>2. firing' \in 0..last' /\ ran' \subseteq 1..last'
      <4> DEFINE id == e.id
      <4>1. id \in 1..last /\ last \in Nat /\ last' = last /\ firing' = id /\ ran' = ran \cup {id}
        BY <1>1, <1>2, <1>3
      <4> HIDE DEF id
      <4> QED
        BY <3>1, <4>1
    <3> QED
      BY <1>2, <3>2 DEF TimersInv, TimersTypeOK
  <2>2. MapsAgree' /\ PointIsPast'
    BY <1>2 DEF TimersInv, MapsAgree, PointIsPast
  <2> QED
    BY <2>1, <2>2
<1>7. FirstIsFiring'
  BY <1>1, <1>2 DEF FirstIsFiring, IsFirst, Before
<1>8. RanIsLater'
  BY <1>1, <1>2, <1>4 DEF RanIsLater
<1>9. FiringWasDue'
  BY <1>1, <1>2, EventIsUnique DEF TimersInv, FiringWasDue
<1> QED
  BY <1>5, <1>6, <1>7, <1>8, <1>9 DEF TimersInv

LEMMA RepeatedKeeps == TimersInv /\ Repeated => TimersInv'
<1> SUFFICES ASSUME TimersInv, Repeated PROVE TimersInv'
  OBVIOUS
<1>0. firing # 0 /\ firing' = 0 /\ UNCHANGED <<now, last, point, ran>>
  BY DEF Repeated
<1>1. PICK e \in events :
        /\ IsFirst(e)
        /\ LET next == point + timers[e.timer].interval
           IN  /\ timers' = [timers EXCEPT ![e.timer].next = next]
               /\ events' = (events \ {e}) \cup {[at |-> next, id |-> firing, timer |-> e.timer]}
  BY DEF Repeated
<1>2. e.id = firing /\ e.timer = firing /\ firing \in DOMAIN timers /\ point \in Nat
  BY <1>0, <1>1, FirstHasRun
<1> DEFINE next == point + timers[firing].interval
           new == [at |-> next, id |-> firing, timer |-> firing]
<1>3. timers[firing] \in [interval : Intervals, next : Nat] /\ timers[firing].interval \in Nat \ {0}
  BY <1>2, IntervalsAssumption DEF TimersInv, TimersTypeOK
<1>4. next \in Nat /\ next > point
  BY <1>2, <1>3
<1>5. /\ DOMAIN timers' = DOMAIN timers
      /\ timers'[firing] = [timers[firing] EXCEPT !.next = next]
      /\ \A i \in DOMAIN timers : i # firing => timers'[i] = timers[i]
      /\ events' = (events \ {e}) \cup {new}
  BY <1>1, <1>2
<1>6. timers'[firing] \in [interval : Intervals, next : Nat] /\ timers'[firing].next = next
  BY <1>3, <1>4, <1>5
<1>7. firing \in 1..last
  BY <1>2 DEF TimersInv, TimersTypeOK
<1>8. \A f \in events \ {e} : f.id # firing
  BY <1>2, EventIsUnique DEF TimersInv
<1>9. TimersTypeOK'
  <2> HIDE DEF next
  <2>1. new \in [at : Nat, id : 1..last, timer : 1..last]
    BY <1>4, <1>7
  <2>2. \A i \in DOMAIN timers' : timers'[i] \in [interval : Intervals, next : Nat]
    BY <1>5, <1>6 DEF TimersInv, TimersTypeOK
  <2>3. events' \subseteq [at : Nat, id : 1..last', timer : 1..last']
    BY <1>0, <1>5, <2>1 DEF TimersInv, TimersTypeOK
  <2>4. DOMAIN timers' \subseteq 1..last'
    BY <1>0, <1>5 DEF TimersInv, TimersTypeOK
  <2>5. now' \in Nat /\ last' \in Nat /\ point' \in Nat \cup {Idle} /\ firing' \in 0..last' /\ ran' \subseteq 1..last'
    BY <1>0 DEF TimersInv, TimersTypeOK
  <2> QED
    BY <2>2, <2>3, <2>4, <2>5 DEF TimersTypeOK
<1>10. MapsAgree'
  <2> HIDE DEF next
  <2>1. \A f \in events \ {e} : f.id \in DOMAIN timers' /\ f.timer = f.id /\ f.at = timers'[f.id].next
    BY <1>5, <1>8 DEF TimersInv, MapsAgree
  <2>2. \A i \in DOMAIN timers' : \E f \in events' : f.id = i
    <3> SUFFICES ASSUME NEW i \in DOMAIN timers' PROVE \E f \in events' : f.id = i
      OBVIOUS
    <3>1. CASE i = firing
      <4> new \in events' /\ new.id = firing
        BY <1>5
      <4> HIDE DEF new
      <4> QED
        BY <3>1
    <3>2. CASE i # firing
      <4>1. PICK f \in events : f.id = i
        BY <1>5 DEF TimersInv, MapsAgree
      <4>2. f \in events'
        BY <1>2, <1>5, <3>2, <4>1
      <4> QED
        BY <4>1, <4>2
    <3> QED
      BY <3>1, <3>2
  <2> QED
    BY <1>2, <1>5, <1>6, <2>1, <2>2 DEF MapsAgree
<1>11. RanIsLater'
  <2> HIDE DEF next
  <2>1. \A i \in ran : i \in DOMAIN timers => timers'[i].next > point
    BY <1>0, <1>4, <1>5, <1>6 DEF TimersInv, RanIsLater, FirstIsFiring
  <2> QED
    BY <1>0, <1>5, <2>1 DEF RanIsLater
<1>12. FirstIsFiring' /\ PointIsPast' /\ FiringWasDue'
  BY <1>0 DEF TimersInv, FirstIsFiring, PointIsPast, FiringWasDue
<1> QED
  BY <1>9, <1>10, <1>11, <1>12 DEF TimersInv

LEMMA DoneKeeps == TimersInv /\ Done => TimersInv'
<1> SUFFICES ASSUME TimersInv, Done PROVE TimersInv'
  OBVIOUS
<1>0. firing # 0 /\ firing' = 0 /\ UNCHANGED <<now, last, point, ran>>
  BY DEF Done
<1>1. PICK e \in events : IsFirst(e) /\ events' = events \ {e}
  BY DEF Done
<1>2. e.id = firing
  BY <1>0, <1>1, FirstHasRun
<1>3. /\ DOMAIN timers' = DOMAIN timers \ {firing}
      /\ \A i \in DOMAIN timers' : timers'[i] = timers[i]
  BY DEF Done
<1>4. events' = {f \in events : f.id # firing}
  BY <1>1, <1>2, EventIsUnique DEF TimersInv
<1>5. TimersTypeOK'
  BY <1>0, <1>3, <1>4 DEF TimersInv, TimersTypeOK
<1>6. MapsAgree'
  BY <1>3, <1>4 DEF TimersInv, MapsAgree
<1>7. FirstIsFiring' /\ PointIsPast' /\ FiringWasDue'
  BY <1>0 DEF TimersInv, FirstIsFiring, PointIsPast, FiringWasDue
<1>8. RanIsLater'
  BY <1>0, <1>3 DEF TimersInv, RanIsLater
<1> QED
  BY <1>5, <1>6, <1>7, <1>8 DEF TimersInv

LEMMA HandleEndKeeps == TimersInv /\ HandleEnd => TimersInv'
<1> SUFFICES ASSUME TimersInv, HandleEnd PROVE TimersInv'
  OBVIOUS
<1>1. firing = 0 /\ point' = Idle /\ UNCHANGED <<now, last, timers, events, firing, ran>>
  BY DEF HandleEnd
<1> QED
  BY <1>1 DEF TimersInv, TimersTypeOK, MapsAgree, FirstIsFiring, PointIsPast, RanIsLater, FiringWasDue

-----------------------------------------------------------------------------
(* The timer queue *)

\* Every step keeps the invariant, and starts no timer that has run in this HandleTimerEvent.
LEMMA TimersStep ==
  TimersInv /\ [TimersNext]_timerVars
    => TimersInv' /\ (firing' # firing /\ firing' # 0 => firing' \notin ran)
<1> SUFFICES ASSUME TimersInv, [TimersNext]_timerVars
             PROVE  TimersInv' /\ (firing' # firing /\ firing' # 0 => firing' \notin ran)
  OBVIOUS
<1>1. CASE Tick
  BY <1>1, TickKeeps DEF Tick
<1>2. CASE UseTimers
  <2>1. CASE \E ms \in Intervals : AddTimer(ms)
    BY <2>1, AddTimerKeeps DEF AddTimer
  <2>2. CASE \E id \in DOMAIN timers : RemoveTimer(id)
    BY <2>2, RemoveTimerKeeps DEF RemoveTimer
  <2> QED
    BY <1>2, <2>1, <2>2 DEF UseTimers
<1>3. CASE HandleStart
  BY <1>3, HandleStartKeeps DEF HandleStart
<1>4. CASE Fire
  BY <1>4, FireKeeps
<1>5. CASE Repeated
  BY <1>5, RepeatedKeeps DEF Repeated
<1>6. CASE Done
  BY <1>6, DoneKeeps DEF Done
<1>7. CASE HandleEnd
  BY <1>7, HandleEndKeeps DEF HandleEnd
<1>8. CASE UNCHANGED timerVars
  BY <1>8 DEF timerVars, TimersInv, TimersTypeOK, MapsAgree, FirstIsFiring, PointIsPast, RanIsLater,
              FiringWasDue, IsFirst, Before
<1> QED
  BY <1>1, <1>2, <1>3, <1>4, <1>5, <1>6, <1>7, <1>8 DEF TimersNext, HandleTimerEvent

LEMMA TimersStart == TimersInit => TimersInv
BY DEF TimersInit, TimersInv, TimersTypeOK, MapsAgree, FirstIsFiring, PointIsPast, RanIsLater, FiringWasDue, Idle

\* The inductive invariant of the timer queue: the event that runs stays first while its callback adds
\* and removes other timers, and what has run is due later.
THEOREM TimersInvariant == TimersSpec => []TimersInv
<1>1. TimersInv /\ [TimersNext]_timerVars => TimersInv'
  BY TimersStep
<1> QED
  BY <1>1, TimersStart, PTL DEF TimersSpec

-----------------------------------------------------------------------------
(* The loop *)

\* The reactor's loop uses its timers as the timer queue allows: HandleTimerEvent is run to its end
\* between two waits, and timers are added and removed by callbacks only.
THEOREM LoopUsesTimers == Spec => TimersSpec
<1>1. Init => TimersInit
  BY DEF Init
<1>2. [Next /\ Orderly]_vars => [TimersNext]_timerVars
  <2> SUFFICES ASSUME [Next /\ Orderly]_vars PROVE [TimersNext]_timerVars
    OBVIOUS
  <2>1. CASE Thread
    <3>1. CASE RunTimers
      BY <3>1 DEF RunTimers, TimersNext
    <3>2. CASE Start \/ NoTimers \/ LookAtFlags \/ BuildSets \/ Select \/ CollectEvents \/ LoopAgain
      BY <3>2 DEF Start, NoTimers, LookAtFlags, BuildSets, Select, CollectEvents, LoopAgain
    <3>3. CASE \E c \in Channels : Dispatch(c)
      BY <3>3 DEF Dispatch
    <3> QED
      BY <2>1, <3>1, <3>2, <3>3 DEF Thread
  <2>2. CASE \E c \in Channels : Connect(c) \/ HandleWrite(c) \/ UpdateChannel(c) \/ RemoveChannel(c)
    BY <2>2 DEF Connect, HandleWrite, UpdateChannel, RemoveChannel
  <2>3. CASE Quit \/ Joined
    BY <2>3 DEF Quit, Joined
  <2>4. CASE TimersUsed
    BY <2>4 DEF TimersUsed, TimersNext
  <2>5. CASE Tick
    BY <2>5 DEF TimersNext
  <2>6. CASE UNCHANGED vars
    BY <2>6 DEF vars
  <2> QED
    BY <2>1, <2>2, <2>3, <2>4, <2>5, <2>6 DEF Next
<1> QED
  BY <1>1, <1>2, PTL DEF Spec, TimersSpec

\* The two maps of a timer queue hold the same timers under the same times in every state of the loop.
THEOREM TimersAgree == Spec => []MapsAgree
<1>1. TimersInv => MapsAgree
  BY DEF TimersInv
<1> QED
  BY <1>1, TimersInvariant, LoopUsesTimers, PTL

\* No HandleTimerEvent of the loop runs a timer twice.
THEOREM TimersRunOnce == Spec => RunsOnce
<1>1. TimersInv /\ [TimersNext]_timerVars
        => [firing' # firing /\ firing' # 0 => firing' \notin ran]_timerVars
  BY TimersStep
<1>2. TimersSpec => [][TimersNext]_timerVars
  BY PTL DEF TimersSpec
<1> QED
  BY <1>1, <1>2, TimersInvariant, LoopUsesTimers, PTL DEF RunsOnce
-----------------------------------------------------------------------------
(* The copies of the descriptor sets *)

\* The sets of sockets to read from and to watch for errors hold every channel there is, whatever is
\* still to be told: only registering and removing change them, and both mark them.
AllArePolled == \A s \in {"read", "except"} \ stale : kept[s] = polled

SetsInv == TypeOK /\ AllArePolled /\ SetsFollowChannels

\* What a step leaves that touches neither channels nor copies.
LEMMA SetsUntouched ==
  ASSUME SetsInv, TypeOK', UNCHANGED <<channelVars, kept>>
  PROVE  SetsInv'
BY DEF SetsInv, AllArePolled, SetsFollowChannels, Wanted, channelVars

LEMMA ConnectKeeps ==
  ASSUME SetsInv, NEW c \in Channels, Connect(c)
  PROVE  SetsInv'
<1>1. /\ c \notin polled /\ telling' = telling \cup {c} /\ writing' = writing \ {c}
      /\ UNCHANGED <<polled, stale, threadVars, timerVars>>
  BY DEF Connect
<1>2. TypeOK'
  BY <1>1 DEF SetsInv, TypeOK, TimersTypeOK, threadVars, timerVars
<1>3. AllArePolled' /\ SetsFollowChannels'
  BY <1>1 DEF SetsInv, AllArePolled, SetsFollowChannels, Wanted, threadVars, Sets
<1> QED
  BY <1>2, <1>3 DEF SetsInv

LEMMA HandleWriteKeeps ==
  ASSUME SetsInv, NEW c \in Channels, HandleWrite(c)
  PROVE  SetsInv'
<1>1. /\ telling' = telling \cup {c} /\ writing' \in {writing \ {c}, writing \cup {c}}
      /\ UNCHANGED <<polled, stale, threadVars, timerVars>>
  BY DEF HandleWrite
<1>2. TypeOK'
  BY <1>1 DEF SetsInv, TypeOK, TimersTypeOK, threadVars, timerVars
<1>3. AllArePolled' /\ SetsFollowChannels'
  BY <1>1 DEF SetsInv, AllArePolled, SetsFollowChannels, Wanted, threadVars, Sets
<1> QED
  BY <1>2, <1>3 DEF SetsInv

LEMMA UpdateChannelKeeps ==
  ASSUME SetsInv, NEW c \in Channels, UpdateChannel(c)
  PROVE  SetsInv'
<1>1. /\ telling' = telling \ {c} /\ polled' = polled \cup {c}
      /\ stale' = stale \cup (IF c \in polled THEN {"read", "write"} ELSE Sets)
      /\ UNCHANGED <<writing, threadVars, timerVars>>
  BY DEF UpdateChannel
<1>2. TypeOK'
  BY <1>1 DEF SetsInv, TypeOK, TimersTypeOK, threadVars, timerVars, Sets
<1>3. AllArePolled' /\ SetsFollowChannels'
  BY <1>1 DEF SetsInv, AllArePolled, SetsFollowChannels, Wanted, threadVars, Sets
<1> QED
  BY <1>2, <1>3 DEF SetsInv

LEMMA RemoveChannelKeeps ==
  ASSUME SetsInv, NEW c \in Channels, RemoveChannel(c)
  PROVE  SetsInv'
<1>1. /\ polled' = polled \ {c} /\ stale' = Sets
      /\ UNCHANGED <<writing, telling, threadVars, timerVars>>
  BY DEF RemoveChannel
<1>2. TypeOK'
  BY <1>1 DEF SetsInv, TypeOK, TimersTypeOK, threadVars, timerVars
<1>3. AllArePolled' /\ SetsFollowChannels'
  BY <1>1 DEF SetsInv, AllArePolled, SetsFollowChannels, Sets
<1> QED
  BY <1>2, <1>3 DEF SetsInv

LEMMA BuildSetsKeeps == SetsInv /\ BuildSets => SetsInv'
<1> SUFFICES ASSUME SetsInv, BuildSets PROVE SetsInv'
  OBVIOUS
<1>1. /\ thread' = "select" /\ stale' = {}
      /\ kept' = [s \in Sets |-> IF s \in stale THEN Wanted[s] ELSE kept[s]]
      /\ UNCHANGED <<shutdown, quit, writing, telling, polled, ready, todo, timerVars>>
  BY DEF BuildSets, Goto
<1>2. Wanted \in [Sets -> SUBSET Channels]
  BY DEF Wanted, Sets, SetsInv, TypeOK
<1>3. TypeOK'
  <2>1. kept' \in [Sets -> SUBSET Channels]
    BY <1>1, <1>2 DEF SetsInv, TypeOK
  <2>2. TimersTypeOK'
    BY <1>1 DEF SetsInv, TypeOK, TimersTypeOK, timerVars
  <2> QED
    BY <1>1, <2>1, <2>2 DEF SetsInv, TypeOK
<1>4. \A s \in Sets : kept'[s] \ telling = Wanted[s] \ telling
  BY <1>1 DEF SetsInv, SetsFollowChannels
<1>5. Wanted' = Wanted
  BY <1>1 DEF Wanted
<1>6. SetsFollowChannels'
  BY <1>1, <1>4, <1>5 DEF SetsFollowChannels
<1>7. \A s \in {"read", "except"} : kept'[s] = polled
  BY <1>1 DEF SetsInv, AllArePolled, Wanted, Sets
<1> QED
  BY <1>1, <1>3, <1>6, <1>7 DEF SetsInv, AllArePolled

\* The other steps of the reactor's thread, and Quit, leave the channels and the copies alone.
LEMMA OthersKeep ==
  ASSUME SetsInv, TimersTypeOK',
         \/ Start \/ RunTimers \/ NoTimers \/ LookAtFlags \/ Select \/ CollectEvents
         \/ \E c \in Channels : Dispatch(c)
         \/ LoopAgain \/ Quit \/ Joined \/ TimersUsed
         \/ Tick /\ UNCHANGED loopVars
  PROVE  SetsInv'
<1>1. TypeOK
  BY DEF SetsInv
<1>2. CASE Start
  BY <1>1, <1>2, SetsUntouched DEF Start, Goto, TypeOK, channelVars
<1>3. CASE RunTimers
  BY <1>1, <1>3, SetsUntouched DEF RunTimers, TypeOK, channelVars
<1>4. CASE NoTimers
  BY <1>1, <1>4, SetsUntouched DEF NoTimers, Goto, TypeOK, channelVars
<1>5. CASE LookAtFlags
  BY <1>1, <1>5, SetsUntouched DEF LookAtFlags, TypeOK, channelVars
<1>6. CASE Select
  <2>1. PICK r \in SUBSET kept["read"], w \in SUBSET kept["write"], x \in SUBSET kept["except"] :
          ready' = [read |-> r, write |-> w, except |-> x]
    BY <1>6 DEF Select
  <2>2. r \subseteq Channels /\ w \subseteq Channels /\ x \subseteq Channels
    BY <1>1 DEF TypeOK, Sets
  <2>3. ready' \in [Sets -> SUBSET Channels]
    BY <2>1, <2>2 DEF Sets
  <2>4. thread' \in {"dispatch", "collect"} /\ UNCHANGED <<shutdown, quit, channelVars, kept, todo>>
    BY <1>6 DEF Select
  <2>5. TypeOK'
    BY <1>1, <2>3, <2>4 DEF TypeOK, channelVars
  <2> QED
    BY <2>4, <2>5, SetsUntouched
<1>7. CASE CollectEvents
  <2>1. ready' \in [Sets -> SUBSET Channels]
    BY <1>7 DEF CollectEvents, Nothing
  <2> QED
    BY <1>1, <1>7, <2>1, SetsUntouched DEF CollectEvents, Goto, TypeOK, channelVars
<1>8. CASE \E c \in Channels : Dispatch(c)
  BY <1>1, <1>8, SetsUntouched DEF Dispatch, TypeOK, channelVars
<1>9. CASE LoopAgain
  BY <1>1, <1>9, SetsUntouched DEF LoopAgain, TypeOK, channelVars
<1>10. CASE Quit
  BY <1>1, <1>10, SetsUntouched DEF Quit, TypeOK, channelVars
<1>11. CASE Joined
  BY <1>1, <1>11, SetsUntouched DEF Joined, TypeOK, channelVars
<1>12. CASE TimersUsed \/ (Tick /\ UNCHANGED loopVars)
  BY <1>1, <1>12, SetsUntouched DEF TimersUsed, TypeOK, channelVars, loopVars
<1> QED
  BY <1>2, <1>3, <1>4, <1>5, <1>6, <1>7, <1>8, <1>9, <1>10, <1>11, <1>12

LEMMA SetsStep == SetsInv /\ TimersTypeOK' /\ [Next /\ Orderly]_vars => SetsInv'
<1> SUFFICES ASSUME SetsInv, TimersTypeOK', [Next /\ Orderly]_vars PROVE SetsInv'
  OBVIOUS
<1>1. CASE UNCHANGED vars
  BY <1>1 DEF vars, timerVars, loopVars, SetsInv, TypeOK, TimersTypeOK, AllArePolled, SetsFollowChannels, Wanted
<1>2. CASE BuildSets
  BY <1>2, BuildSetsKeeps
<1>3. CASE \E c \in Channels : Connect(c) \/ HandleWrite(c) \/ UpdateChannel(c) \/ RemoveChannel(c)
  BY <1>3, ConnectKeeps, HandleWriteKeeps, UpdateChannelKeeps, RemoveChannelKeeps
<1> QED
  BY <1>1, <1>2, <1>3, OthersKeep DEF Next, Thread

LEMMA SetsStart == Init => SetsInv
<1> SUFFICES ASSUME Init PROVE SetsInv
  OBVIOUS
<1>1. TimersTypeOK
  BY TimersStart DEF Init, TimersInv
<1>2. TypeOK
  BY <1>1 DEF Init, TypeOK, Nothing, Sets
<1> QED
  BY <1>2 DEF Init, SetsInv, AllArePolled, SetsFollowChannels, Wanted, Nothing, Sets

LEMMA SetsInvariant == Spec => []SetsInv
<1>1. TimersInv => TimersTypeOK
  BY DEF TimersInv
<1> QED
  BY <1>1, SetsStart, SetsStep, TimersInvariant, LoopUsesTimers, PTL DEF Spec

\* Every variable of the loop keeps its type.
THEOREM TypeCorrect == Spec => []TypeOK
<1>1. SetsInv => TypeOK
  BY DEF SetsInv
<1> QED
  BY <1>1, SetsInvariant, PTL

\* No update by another thread is lost between the flags and the copies of the sets.
THEOREM UpdatesAreSeen == Spec => []SetsFollowChannels
<1>1. SetsInv => SetsFollowChannels
  BY DEF SetsInv
<1> QED
  BY <1>1, SetsInvariant, PTL
=============================================================================
