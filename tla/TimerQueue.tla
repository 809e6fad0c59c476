----------------------------- MODULE TimerQueue -----------------------------
(***************************************************************************)
(* CTimerQueue of one reactor: m_mapTimers holds every timer by its id,    *)
(* m_mapEvents orders them by the time they are due and their id.          *)
(*                                                                         *)
(* HandleTimerEvent reads the clock once, then runs what is due one after  *)
(* the other.  A callback may add timers and remove other timers; when it  *)
(* returns, HandleTimerEvent looks at begin() of m_mapEvents again and     *)
(* takes it for the event it has just run.                                 *)
(***************************************************************************)
EXTENDS Integers

CONSTANTS
  Intervals,  \* what timers are added with (1, 1000 and 3000 ms in the code)
  MaxTimers,  \* bound: timers ever added
  MaxTime     \* bound: the clock

ASSUME IntervalsAssumption == Intervals \subseteq Nat \ {0}

VARIABLES
  now,     \* the steady clock
  last,    \* nLastTimeId
  timers,  \* m_mapTimers: id -> its interval and its next timeout
  events,  \* m_mapEvents: the time and id of its key, and the timer it points to
  point,   \* nTimePoint of the HandleTimerEvent that is running, or Idle
  firing,  \* the id whose callback is running, or 0
  ran      \* the ids this HandleTimerEvent has run (a history variable)

timerVars == <<now, last, timers, events, point, firing, ran>>

Idle == -1

TimersTypeOK ==
  /\ now \in Nat /\ last \in Nat
  /\ DOMAIN timers \subseteq 1..last
  /\ \A i \in DOMAIN timers : timers[i] \in [interval : Intervals, next : Nat]
  /\ events \subseteq [at : Nat, id : 1..last, timer : 1..last]
  /\ point \in Nat \cup {Idle}
  /\ firing \in 0..last
  /\ ran \subseteq 1..last

TimersInit ==
  /\ now = 0 /\ last = 0
  /\ timers = [i \in {} |-> 0]
  /\ events = {}
  /\ point = Idle /\ firing = 0 /\ ran = {}

Tick ==
  /\ now < MaxTime
  /\ now' = now + 1
  /\ UNCHANGED <<last, timers, events, point, firing, ran>>

\* The order of the map's keys.
Before(e, f) == e.at < f.at \/ (e.at = f.at /\ e.id < f.id)

\* e is begin() of m_mapEvents.
IsFirst(e) == \A f \in events \ {e} : Before(e, f)

\* Mutant: the first id is 0, which HandleTimerEvent takes for no timer.
AddTimerFromZero(ms) ==
  /\ last < MaxTimers
  /\ last' = last + 1
  /\ timers' = [i \in DOMAIN timers \cup {last} |->
                  IF i = last THEN [interval |-> ms, next |-> now + ms] ELSE timers[i]]
  /\ events' = events \cup {[at |-> now + ms, id |-> last, timer |-> last]}
  /\ UNCHANGED <<now, point, firing, ran>>

\* Called by the reactor's own thread, from a callback or between two HandleTimerEvents.
AddTimer(ms) ==
  /\ last < MaxTimers
  /\ last' = last + 1
  /\ timers' = [i \in DOMAIN timers \cup {last'} |->
                  IF i = last' THEN [interval |-> ms, next |-> now + ms] ELSE timers[i]]
  /\ events' = events \cup {[at |-> now + ms, id |-> last', timer |-> last']}
  /\ UNCHANGED <<now, point, firing, ran>>

\* No callback removes the timer that runs it.
RemoveTimer(id) ==
  /\ id \in DOMAIN timers \ {firing}
  /\ events' = {e \in events : ~(e.at = timers[id].next /\ e.id = id)}
  /\ timers' = [i \in DOMAIN timers \ {id} |-> timers[i]]
  /\ UNCHANGED <<now, last, point, firing, ran>>

HandleStart ==
  /\ point = Idle
  /\ DOMAIN timers # {}
  /\ point' = now
  /\ ran' = {}
  /\ UNCHANGED <<now, last, timers, events, firing>>

\* The callback of the first event that is due begins.
Fire ==
  /\ point # Idle /\ firing = 0
  /\ DOMAIN timers # {}
  /\ \E e \in events : IsFirst(e) /\ e.at <= point /\ firing' = e.id
  /\ ran' = ran \cup {firing'}
  /\ UNCHANGED <<now, last, timers, events, point>>

\* Mutant: the timer is due again one interval after the time it was due, not after this one.
RepeatedInArrears ==
  /\ firing # 0
  /\ \E e \in events :
       /\ IsFirst(e)
       /\ LET next == e.at + timers[e.timer].interval
          IN  /\ timers' = [timers EXCEPT ![e.timer].next = next]
              /\ events' = (events \ {e}) \cup {[at |-> next, id |-> firing, timer |-> e.timer]}
  /\ firing' = 0
  /\ UNCHANGED <<now, last, point, ran>>

\* The callback returned true: the event that is now first is entered again.
Repeated ==
  /\ firing # 0
  /\ \E e \in events :
       /\ IsFirst(e)
       /\ LET next == point + timers[e.timer].interval
          IN  /\ timers' = [timers EXCEPT ![e.timer].next = next]
              /\ events' = (events \ {e}) \cup {[at |-> next, id |-> firing, timer |-> e.timer]}
  /\ firing' = 0
  /\ UNCHANGED <<now, last, point, ran>>

\* Mutant: the timer stays in m_mapTimers.
DoneKeepsTimer ==
  /\ firing # 0
  /\ \E e \in events : IsFirst(e) /\ events' = events \ {e}
  /\ firing' = 0
  /\ UNCHANGED <<now, last, timers, point, ran>>

\* The callback returned false: the event that is now first goes, and the timer that ran.
Done ==
  /\ firing # 0
  /\ \E e \in events : IsFirst(e) /\ events' = events \ {e}
  /\ timers' = [i \in DOMAIN timers \ {firing} |-> timers[i]]
  /\ firing' = 0
  /\ UNCHANGED <<now, last, point, ran>>

HandleEnd ==
  /\ point # Idle /\ firing = 0
  /\ DOMAIN timers = {} \/ \E e \in events : IsFirst(e) /\ e.at > point
  /\ point' = Idle
  /\ UNCHANGED <<now, last, timers, events, firing, ran>>

\* What the callbacks, and the thread between two HandleTimerEvents, do with timers.
UseTimers ==
  /\ point = Idle \/ firing # 0
  /\ \/ \E ms \in Intervals : AddTimer(ms)
     \/ \E id \in DOMAIN timers : RemoveTimer(id)

HandleTimerEvent == HandleStart \/ Fire \/ Repeated \/ Done \/ HandleEnd

TimersNext == Tick \/ UseTimers \/ HandleTimerEvent

TimersSpec == TimersInit /\ [][TimersNext]_timerVars

-----------------------------------------------------------------------------
(* Properties *)

\* The two maps hold the same timers under the same times, whatever the callbacks add and remove: no
\* timer is lost and none runs that was removed.
MapsAgree ==
  /\ \A e \in events : e.id \in DOMAIN timers /\ e.timer = e.id /\ e.at = timers[e.id].next
  /\ \A i \in DOMAIN timers : \E e \in events : e.id = i

\* One HandleTimerEvent runs no timer twice, so that repeated and newly added timers cannot keep the
\* reactor from its sockets.
RunsOnce == [][firing' # firing /\ firing' # 0 => firing' \notin ran]_timerVars
=============================================================================
