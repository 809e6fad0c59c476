----------------------------- MODULE EventLoop -----------------------------
(***************************************************************************)
(* The client's CEventLoop: the life of a reactor's thread, which runs the *)
(* timers and then one CReactorSelect::bHandleEvent until it is stopped.   *)
(* Reactors share nothing, so one stands for all.                          *)
(*                                                                         *)
(* CReactorSelect keeps copies of its descriptor sets and builds them anew *)
(* only when a flag says so.  Other threads change a channel's interests,  *)
(* tell the reactor with UpdateChannel, and remove channels, at any time;  *)
(* UpdateChannel, RemoveChannel, the building of the sets and the          *)
(* collecting of events hold the reactor's mutex.  WinSock ignores         *)
(* m_socketMax.  A channel always wants to read: only its interest in      *)
(* writing is kept.                                                        *)
(***************************************************************************)
EXTENDS TimerQueue

CONSTANT Channels

VARIABLES
  thread,    \* where the reactor's thread is
  shutdown,  \* m_bIsShutdown
  quit,      \* where CEventLoop::Quit is
  writing,   \* the channels that want to write
  telling,   \* the channels whose UpdateChannel is still to be called
  polled,    \* m_mapChannels
  stale,     \* the copies to be built anew: the three reset flags
  kept,      \* the copies of the sets
  ready,     \* what select reported
  todo       \* listEvents

loopVars == <<thread, shutdown, quit, writing, telling, polled, stale, kept, ready, todo>>
vars == <<timerVars, loopVars>>
channelVars == <<writing, telling, polled, stale>>
threadVars == <<thread, shutdown, quit, kept, ready, todo>>

Sets == {"read", "write", "except"}

TypeOK ==
  /\ TimersTypeOK
  /\ thread \in {"created", "timers", "sets", "building", "select", "collect", "dispatch", "ended"}
  /\ shutdown \in BOOLEAN
  /\ quit \in {"no", "joining", "done"}
  /\ writing \subseteq Channels /\ telling \subseteq Channels /\ polled \subseteq Channels
  /\ stale \subseteq Sets
  /\ kept \in [Sets -> SUBSET Channels] /\ ready \in [Sets -> SUBSET Channels]
  /\ todo \subseteq Channels

Nothing == [s \in Sets |-> {}]

Init ==
  /\ TimersInit
  /\ thread = "created" /\ shutdown = FALSE /\ quit = "no"
  /\ writing = {} /\ telling = {} /\ polled = {} /\ stale = {}
  /\ kept = Nothing /\ ready = Nothing /\ todo = {}

-----------------------------------------------------------------------------
(* What any thread does with channels *)

\* A new connection's channel, with EVENT_IN set, is to be registered.
Connect(c) ==
  /\ c \notin polled \cup telling
  /\ telling' = telling \cup {c}
  /\ writing' = writing \ {c}
  /\ UNCHANGED <<polled, stale, threadVars, timerVars>>

\* HandleWrite leaves bytes in the write buffer, or has written the last of them.
HandleWrite(c) ==
  /\ c \in polled \ telling
  /\ telling' = telling \cup {c}
  /\ writing' = IF c \in writing THEN writing \ {c} ELSE writing \cup {c}
  /\ UNCHANGED <<polled, stale, threadVars, timerVars>>

UpdateChannel(c) ==
  /\ c \in telling
  /\ telling' = telling \ {c}
  /\ polled' = polled \cup {c}
  /\ stale' = stale \cup (IF c \in polled THEN {"read", "write"} ELSE Sets)
  /\ UNCHANGED <<writing, threadVars, timerVars>>

\* Close of a connection, whose mutex excludes HandleWrite.
RemoveChannel(c) ==
  /\ c \in polled \ telling
  /\ polled' = polled \ {c}
  /\ stale' = Sets
  /\ UNCHANGED <<writing, telling, threadVars, timerVars>>

-----------------------------------------------------------------------------
(* The reactor's thread *)

Goto(from, to) == thread = from /\ thread' = to

Start ==
  /\ Goto("created", "timers")
  /\ shutdown' = FALSE
  /\ UNCHANGED <<quit, channelVars, kept, ready, todo, timerVars>>

\* One step of HandleTimerEvent.
RunTimers ==
  /\ thread = "timers"
  /\ HandleTimerEvent
  /\ thread' = IF point' = Idle THEN "sets" ELSE thread
  /\ UNCHANGED <<shutdown, quit, channelVars, kept, ready, todo>>

NoTimers ==
  /\ Goto("timers", "sets")
  /\ point = Idle /\ DOMAIN timers = {}
  /\ UNCHANGED <<shutdown, quit, channelVars, kept, ready, todo, timerVars>>

\* The flags are looked at without the mutex.
LookAtFlags ==
  /\ thread = "sets"
  /\ thread' = IF stale = {} THEN "select" ELSE "building"
  /\ UNCHANGED <<shutdown, quit, channelVars, kept, ready, todo, timerVars>>

\* The interests the channels have now.
Wanted == [read |-> polled, write |-> polled \cap writing, except |-> polled]

\* Mutant: what is not built anew is lost, as if the copies were not restored.
BuildSetsAlone ==
  /\ Goto("building", "select")
  /\ kept' = [s \in Sets |-> IF s \in stale THEN Wanted[s] ELSE {}]
  /\ stale' = {}
  /\ UNCHANGED <<shutdown, quit, writing, telling, polled, ready, todo, timerVars>>

BuildSets ==
  /\ Goto("building", "select")
  /\ kept' = [s \in Sets |-> IF s \in stale THEN Wanted[s] ELSE kept[s]]
  /\ stale' = {}
  /\ UNCHANGED <<shutdown, quit, writing, telling, polled, ready, todo, timerVars>>

\* select reports some of the sockets in the sets, or nothing; it fails when one of them is closed.
Select ==
  /\ thread = "select"
  /\ \E r \in SUBSET kept["read"], w \in SUBSET kept["write"], x \in SUBSET kept["except"] :
       ready' = [read |-> r, write |-> w, except |-> x]
  /\ thread' = IF ready' = Nothing THEN "dispatch" ELSE "collect"
  /\ UNCHANGED <<shutdown, quit, channelVars, kept, todo, timerVars>>

CollectEvents ==
  /\ Goto("collect", "dispatch")
  /\ todo' = polled \cap UNION {ready[s] : s \in Sets}
  /\ ready' = Nothing
  /\ UNCHANGED <<shutdown, quit, channelVars, kept, timerVars>>

\* HandleEvent of one channel; its callbacks are the actions on channels above.
Dispatch(c) ==
  /\ thread = "dispatch" /\ c \in todo
  /\ todo' = todo \ {c}
  /\ UNCHANGED <<thread, shutdown, quit, channelVars, kept, ready, timerVars>>

\* The end of the loop's body.
LoopAgain ==
  /\ thread = "dispatch" /\ todo = {}
  /\ thread' = IF shutdown THEN "ended" ELSE "timers"
  /\ UNCHANGED <<shutdown, quit, channelVars, kept, ready, todo, timerVars>>

-----------------------------------------------------------------------------
(* CEventLoop *)

\* Mutant: the threads are joined before the reactors are told to stop.
QuitJoinsFirst ==
  /\ quit = "no"
  /\ quit' = "joining"
  /\ UNCHANGED <<thread, shutdown, channelVars, kept, ready, todo, timerVars>>

Quit ==
  /\ quit = "no"
  /\ quit' = "joining"
  /\ shutdown' = TRUE
  /\ UNCHANGED <<thread, channelVars, kept, ready, todo, timerVars>>

Joined ==
  /\ quit = "joining" /\ thread = "ended"
  /\ quit' = "done"
  /\ UNCHANGED <<thread, shutdown, channelVars, kept, ready, todo, timerVars>>

\* Timers are added and removed by the reactor's thread: by the callbacks of timers and of channels.
TimersUsed ==
  /\ thread \in {"timers", "dispatch"}
  /\ UseTimers
  /\ UNCHANGED loopVars

Thread ==
  \/ Start \/ RunTimers \/ NoTimers \/ LookAtFlags \/ BuildSets \/ Select \/ CollectEvents
  \/ \E c \in Channels : Dispatch(c)
  \/ LoopAgain

Next ==
  \/ Thread
  \/ \E c \in Channels : Connect(c) \/ HandleWrite(c) \/ UpdateChannel(c) \/ RemoveChannel(c)
  \/ Quit \/ Joined
  \/ TimersUsed
  \/ Tick /\ UNCHANGED loopVars

\* The program quits long after its threads have started: a Stop that comes before Start is undone.
Orderly == quit' # quit => thread # "created"

Spec == Init /\ [][Next /\ Orderly]_vars /\ WF_vars(Thread) /\ WF_vars(Joined)

-----------------------------------------------------------------------------
(* Properties *)

\* A copy that no flag marks holds just the channels that want to be in it, but for those whose change
\* is still to be told: no update by another thread is lost between the flags and the sets.
SetsFollowChannels ==
  \A s \in Sets \ stale : kept[s] \ telling = Wanted[s] \ telling

\* Quit returns: no timer and no event keeps the thread from looking at the flag.
QuitReturns == quit = "joining" ~> quit = "done"
=============================================================================
