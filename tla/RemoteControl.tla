--------------------------- MODULE RemoteControl ---------------------------
(***************************************************************************)
(* The signalling server together with the clients of this repository:     *)
(* the client's CSigConnection, which joins when it is made, asks for the  *)
(* stream of a code (CONTROLLING) or pushes one when it is told to         *)
(* (CONTROLLED), and the two directions of its TCP connection.             *)
(*                                                                         *)
(* The callbacks that push, play and stop are not written in the client    *)
(* yet: they are taken to do what they are named for, and the one that     *)
(* starts a push may fail.  Nothing in the client sends DELETESTREAM or    *)
(* input, so that a session ends when a client goes.                       *)
(***************************************************************************)
EXTENDS Signaling

CONSTANTS
  Controlled,   \* clients made with CONTROLLED; the others are CONTROLLING
  CodeOf,       \* m_strCode: the own code of a controlled client, the wanted one of the others
  JoinId        \* the id every controlling client joins with

ASSUME ClientsAssumption == Controlled \subseteq Conns /\ CodeOf \in [Conns -> Codes] /\ JoinId \in Codes

VARIABLES
  cstate,     \* m_state of the client
  becoming,   \* what a handler that has sent its message is about to set m_state to, or "none"
  up, down,   \* messages under way to the server and to the client
  streaming,  \* the client pushes or plays
  told        \* what a controlling client was told of its request (a history variable)

clientVars == <<cstate, becoming, up, down, streaming, told>>
allVars == <<vars, clientVars>>

RemoteInit ==
  /\ Init
  /\ cstate = [c \in Conns |-> "NONE"] /\ becoming = [c \in Conns |-> "none"]
  /\ up = [c \in Conns |-> <<>>] /\ down = up
  /\ streaming = [c \in Conns |-> FALSE]
  /\ told = [c \in Conns |-> "none"]

\* Join_body, ObtainStream_body and CreateStreamReply_body, which carries an address or an error.
JoinBody(k) == [cmd |-> "JOIN", id |-> k]

ObtainStreamBody(k) == [cmd |-> "OBTAINSTREAM", id |-> k]

CreateStreamReply(ok) == [cmd |-> "CREATESTREAM", hasAddr |-> ok]

-----------------------------------------------------------------------------
(* The server's side *)

\* What the server's step sends is under way.
Deliver == down' = [c \in Conns |-> down[c] \o SetToSeq({m \in outbox' : m.to = c})]

\* nJoin, from the constructor.
Join(c) ==
  /\ Accept(c)
  /\ up' = [up EXCEPT ![c] = <<JoinBody(IF c \in Controlled THEN CodeOf[c] ELSE JoinId)>>]
  /\ UNCHANGED <<cstate, becoming, down, streaming, told>>

ServerHandles(c) ==
  /\ up[c] # <<>>
  /\ LET m == Head(up[c])
     IN  \/ m.cmd = "JOIN" /\ JoinCheck(c, m.id)
         \/ m.cmd = "OBTAINSTREAM" /\ ObtainCheck(c, m.id)
         \/ m.cmd = "CREATESTREAM" /\ CreateStream(c, m.hasAddr)
  /\ up' = [up EXCEPT ![c] = Tail(@)]
  /\ Deliver
  /\ UNCHANGED <<cstate, becoming, streaming, told>>

ServerGoesOn(r) ==
  /\ JoinAdd(r) \/ ObtainLink(r) \/ CreateStep(r) \/ ClearStep(r) \/ ClearEnd(r)
  /\ Deliver
  /\ UNCHANGED <<cstate, becoming, up, streaming, told>>

\* A client ends, and its connection with it; amid a handler is no different for the others from after it.
Leave(c) ==
  /\ becoming[c] = "none"
  /\ Disconnect(c)
  /\ up' = [up EXCEPT ![c] = <<>>] /\ down' = [down EXCEPT ![c] = <<>>]
  /\ streaming' = [streaming EXCEPT ![c] = FALSE]
  /\ UNCHANGED <<cstate, becoming, told>>

-----------------------------------------------------------------------------
(* The client's handlers *)

Ignore == UNCHANGED <<cstate, becoming, up, streaming, told>>

\* DoJoin: a controlling client asks for its stream at once (nObtainStream), and then calls itself PULLER.
DoJoin(c, ok) ==
  IF ~ok THEN Ignore
  ELSE /\ cstate' = [cstate EXCEPT ![c] = "IDLE"]
       /\ IF c \in Controlled THEN UNCHANGED <<up, becoming>>
          ELSE /\ up' = [up EXCEPT ![c] = Append(@, ObtainStreamBody(CodeOf[c]))]
               /\ becoming' = [becoming EXCEPT ![c] = "PULLER"]
       /\ UNCHANGED <<streaming, told>>

\* The handler has sent its message and sets m_state.
SetState(c) ==
  /\ becoming[c] # "none"
  /\ cstate' = [cstate EXCEPT ![c] = becoming[c]]
  /\ becoming' = [becoming EXCEPT ![c] = "none"]
  /\ UNCHANGED <<vars, up, down, streaming, told>>

DoPlayStream(c, ok) ==
  IF cstate[c] = "PULLER" /\ c \notin Controlled
    THEN /\ told' = [told EXCEPT ![c] = IF ok THEN "play" ELSE "fail"]
         /\ streaming' = [streaming EXCEPT ![c] = @ \/ ok]
         /\ UNCHANGED <<cstate, becoming, up>>
    ELSE Ignore

\* Mutants: a push that failed is answered with an address, or not at all.
DoCreateStreamAnyway(c) ==
  IF cstate[c] = "IDLE" /\ c \in Controlled
    THEN \E started \in BOOLEAN :
           /\ up' = [up EXCEPT ![c] = Append(@, CreateStreamReply(TRUE))]
           /\ becoming' = [becoming EXCEPT ![c] = IF started THEN "PUSHER" ELSE @]
           /\ streaming' = [streaming EXCEPT ![c] = started]
           /\ UNCHANGED <<cstate, told>>
    ELSE Ignore
DoCreateStreamSilent(c) ==
  IF cstate[c] = "IDLE" /\ c \in Controlled
    THEN \E started \in BOOLEAN :
           /\ up' = IF started THEN [up EXCEPT ![c] = Append(@, CreateStreamReply(TRUE))] ELSE up
           /\ becoming' = [becoming EXCEPT ![c] = IF started THEN "PUSHER" ELSE @]
           /\ streaming' = [streaming EXCEPT ![c] = started]
           /\ UNCHANGED <<cstate, told>>
    ELSE Ignore

\* DoCreateStream: what the callback says decides whether the answer has an address; PUSHER comes after it.
DoCreateStream(c) ==
  IF cstate[c] = "IDLE" /\ c \in Controlled
    THEN \E started \in BOOLEAN :
           /\ up' = [up EXCEPT ![c] = Append(@, CreateStreamReply(started))]
           /\ becoming' = [becoming EXCEPT ![c] = IF started THEN "PUSHER" ELSE @]
           /\ streaming' = [streaming EXCEPT ![c] = started]
           /\ UNCHANGED <<cstate, told>>
    ELSE Ignore

\* DoDeleteStream: the stream stops with the last partner, and m_state stays.
DoDeleteStream(c, count) ==
  /\ streaming' = [streaming EXCEPT ![c] = @ /\ count # 0]
  /\ UNCHANGED <<cstate, becoming, up, told>>

\* HandleMessage; the reply to OBTAINSTREAM has no case.
ClientHandles(c) ==
  /\ life[c] = "open" /\ becoming[c] = "none" /\ down[c] # <<>>
  /\ LET m == Head(down[c])
     IN  \/ m.cmd = "JOIN" /\ DoJoin(c, m.ok)
         \/ m.cmd = "PLAYSTREAM" /\ DoPlayStream(c, m.ok)
         \/ m.cmd = "CREATESTREAM" /\ DoCreateStream(c)
         \/ m.cmd = "DELETESTREAM" /\ DoDeleteStream(c, m.count)
         \/ m.cmd = "OBTAINSTREAM" /\ Ignore
  /\ down' = [down EXCEPT ![c] = Tail(@)]
  /\ UNCHANGED vars

-----------------------------------------------------------------------------
RemoteNext ==
  \/ \E c \in Conns : Join(c) \/ ServerHandles(c) \/ Leave(c) \/ ClientHandles(c) \/ SetState(c)
  \/ \E r \in Reactors : ServerGoesOn(r)

\* Reactors and clients go on; nobody must come or go.
RemoteSpec ==
  /\ RemoteInit /\ [][RemoteNext]_allVars
  /\ \A c \in Conns : WF_allVars(ServerHandles(c)) /\ WF_allVars(ClientHandles(c) \/ SetState(c))
  /\ \A r \in Reactors : WF_allVars(ServerGoesOn(r))

-----------------------------------------------------------------------------
(* Properties *)

\* What m_state is when the handler that a client is in has ended.
Turned == [c \in Conns |-> IF becoming[c] = "none" THEN cstate[c] ELSE becoming[c]]

\* The server takes a client for a pusher or a puller only when the client takes itself for one, or will at the
\* end of the handler whose message the server has had: it hands out an address only of a push that has been
\* started.
RolesAgree == \A c \in Conns : role[c] \in {"PUSHER", "PULLER"} => Turned[c] = role[c]

\* A client that may still push: it has not yet, and a later session finds it so no more.
Fresh(k) == \E b \in Controlled : CodeOf[b] = k /\ Turned[b] = "IDLE" /\ life[b] = "open" /\ QueryConn(k) = b

\* A client whose request for a fresh target was accepted is told to play or that it failed, unless
\* one of the two goes.
WatcherIsTold ==
  \A c \in Conns \ Controlled :
    role[c] = "PULLER" /\ Fresh(CodeOf[c]) ~> told[c] # "none" \/ role[c] # "PULLER"

\* No answer of the client c to CREATESTREAM says that its push failed.
PushesStart(c) == \A m \in Range(up[c]) : m.cmd = "CREATESTREAM" => m.hasAddr

\* A client stops pushing or playing when its last partner has gone, wherever the news overtakes
\* the answers of the session.  Only of a client whose pushes all start: the answer CREATESTREAM
\* names no session, and a late failure drops the partner of the next one without a DELETESTREAM.
StopsWhenAlone ==
  \A c \in Conns :
    []PushesStart(c) => (streaming[c] /\ objs[c] = <<>> ~> ~streaming[c] \/ objs[c] # <<>>)
=============================================================================
