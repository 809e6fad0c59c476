------------------------------- MODULE Publish -------------------------------
(***************************************************************************)
(* A client that publishes its screen: CRtmpPushManager with its two       *)
(* encoder threads, CRtmpPublisher and CRtmpConnection of the client, and  *)
(* the server's CRtmpConnection as far as the handshake, connect,          *)
(* createStream and publish go.  What the relay does with a publisher is   *)
(* RtmpRelay's.                                                            *)
(*                                                                         *)
(* Nothing waits for the answer to publish before media is pushed: what    *)
(* holds is said of clients whose first frame comes after it (Warm).       *)
(***************************************************************************)
EXTENDS RtmpStream

CONSTANTS
  StreamId,   \* what the server's nGetStreamId returns
  MaxFrames   \* bound: frames the threads push

ASSUME StreamAssumption == StreamId \in Nat \ {0}
ASSUME FramesAssumption == MaxFrames \in Nat

VARIABLES
  hs,        \* m_pHandshake's state
  open,      \* not m_bIsClosed; FALSE before there is a connection
  reading,   \* the reactor's thread of an end is in bOnRead
  state,     \* m_state
  streamId,  \* m_nStreamId
  published, \* m_bIsPublishing of the client
  manager,   \* how far bOpen and Close of CRtmpPushManager are
  exit, connected, pusher,  \* m_bExit, m_bIsConnect, m_pPusher
  hasKey,    \* m_bHasKeyFrame
  thread,    \* where the encoder threads are
  frames     \* how many frames they have pushed

connVars == <<hs, open, reading, state, streamId, published>>
pushVars == <<manager, exit, connected, pusher, hasKey, thread, frames>>
vars == <<streamVars, connVars, pushVars>>

Threads == {"video", "audio"}

TypeOK ==
  /\ \A e \in Ends : parser[e].state \in {"HEADER", "BODY"} /\ parser[e].csid \in Csids \cup {-1}
                     /\ parser[e].in \in {DefaultChunk, MaxChunk}
  /\ outSize \in [Ends -> {DefaultChunk, MaxChunk}]
  /\ hs \in [Ends -> {"C0C1", "S0S1S2", "C2", "COMPLETE"}]
  /\ open \in [Ends -> BOOLEAN] /\ reading \in [Ends -> BOOLEAN]
  /\ state \in [Ends -> {"HANDSHAKE", "CONNECT", "CREATE_STREAM", "PUBLISH"}]
  /\ streamId \in [Ends -> {0, StreamId}]
  /\ manager \in {"new", "initialized", "opened", "running", "exiting", "closing", "joining", "closed", "crashed"}
  /\ {exit, connected, hasKey, published} \subseteq BOOLEAN
  /\ pusher \in {"none", "open", "reset"}
  /\ thread \in [Threads -> {"off", "top", "frame", "push", "aac", "body", "done"}]
  /\ frames \in 0..MaxFrames

Init ==
  /\ StreamInit
  /\ hs = [e \in Ends |-> IF e = "client" THEN "S0S1S2" ELSE "C0C1"]
  /\ open = [e \in Ends |-> FALSE] /\ reading = open
  /\ state = [e \in Ends |-> "HANDSHAKE"]
  /\ streamId = [e \in Ends |-> 0]
  /\ published = FALSE
  /\ manager = "new" /\ exit = FALSE /\ connected = FALSE /\ pusher = "none"
  /\ hasKey = FALSE
  /\ thread = [t \in Threads |-> "off"]
  /\ frames = 0

Alive == manager # "crashed"

-----------------------------------------------------------------------------
(* Messages *)

\* Amf: a body is a sequence of typed values; of an object only its code is told, and one without entries is a null.
Str(s) == [t |-> "string", s |-> s, n |-> 0]
Num(n) == [t |-> "number", s |-> "", n |-> n]
Obj(code) == [t |-> "object", s |-> code, n |-> 0]
Null == [t |-> "null", s |-> "", n |-> 0]

\* CAmfDecoder after Reset and nDecode: of the values of a type the last one is kept, or what Reset has left.
Decoded(values, default) ==
  LET is == {i \in 1..Len(values) : values[i].t = default.t} IN IF is = {} THEN default ELSE values[CHOOSE i \in is : \A j \in is : j <= i]

Number(values) == Decoded(values, Num(0)).n
Code(values) == Decoded(values, Obj("none")).s
Method(m) == m.body[1].s

Invoke(e, body) == [type |-> "Invoke", stream |-> streamId[e], len |-> 2, body |-> body]
Control(type, value) == [type |-> type, stream |-> 0, len |-> 1, body |-> <<Num(value)>>]
Media(type, kind, len) == [type |-> type, stream |-> streamId["client"], len |-> len, body |-> <<Str(kind)>>]

\* Send of e's connection: nothing when it is closed, and lost when the peer's is.
Deliver(e, ms, items) ==
  IF open[e] /\ open[Peer(e)]
    THEN /\ sent' = [sent EXCEPT ![Peer(e)] = @ \o ms]
         /\ pipe' = [pipe EXCEPT ![Peer(e)] = @ \o items]
    ELSE UNCHANGED <<sent, pipe>>

Send(e, m) == Deliver(e, <<m>>, CreateChunk(m, outSize[e]))

SizeIs == Control("SetChunkSize", MaxChunk)

\* SetChunkSize, then the message m; what ms and items are goes ahead of both.
Resize(e, ms, items, m) ==
  /\ outSize' = [outSize EXCEPT ![e] = MaxChunk]
  /\ Deliver(e, ms \o <<SizeIs, m>>, items \o CreateChunk(SizeIs, MaxChunk) \o CreateChunk(m, MaxChunk))

-----------------------------------------------------------------------------
(* Handlers of the client's connection *)

Stays == UNCHANGED <<state, streamId, published, outSize, sent, pipe>>

\* bConnect, bCreateStream and bPublish: a request is numbered and sent.
Connect == <<Str("connect"), Num(1), Obj("none")>>
CreateStream == <<Str("createStream"), Num(2), Null>>
PublishStream == <<Str("publish"), Num(3), Null, Str("name")>>

HandleResult(body) ==
  CASE state["client"] = "CONNECT" /\ Code(body) = "NetConnection.Connect.Success" ->
         /\ state' = [state EXCEPT !["client"] = "CREATE_STREAM"]
         /\ Send("client", Invoke("client", CreateStream))
         /\ UNCHANGED <<streamId, published, outSize>>
    [] state["client"] = "CREATE_STREAM" /\ Number(body) > 0 ->
         /\ streamId' = [streamId EXCEPT !["client"] = Number(body)]
         /\ state' = [state EXCEPT !["client"] = "PUBLISH"]
         /\ Send("client", [Invoke("client", PublishStream) EXCEPT !.stream = Number(body)])
         /\ UNCHANGED <<published, outSize>>
    [] OTHER -> Stays

\* The handlers of the client return FALSE when the connection is to be closed.
HandleOnStatus(body, ok) ==
  /\ ok = (Code(body) = "none" \/ state["client"] # "PUBLISH" \/ Code(body) = "NetStream.Publish.Start")
  /\ published' = (published \/ (state["client"] = "PUBLISH" /\ Code(body) = "NetStream.Publish.Start"))
  /\ UNCHANGED <<state, streamId, outSize, sent, pipe>>

ClientHandles(m, ok) ==
  CASE m.type = "Invoke" /\ Method(m) = "_result" -> HandleResult(m.body) /\ ok = TRUE
    [] m.type = "Invoke" /\ Method(m) = "onStatus" -> HandleOnStatus(m.body, ok)
    [] OTHER -> Stays /\ ok = TRUE

-----------------------------------------------------------------------------
(* Handlers of the server's connection *)

\* bHandleConnection: SendAcknowlegement, SetPeerBandWidth, SetChunkSize and the answer.
HandleConnection(body) ==
  LET ack == Control("AckSize", 0)
      bandwidth == Control("Bandwidth", 0)
      size == outSize["server"]
  IN  /\ Resize("server", <<ack, bandwidth>>, CreateChunk(ack, size) \o CreateChunk(bandwidth, size),
                 Invoke("server", <<Str("_result"), Num(Number(body)), Obj("none"), Obj("NetConnection.Connect.Success")>>))
      /\ UNCHANGED <<state, streamId, published>>

\* Mutant: the answer does not give the stream's id.
HandleCreateStreamNoId(body) ==
  /\ Send("server", Invoke("server", <<Str("_result"), Num(Number(body)), Null>>))
  /\ streamId' = [streamId EXCEPT !["server"] = StreamId]
  /\ UNCHANGED <<state, published, outSize>>

HandleCreateStream(body) ==
  /\ Send("server", Invoke("server", <<Str("_result"), Num(Number(body)), Null, Num(StreamId)>>))
  /\ streamId' = [streamId EXCEPT !["server"] = StreamId]
  /\ UNCHANGED <<state, published, outSize>>

\* The path may be taken, by a publisher of another connection.
HandlePublish(ok) ==
  /\ ok \in (IF state["server"] = "PUBLISH" THEN {FALSE} ELSE BOOLEAN)
  /\ Send("server", Invoke("server", <<Str("onStatus"), Num(0), Null,
                        Obj(IF ok THEN "NetStream.Publish.Start"
                            ELSE IF state["server"] = "PUBLISH" THEN "NetStream.Publish.BadConnection"
                            ELSE "NetStream.Publish.BadName")>>))
  /\ state' = IF ok THEN [state EXCEPT !["server"] = "PUBLISH"] ELSE state
  /\ UNCHANGED <<streamId, published, outSize>>

\* bHandleInvoke: without a stream connect and createStream, with this connection's the others.
HandleInvoke(m, ok) ==
  CASE m.stream = 0 /\ Method(m) = "connect" -> HandleConnection(m.body) /\ ok = TRUE
    [] m.stream = 0 /\ Method(m) = "createStream" -> HandleCreateStream(m.body) /\ ok = TRUE
    [] m.stream # 0 /\ m.stream = streamId["server"] /\ Method(m) = "publish" -> HandlePublish(ok)
    [] OTHER -> Stays /\ ok = TRUE

\* bHandleVideo and bHandleAudio: there must be a session.
HandleMedia(ok) == ok = (state["server"] = "PUBLISH") /\ Stays

ServerHandles(m, ok) ==
  CASE m.type = "Invoke" -> HandleInvoke(m, ok)
    [] m.type \in {"Video", "Audio"} -> HandleMedia(ok)
    [] OTHER -> Stays /\ ok = TRUE

-----------------------------------------------------------------------------
(* Reading *)

\* Nothing is sent or handled after it: OnClose's bDeleteStream sends over a closed connection.
Close(e) == open' = [open EXCEPT ![e] = FALSE]

HandleRead(e) ==
  /\ Alive /\ open[e] /\ ~reading[e]
  /\ ReadFromSocket(e)
  /\ reading' = [reading EXCEPT ![e] = TRUE]
  /\ UNCHANGED <<parser, outSize, sent, got, hs, open, state, streamId, published, pushVars>>

\* CRtmpHandshake::nParse: a packet that is there is answered, and something else is an error (Warm
\* clients send nothing else; the code takes any bytes for C2).
Handshake(e) ==
  /\ Alive /\ open[e] /\ reading[e] /\ hs[e] # "COMPLETE"
  /\ IF buf[e][1] # [kind |-> hs[e]]
       THEN Close(e) /\ UNCHANGED <<streamVars, hs, reading, state, streamId, published>>
       ELSE /\ buf' = [buf EXCEPT ![e] = Tail(@)]
            /\ hs' = [hs EXCEPT ![e] = IF @ = "C0C1" THEN "C2" ELSE "COMPLETE"]
            /\ CASE hs[e] = "C0C1" ->
                      /\ Deliver(e, <<>>, <<[kind |-> "S0S1S2"]>>)
                      /\ UNCHANGED <<outSize, state>>
                 [] hs[e] = "S0S1S2" ->
                      /\ Resize(e, <<>>, <<[kind |-> "C2"]>>, Invoke(e, Connect))
                      /\ state' = [state EXCEPT ![e] = "CONNECT"]
                 [] hs[e] = "C2" -> UNCHANGED <<outSize, state, sent, pipe>>
            /\ reading' = [reading EXCEPT ![e] = hs[e] # "C0C1" /\ Len(buf[e]) > 1]
            /\ UNCHANGED <<parser, got, open, streamId, published>>
  /\ UNCHANGED pushVars

\* bHandleMessage, for a message of an end.
HandleMessage(e, m, ok) ==
  CASE m = Lost -> ok = FALSE /\ Stays
    [] m.type = "SetChunkSize" -> ok = TRUE /\ Stays
    [] m # Lost /\ m.type # "SetChunkSize" -> IF e = "client" THEN ClientHandles(m, ok) ELSE ServerHandles(m, ok)

\* Mutant: the case of another control message falls through to it.
InSizeOfAny(r) ==
  IF r.msgs # <<>> /\ r.msgs[1].type \in {"SetChunkSize", "AckSize"} THEN [r.parser EXCEPT !.in = Number(r.msgs[1].body)] ELSE r.parser

\* SetInChunkSize
InSize(r) ==
  IF r.msgs # <<>> /\ r.msgs[1].type = "SetChunkSize" THEN [r.parser EXCEPT !.in = Number(r.msgs[1].body)] ELSE r.parser

\* One turn of bHandleChunk; a message that is whole is handled, and the turns end when nothing is used.
HandleChunk(e) ==
  /\ Alive /\ open[e] /\ reading[e] /\ hs[e] = "COMPLETE"
  /\ \E r \in {Parse(parser[e], buf[e])} :
       /\ buf' = [buf EXCEPT ![e] = SubSeq(@, r.used + 1, Len(@))]
       /\ reading' = [reading EXCEPT ![e] = r.used > 0 /\ r.used < Len(buf[e])]
       /\ got' = [got EXCEPT ![e] = @ \o r.msgs]
       /\ parser' = [parser EXCEPT ![e] = InSize(r)]
       /\ IF r.msgs = <<>> THEN UNCHANGED open /\ Stays
          ELSE \E m \in {r.msgs[1]}, ok \in BOOLEAN :
                 /\ HandleMessage(e, m, ok)
                 /\ IF ok THEN UNCHANGED open ELSE Close(e)
  /\ UNCHANGED <<hs, pushVars>>

\* A peer that has closed is noticed by an error, if ever: the end of the stream is none.
HangUp(e) ==
  /\ Alive /\ open[e] /\ ~open[Peer(e)] /\ ~reading[e]
  /\ Close(e)
  /\ UNCHANGED <<streamVars, hs, reading, state, streamId, published, pushVars>>

-----------------------------------------------------------------------------
(* CRtmpPushManager *)

\* bInit: capture and encoders are opened, and the publisher is there even when one of them fails.
PrepareCapture ==
  /\ manager = "new"
  /\ manager' \in {"initialized", "closed"}
  /\ pusher' = "open"
  /\ UNCHANGED <<streamVars, connVars, exit, connected, hasKey, thread, frames>>

BuildC0C1 == [kind |-> "C0C1"]

\* nOpenUrl sends C0 and C1 when it has connected.
OpenUrl ==
  /\ manager = "initialized"
  /\ \/ /\ manager' = "opened"
        /\ open' = [e \in Ends |-> TRUE]
        /\ pipe' = [pipe EXCEPT !["server"] = <<BuildC0C1>>]
     \/ manager' = "closed" /\ UNCHANGED <<open, pipe>>
  /\ UNCHANGED <<buf, parser, outSize, sent, got, hs, reading, state, streamId, published, exit, connected, pusher, hasKey, thread, frames>>

StartThreads ==
  /\ manager = "opened"
  /\ manager' = "running"
  /\ connected' = TRUE
  /\ thread' = [t \in Threads |-> "top"]
  /\ UNCHANGED <<streamVars, connVars, exit, pusher, hasKey, frames>>

\* Mutant: the threads are waited for without being told.
CloseSilently ==
  /\ manager = "running"
  /\ manager' = "exiting"
  /\ UNCHANGED <<streamVars, connVars, exit, connected, pusher, hasKey, thread, frames>>

CloseStart ==
  /\ manager = "running"
  /\ manager' = "exiting"
  /\ exit' = TRUE /\ connected' = FALSE
  /\ UNCHANGED <<streamVars, connVars, pusher, hasKey, thread, frames>>

\* The publisher's Close disconnects, and the pointer is dropped.
ClosePusher ==
  /\ manager = "exiting"
  /\ manager' = "joining"
  /\ IF open["client"] THEN Close("client") /\ pusher' = "reset" /\ hasKey' = FALSE
     ELSE UNCHANGED <<open, pusher, hasKey>>
  /\ UNCHANGED <<streamVars, hs, reading, state, streamId, published, exit, connected, thread, frames>>

\* StopEncoder, StopCapture.
Stop ==
  /\ manager = "joining"
  /\ \A t \in Threads : thread[t] = "done"
  /\ manager' = "closed"
  /\ UNCHANGED <<streamVars, connVars, exit, connected, pusher, hasKey, thread, frames>>

-----------------------------------------------------------------------------
(* EncodeVideo and EncodeAudio *)

Goto(t, at) == thread' = [thread EXCEPT ![t] = at]

\* The loop's condition.
LoopTop(t) ==
  /\ Alive /\ thread[t] = "top"
  /\ Goto(t, IF exit \/ ~connected THEN "done" ELSE "frame")
  /\ UNCHANGED <<streamVars, connVars, manager, exit, connected, pusher, hasKey, frames>>

\* Nothing is captured, or it is not encoded, or there is nobody to push to.
NoFrame(t) ==
  /\ Alive /\ thread[t] = "frame"
  /\ Goto(t, "top")
  /\ UNCHANGED <<streamVars, connVars, manager, exit, connected, pusher, hasKey, frames>>

\* PushVideo, PushAudio: the frame is encoded, and there is a publisher that is connected.
Push(t) ==
  /\ Alive /\ thread[t] = "frame" /\ frames < MaxFrames
  /\ pusher = "open" /\ open["client"]
  /\ Goto(t, "push")
  /\ frames' = frames + 1
  /\ UNCHANGED <<streamVars, connVars, manager, exit, connected, pusher, hasKey>>

\* The publisher has gone since: the thread uses an empty pointer, or an object that is still there and not connected.
Gone(t) ==
  /\ Alive /\ thread[t] \in {"push", "aac", "body"} /\ pusher # "open"
  /\ \/ manager' = "crashed" /\ UNCHANGED thread
     \/ Goto(t, "top") /\ UNCHANGED manager
  /\ UNCHANGED <<streamVars, connVars, exit, connected, pusher, hasKey, frames>>

\* nSetMediaInfo: what a player needs before the first frames.
AvcSequenceHeader == Media("Video", "avc", 1)
AacSequenceHeader == Media("Audio", "aac", 1)

\* A packet that finds the write buffer full is dropped whole, and nobody is told.  The buffer holds 500,
\* which the few messages of the dialogue never fill; a frame may find it full whenever others are under way.
Dropped == pipe["server"] # <<>> /\ UNCHANGED <<sent, pipe>>

SendMedia(m) == (Send("client", m) \/ Dropped) /\ UNCHANGED <<buf, parser, outSize, got, connVars>>

\* nPushVideoFrame: before the first key frame nothing is sent, and with it go the headers.
PushVideoFrame ==
  /\ Alive /\ thread["video"] = "push" /\ pusher = "open"
  /\ \E key \in BOOLEAN :
       IF hasKey THEN SendMedia(Media("Video", IF key THEN "key" ELSE "frame", 3)) /\ Goto("video", "top") /\ UNCHANGED hasKey
       ELSE IF key THEN SendMedia(AvcSequenceHeader) /\ Goto("video", "aac") /\ hasKey' = TRUE
       ELSE Goto("video", "top") /\ UNCHANGED <<hasKey, streamVars, connVars>>
  /\ UNCHANGED <<manager, exit, connected, pusher, frames>>

AacHeader ==
  /\ Alive /\ thread["video"] = "aac" /\ pusher = "open"
  /\ SendMedia(AacSequenceHeader)
  /\ Goto("video", "body")
  /\ UNCHANGED <<manager, exit, connected, pusher, hasKey, frames>>

KeyFrame ==
  /\ Alive /\ thread["video"] = "body" /\ pusher = "open"
  /\ SendMedia(Media("Video", "key", 3))
  /\ Goto("video", "top")
  /\ UNCHANGED <<manager, exit, connected, pusher, hasKey, frames>>

\* nPushAudioFrame: nothing before the first key frame.
PushAudioFrame ==
  /\ Alive /\ thread["audio"] = "push" /\ pusher = "open"
  /\ IF hasKey THEN SendMedia(Media("Audio", "frame", 1)) ELSE UNCHANGED <<streamVars, connVars>>
  /\ Goto("audio", "top")
  /\ UNCHANGED <<manager, exit, connected, pusher, hasKey, frames>>

-----------------------------------------------------------------------------
\* The dialogue is over before the first frame is encoded.
Warm == published

Thread(t) == LoopTop(t) \/ NoFrame(t) \/ (Warm /\ Push(t)) \/ Gone(t)
VideoThread == Thread("video") \/ PushVideoFrame \/ AacHeader \/ KeyFrame
AudioThread == Thread("audio") \/ PushAudioFrame
Reactor(e) == HandleRead(e) \/ Handshake(e) \/ HandleChunk(e)
Closing == ClosePusher \/ Stop

Next ==
  \/ \E e \in Ends : Reactor(e) \/ HangUp(e)
  \/ PrepareCapture \/ OpenUrl \/ StartThreads \/ CloseStart \/ Closing
  \/ VideoThread \/ AudioThread

\* Every thread goes on; nobody must close.
Spec ==
  /\ Init /\ [][Next]_vars
  /\ \A e \in Ends : WF_vars(Reactor(e))
  /\ WF_vars(VideoThread) /\ WF_vars(AudioThread) /\ WF_vars(Closing)

-----------------------------------------------------------------------------
(* Properties *)

\* What an end handles is what was sent to it, whole and in order, wherever reads cut the stream and
\* whenever the chunk size changes.
InOrderAndWhole == \A e \in Ends : IsPrefix(got[e], sent[e])

\* A client that has connected is told that it publishes, or its connection is closed.
PublishesOrCloses == open["client"] ~> published \/ ~open["client"]

\* Close returns, unless a thread has used the publisher that was dropped under it.
CloseReturns == manager = "exiting" ~> manager \in {"closed", "crashed"}
=============================================================================
