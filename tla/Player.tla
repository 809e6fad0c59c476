------------------------------- MODULE Player -------------------------------
(***************************************************************************)
(* The client's player: CAVPlayer, which opens and closes and has a thread *)
(* that plays each track, CAVDEMuxer with its reader thread, the decoder   *)
(* threads (CH264Decoder, CAACDecoder) and the queues between them         *)
(* (CAVQueue).                                                             *)
(*                                                                         *)
(* A packet is the number it was read with, and so is its frame.  The      *)
(* queues lock for each call, so that a push or a pop is one step; the     *)
(* looks at their size are not, and are steps of their own.  FFmpeg may    *)
(* fail, end, keep a frame back or drop it; a read of the network returns  *)
(* only when the server sends or the interrupt callback asks it to.        *)
(* A player is opened once.                                                *)
(***************************************************************************)
EXTENDS Naturals, Sequences, SequencesExt

CONSTANT MaxPackets   \* packets that the server sends (a bound for TLC)

Tracks == {"video", "audio"}

VARIABLES
  owner,    \* where the thread that opens and closes the player is
  stop,     \* m_bStop
  quit,     \* m_bQuit of the demuxer
  ctx,      \* m_pFormateCtx: none, alloc, open or freed
  reader,   \* the reader thread: where it is, and the track of its packet
  streams,  \* the tracks that the stream has
  decoder,  \* each decoder: made, top, held, frames, ended or null
  dquit,    \* m_bQuit of each decoder
  packets,  \* the packet queue of each decoder
  inside,   \* the packet that a decoder has popped, and those its codec keeps
  frames,   \* qVideoQueue, qAudioQueue
  player,   \* the thread that plays each track: none, top, pop, held or done
  hand,     \* the frame that it has popped
  sent, played, dropped   \* history: packets read, frames played, packets lost on the way

playerVars ==
  <<owner, stop, quit, ctx, reader, streams, decoder, dquit, packets, inside, frames, player, hand,
    sent, played, dropped>>

pipeVars == <<packets, inside, frames, hand, sent, played, dropped>>

Empty == [t \in Tracks |-> <<>>]

At(at) == [at |-> at, track |-> "none"]

PlayerInit ==
  /\ owner = "new"
  /\ stop = FALSE /\ quit = FALSE
  /\ ctx = "alloc"
  /\ reader = At("none")
  /\ streams = {}
  /\ decoder = [t \in Tracks |-> "made"]
  /\ dquit = [t \in Tracks |-> FALSE]
  /\ packets = Empty /\ inside = Empty /\ frames = Empty /\ hand = Empty /\ played = Empty
  /\ player = [t \in Tracks |-> "none"]
  /\ sent = [t \in Tracks |-> 0]
  /\ dropped = [t \in Tracks |-> {}]

-----------------------------------------------------------------------------
(* CAVQueue *)

Push(q, x) == Append(q, x)

\* Mutant: the node is taken from the tail.
PopTail(q) == <<Last(q), Front(q)>>

\* What bPop hands out, and what it leaves.
Pop(q) == <<Head(q), Tail(q)>>

-----------------------------------------------------------------------------
(* The reader thread *)

\* Mutant: the interrupt callback never asks a blocked call to return.
NeverInterrupted == FALSE

Interrupted == quit

\* avformat_open_input, which frees the context that it cannot open.
OpenInput(ok) ==
  /\ reader.at = "opening"
  /\ ctx' = IF ok THEN "open" ELSE "none"
  /\ reader' = At(IF ok THEN "info" ELSE "done")
  /\ UNCHANGED <<owner, stop, quit, streams, decoder, dquit, player, pipeVars>>

\* avformat_find_stream_info.
FindStreamInfo(ok) ==
  /\ reader.at = "info"
  /\ reader' = At(IF ok THEN "decoders" ELSE "done")
  /\ IF ok THEN \E s \in SUBSET Tracks : streams' = s ELSE UNCHANGED streams
  /\ UNCHANGED <<owner, stop, quit, ctx, decoder, dquit, player, pipeVars>>

\* nOpen, which starts the thread, and what is left of a decoder for which it fails.
Opened(works) == IF works THEN "top" ELSE "null"

\* nOpen of the decoders of the tracks there are, the video's first; one that fails is reset and
\* ends the reader.
OpenDecoders ==
  /\ reader.at = "decoders"
  /\ \E works \in [streams -> BOOLEAN] :
       LET tried == {t \in streams : t = "video" \/ "video" \notin streams \/ works["video"]}
       IN  /\ decoder' = [t \in Tracks |-> IF t \in tried THEN Opened(works[t]) ELSE decoder[t]]
           /\ reader' = At(IF \A t \in streams : works[t] THEN "top" ELSE "done")
  /\ UNCHANGED <<owner, stop, quit, ctx, streams, dquit, player, pipeVars>>

\* The loop of FetchStream looks at m_bQuit and the context.
ReadLoop ==
  /\ reader.at = "top"
  /\ reader' = At(IF quit \/ ctx = "none" THEN "done" ELSE "reading")
  /\ UNCHANGED <<owner, stop, quit, ctx, streams, decoder, dquit, player, pipeVars>>

\* av_read_frame finds a packet of a track (those of other streams are freed), or fails.
ReadFrame(t) ==
  /\ reader.at = "reading" /\ t \in streams
  /\ sent["video"] + sent["audio"] < MaxPackets
  /\ sent' = [sent EXCEPT ![t] = @ + 1]
  /\ reader' = [at |-> "put", track |-> t]
  /\ UNCHANGED <<owner, stop, quit, ctx, streams, decoder, dquit, player, packets, inside, frames, hand, played, dropped>>

ReadFails ==
  /\ reader.at = "reading"
  /\ reader' = At("done")
  /\ UNCHANGED <<owner, stop, quit, ctx, streams, decoder, dquit, player, pipeVars>>

\* PutPacket, into the queue of the decoder whether its thread still runs or not.
PutPacket ==
  /\ reader.at = "put"
  /\ packets' = [packets EXCEPT ![reader.track] = Push(@, sent[reader.track])]
  /\ reader' = At("top")
  /\ UNCHANGED <<owner, stop, quit, ctx, streams, decoder, dquit, player, inside, frames, hand, sent, played, dropped>>

ReaderWorks == OpenDecoders \/ ReadLoop \/ PutPacket

ReaderWaits ==
  ReadFails \/ (\E ok \in BOOLEAN : OpenInput(ok) \/ FindStreamInfo(ok)) \/ (\E t \in Tracks : ReadFrame(t))

-----------------------------------------------------------------------------
(* A decoder thread: run of CH264Decoder and CAACDecoder *)

DecoderLoop(t) ==
  /\ decoder[t] = "top"
  /\ \/ dquit[t] /\ decoder' = [decoder EXCEPT ![t] = "ended"]
     \/ ~dquit[t] /\ packets[t] # <<>> /\ decoder' = [decoder EXCEPT ![t] = "held"]
  /\ UNCHANGED <<owner, stop, quit, ctx, reader, streams, dquit, player, pipeVars>>

\* bPop and avcodec_send_packet: a packet that the codec refuses ends the thread.
SendPacket(t) ==
  /\ decoder[t] = "held"
  /\ packets' = [packets EXCEPT ![t] = Pop(@)[2]]
  /\ \/ /\ inside' = [inside EXCEPT ![t] = Append(@, Pop(packets[t])[1])]
        /\ decoder' = [decoder EXCEPT ![t] = "frames"]
        /\ UNCHANGED dropped
     \/ /\ dropped' = [dropped EXCEPT ![t] = @ \cup {Pop(packets[t])[1]}]
        /\ decoder' = [decoder EXCEPT ![t] = "ended"]
        /\ UNCHANGED inside
  /\ UNCHANGED <<owner, stop, quit, ctx, reader, streams, dquit, player, frames, hand, sent, played>>

\* nConvert makes a new frame of the one received, which is pushed, or fails.
Convert(t) ==
  \/ frames' = [frames EXCEPT ![t] = Push(@, Head(inside[t]))] /\ UNCHANGED dropped
  \/ dropped' = [dropped EXCEPT ![t] = @ \cup {Head(inside[t])}] /\ UNCHANGED frames

\* avcodec_receive_frame: no frame yet, or the next one.
ReceiveFrame(t) ==
  /\ decoder[t] = "frames"
  /\ \/ decoder' = [decoder EXCEPT ![t] = "top"] /\ UNCHANGED <<inside, frames, dropped>>
     \/ /\ inside[t] # <<>>
        /\ inside' = [inside EXCEPT ![t] = Tail(@)]
        /\ Convert(t)
        /\ UNCHANGED decoder
  /\ UNCHANGED <<owner, stop, quit, ctx, reader, streams, dquit, player, packets, hand, sent, played>>

DecoderWorks(t) == DecoderLoop(t) \/ SendPacket(t) \/ ReceiveFrame(t)

-----------------------------------------------------------------------------
(* The threads that play: VideoPlay and AudioPlay *)

\* The loop looks at m_bStop, and at the queue without its lock.  (The audio device that is full
\* makes it look again.)
PlayLoop(t) ==
  /\ player[t] = "top"
  /\ \/ stop /\ player' = [player EXCEPT ![t] = "done"]
     \/ ~stop /\ frames[t] # <<>> /\ player' = [player EXCEPT ![t] = "pop"]
  /\ UNCHANGED <<owner, stop, quit, ctx, reader, streams, decoder, dquit, pipeVars>>

PlayPop(t) ==
  /\ player[t] = "pop"
  /\ hand' = [hand EXCEPT ![t] = <<Pop(frames[t])[1]>>]
  /\ frames' = [frames EXCEPT ![t] = Pop(@)[2]]
  /\ player' = [player EXCEPT ![t] = "held"]
  /\ UNCHANGED <<owner, stop, quit, ctx, reader, streams, decoder, dquit, packets, inside, sent, played, dropped>>

\* sig_repaint, or Write.
PlayFrame(t) ==
  /\ player[t] = "held"
  /\ played' = [played EXCEPT ![t] = @ \o hand[t]]
  /\ hand' = [hand EXCEPT ![t] = <<>>]
  /\ player' = [player EXCEPT ![t] = "top"]
  /\ UNCHANGED <<owner, stop, quit, ctx, reader, streams, decoder, dquit, packets, inside, frames, sent, dropped>>

PlayerWorks(t) == PlayLoop(t) \/ PlayPop(t) \/ PlayFrame(t)

-----------------------------------------------------------------------------
(* Opening and closing *)

\* Open: the reader of the demuxer, then the two players.
OpenPlayer ==
  /\ owner = "new"
  /\ owner' = "open"
  /\ reader' = At("opening")
  /\ player' = [t \in Tracks |-> "top"]
  /\ UNCHANGED <<stop, quit, ctx, streams, decoder, dquit, pipeVars>>

CloseStarts ==
  /\ owner = "open"
  /\ owner' = "players" /\ stop' = TRUE
  /\ UNCHANGED <<quit, ctx, reader, streams, decoder, dquit, player, pipeVars>>

\* Both players are joined; resetting the demuxer sets its m_bQuit.
JoinPlayers ==
  /\ owner = "players"
  /\ \A t \in Tracks : player[t] = "done"
  /\ owner' = "reader" /\ quit' = TRUE
  /\ UNCHANGED <<stop, ctx, reader, streams, decoder, dquit, player, pipeVars>>

\* Mutant: the context is closed without waiting for the reader.
CloseInputAtOnce ==
  /\ owner = "reader"
  /\ ctx' = IF ctx = "none" THEN "none" ELSE "freed"
  /\ owner' = "decoders"
  /\ dquit' = [t \in Tracks |-> TRUE]
  /\ UNCHANGED <<stop, quit, reader, streams, decoder, player, pipeVars>>

\* The reader is joined and the context closed; the destructors of the decoders follow.
CloseInput ==
  /\ owner = "reader" /\ reader.at = "done"
  /\ ctx' = IF ctx = "none" THEN "none" ELSE "freed"
  /\ owner' = "decoders"
  /\ dquit' = [t \in Tracks |-> t = "video"]
  /\ UNCHANGED <<stop, quit, reader, streams, decoder, player, pipeVars>>

\* Close of a decoder that runs waits for its thread: the video's, then the audio's.
JoinDecoder(t) ==
  /\ owner = "decoders" /\ dquit[t] /\ decoder[t] \in {"made", "ended"}
  /\ decoder' = [decoder EXCEPT ![t] = "null"]
  /\ UNCHANGED <<stop, quit, ctx, reader, streams, player, pipeVars, dquit, owner>>

DecodersGone ==
  /\ owner = "decoders"
  /\ decoder["video"] = "null"
  /\ IF dquit["audio"] THEN decoder["audio"] = "null" /\ owner' = "closed" /\ UNCHANGED dquit
                       ELSE dquit' = [dquit EXCEPT !["audio"] = TRUE] /\ UNCHANGED owner
  /\ UNCHANGED <<stop, quit, ctx, reader, streams, decoder, player, pipeVars>>

OwnerWorks == JoinPlayers \/ CloseInput \/ DecodersGone \/ (\E t \in Tracks : JoinDecoder(t))

PlayerNext ==
  \/ OpenPlayer \/ CloseStarts \/ OwnerWorks
  \/ ReaderWorks \/ ReaderWaits
  \/ \E t \in Tracks : DecoderWorks(t) \/ PlayerWorks(t)

\* Threads go on, and a call that waits for the network returns once it is interrupted.
PlayerFairness ==
  /\ WF_playerVars(OwnerWorks) /\ WF_playerVars(ReaderWorks)
  /\ WF_playerVars(Interrupted /\ ReaderWaits)
  /\ \A t \in Tracks : WF_playerVars(DecoderWorks(t)) /\ WF_playerVars(PlayerWorks(t))

-----------------------------------------------------------------------------
(* Properties *)

\* All that has been read of a track, from the frame played first to the packet read last.
Pipe(t) ==
  played[t] \o hand[t] \o frames[t] \o inside[t] \o packets[t]
    \o (IF reader = [at |-> "put", track |-> t] THEN <<sent[t]>> ELSE <<>>)

\* Frames are played in the order in which their packets were read, none twice and none missing
\* but those that a codec refused or could not convert.
PlaysInOrder ==
  \A t \in Tracks :
    /\ \A i \in 1 .. Len(Pipe(t)) - 1 : Pipe(t)[i] < Pipe(t)[i + 1]
    /\ Range(Pipe(t)) \cup dropped[t] = 1 .. sent[t]

\* Nothing is used that is not there: the reader has its context and the decoders it feeds, a
\* player its demuxer, and a pop finds a frame.
PlayerIsAlive ==
  /\ reader.at \in {"info", "decoders", "reading", "put"} => ctx = "open"
  /\ reader.at = "put" => decoder[reader.track] \notin {"made", "null"}
  /\ \A t \in Tracks :
       /\ player[t] \in {"top", "pop", "held"} => owner \in {"open", "players"}
       /\ player[t] = "pop" => frames[t] # <<>>
       /\ decoder[t] = "held" => packets[t] # <<>>

\* Close returns, whatever the server does.
PlayerCloses == owner = "players" ~> owner = "closed"
=============================================================================
