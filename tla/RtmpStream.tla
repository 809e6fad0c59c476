----------------------------- MODULE RtmpStream -----------------------------
(***************************************************************************)
(* RTMP messages over a connection: CRtmpChunk of either end, which cuts   *)
(* messages into chunks and puts them together again, and the read buffer  *)
(* between the socket and the parser.                                      *)
(*                                                                         *)
(* A stream is a sequence of items: the heads of chunks, handshake packets *)
(* and units of payload.  Heads and handshake packets are parsed only when *)
(* they are there as a whole, so that they are one item each; payload is   *)
(* counted in units of the default chunk size.  All chunk stream ids fit   *)
(* in one byte, and times stay below the extended ones.                    *)
(***************************************************************************)
EXTENDS Integers, SequencesExt

CONSTANTS
  MaxChunk   \* m_nMaxChunkSize, in units

ASSUME ChunkAssumption == MaxChunk \in Nat \ {0}

VARIABLES
  pipe,     \* items under way to an end
  buf,      \* its read buffer
  parser,   \* its CRtmpChunk, as a reader
  outSize,  \* its CRtmpChunk's m_nOutChunkSize
  sent,     \* messages sent to the end, and
  got       \* messages it has handled (history variables)

streamVars == <<pipe, buf, parser, outSize, sent, got>>

Ends == {"client", "server"}
Peer(e) == IF e = "client" THEN "server" ELSE "client"
DefaultChunk == 1

\* Chunk stream ids: control, invoke, audio and video.
Csid == [SetChunkSize |-> 2, AckSize |-> 2, Bandwidth |-> 2, Invoke |-> 3, Audio |-> 4, Video |-> 5]
Csids == 2..5
\* What the parser makes of bytes that are not what it takes them for.
Lost == [type |-> "lost", stream |-> 0, len |-> 0, body |-> <<>>]

StreamInit ==
  /\ pipe = [e \in Ends |-> <<>>] /\ buf = pipe /\ sent = pipe /\ got = pipe
  /\ parser = [e \in Ends |-> [state |-> "HEADER", csid |-> -1, in |-> DefaultChunk,
                               msgs |-> [c \in Csids |-> [len |-> 0, type |-> "none", stream |-> 0, data |-> <<>>]]]]
  /\ outSize = [e \in Ends |-> DefaultChunk]

-----------------------------------------------------------------------------
(* Writing *)

\* nCreateBasicHeader and nCreateMessageHeader: format 3 has nothing but the chunk stream id.
ChunkHead(fmt, m) ==
  IF fmt = 0 THEN [kind |-> "head", fmt |-> 0, csid |-> Csid[m.type], len |-> m.len, type |-> m.type, stream |-> m.stream]
  ELSE [kind |-> "head", fmt |-> 3, csid |-> Csid[m.type]]

\* Item k of a message in chunks: a head of format 0 first, and one of format 3 before every other chunk.
ChunkItem(m, size, k) ==
  IF (k - 1) % (size + 1) = 0 THEN ChunkHead(IF k = 1 THEN 0 ELSE 3, m)
  ELSE [kind |-> "unit", body |-> m.body, at |-> k - 1 - (k - 1) \div (size + 1)]

\* SendRtmpChunks with nCreateChunk: the chunks of a message leave together.
CreateChunk(m, size) == [k \in 1..(m.len + (m.len - 1) \div size + 1) |-> ChunkItem(m, size, k)]

-----------------------------------------------------------------------------
(* Reading *)

\* nReadFromSocket: any part of what is under way.
ReadFromSocket(e) ==
  /\ pipe[e] # <<>>
  /\ \E n \in 1..Len(pipe[e]) :
       /\ buf' = [buf EXCEPT ![e] = @ \o SubSeq(pipe[e], 1, n)]
       /\ pipe' = [pipe EXCEPT ![e] = SubSeq(@, n + 1, Len(@))]

\* nParseChunkHeader: format 0 begins a message, format 3 goes on with one.
ParseChunkHeader(p, item) ==
  [p EXCEPT !.state = "BODY", !.csid = item.csid,
            !.msgs[item.csid] = IF item.fmt = 0 THEN [len |-> item.len, type |-> item.type, stream |-> item.stream, data |-> <<>>]
                                ELSE p.msgs[item.csid]]

\* How much of the message the next chunk holds.
ChunkRest(p) == LET m == p.msgs[p.csid] IN IF m.len - Len(m.data) > p.in THEN p.in ELSE m.len - Len(m.data)

\* Mutant: the end of a chunk is not looked for.
EndsChunkOfMessage(p, n) == n >= p.msgs[p.csid].len

\* Whether a chunk ends when n units of the message are there.
EndsChunk(p, n) == n >= p.msgs[p.csid].len \/ n % p.in = 0

\* nParseChunkBody
ParseChunkBody(p, items) ==
  LET n == ChunkRest(p)
      data == p.msgs[p.csid].data \o SubSeq(items, 1, n)
  IN  [p EXCEPT !.msgs[p.csid].data = data, !.state = IF EndsChunk(p, Len(data)) THEN "HEADER" ELSE "BODY"]

\* The message whose units data are, or Lost.
Assembled(m) ==
  LET whole == \A i \in 1..m.len : m.data[i].kind = "unit" /\ m.data[i].body = m.data[1].body /\ m.data[i].at = i
  IN  IF whole THEN [type |-> m.type, stream |-> m.stream, len |-> m.len, body |-> m.data[1].body] ELSE Lost

\* nParse: what is used of the buffer, the parser after it and the message that is whole now, if any;
\* nothing is used when something is missing.
Parse(p, items) ==
  LET nothing == [used |-> 0, parser |-> p, msgs |-> <<>>]
  IN  IF items = <<>> THEN nothing
      ELSE IF p.state = "HEADER"
        THEN IF items[1].kind = "head" THEN [used |-> 1, parser |-> ParseChunkHeader(p, items[1]), msgs |-> <<>>]
             ELSE [used |-> 1, parser |-> p, msgs |-> <<Lost>>]
      ELSE IF Len(items) < ChunkRest(p) THEN nothing
      ELSE LET q == ParseChunkBody(p, items)
               m == q.msgs[p.csid]
           IN  IF Len(m.data) = m.len
                 THEN [used |-> ChunkRest(p), parser |-> [q EXCEPT !.csid = -1, !.msgs[p.csid].data = <<>>], msgs |-> <<Assembled(m)>>]
                 ELSE [used |-> ChunkRest(p), parser |-> q, msgs |-> <<>>]
=============================================================================
