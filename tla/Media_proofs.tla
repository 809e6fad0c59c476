------------------------------ MODULE Media_proofs ------------------------------
(***************************************************************************)
(* Proofs about the client's media, for any number of packets, samples and *)
(* pictures and any size of the buffer: no thread uses what another has    *)
(* freed, and everything is played or encoded in the order it came.        *)
(***************************************************************************)
EXTENDS Media, SequenceTheorems, TLAPS

-----------------------------------------------------------------------------
(* The player: what its threads use *)

\* Where the reader may be when its context is open, and where its decoders run.
Fetching == {"top", "reading", "put"}
Reading == {"info", "decoders"} \cup Fetching

PlayerTypes ==
  /\ owner \in {"new", "open", "players", "reader", "decoders", "closed"}
  /\ reader \in [at : {"none", "opening", "done"} \cup Reading, track : Tracks \cup {"none"}]
  /\ streams \subseteq Tracks
  /\ decoder \in [Tracks -> {"made", "top", "held", "frames", "ended", "null"}]
  /\ player \in [Tracks -> {"none", "top", "pop", "held", "done"}]

\* A thread runs only while the one that closes the player has not joined it.
PlayerJoins ==
  /\ owner = "new" => reader.at = "none"
  /\ reader.at # "done" => owner \notin {"decoders", "closed"}
  /\ \A t \in Tracks :
       /\ owner = "new" => player[t] = "none"
       /\ player[t] \in {"top", "pop", "held"} => owner \in {"open", "players"}

\* The reader has its context, and the decoders of the tracks it reads.
ReaderHolds ==
  /\ reader.at \in Reading => ctx = "open"
  /\ reader.at \in Fetching => \A t \in streams : decoder[t] \notin {"made", "null"}
  /\ reader.at = "put" => reader.track \in streams

\* Who is about to pop has seen the queue not empty, and nobody else takes from it.
PopsFind ==
  \A t \in Tracks :
    /\ player[t] = "pop" => frames[t] # <<>>
    /\ decoder[t] = "held" => packets[t] # <<>>

Queues ==
  /\ packets \in [Tracks -> Seq(Nat)] /\ inside \in [Tracks -> Seq(Nat)] /\ frames \in [Tracks -> Seq(Nat)]
  /\ hand \in [Tracks -> Seq(Nat)] /\ played \in [Tracks -> Seq(Nat)]
  /\ sent \in [Tracks -> Nat] /\ dropped \in [Tracks -> SUBSET Nat]

PInv == PlayerTypes /\ PlayerJoins /\ ReaderHolds /\ PopsFind

-----------------------------------------------------------------------------
(* The capture: what its threads use *)

\* Nothing is started before what it uses, and nothing is freed before who uses it has been joined.
CaptureInv ==
  /\ manager \in {"new", "audio", "start"} => wasapi = "none"
  /\ manager = "new" => screen = "none"
  /\ manager \in {"new", "audio", "start", "threads"} => audio = "none" /\ video = "none"
  /\ manager \in {"audio", "start", "threads"} => grabber = "open"
  /\ manager \in {"start", "threads"} => recorder = "open"
  /\ audio \in {"top", "read"} => manager \in {"open", "encoders"} /\ recorder = "open"
  /\ video \in {"top", "read"} => manager \in {"open", "encoders"} /\ grabber = "open"
  /\ wasapi \in {"top", "write"} => manager \notin {"screen", "contexts", "closed"} /\ recorder = "open"
  /\ screen \in {"top", "grab"} => manager \notin {"contexts", "closed"} /\ grabber = "open"

\* Before the capture starts nothing has been captured; what has been taken from the buffer are whole samples,
\* and so is what is in it unless it may cut one.
BufferInv ==
  /\ manager \in {"new", "audio", "start"} => buffer = <<>>
  /\ captured \in Nat
  /\ buffer \in Seq(Nat \X Nat) /\ taken \in Seq(Nat \X Nat)
  /\ Len(buffer) <= BufferSize
  /\ Len(taken) % BlockAlign = 0 /\ (WholeSamples => Len(buffer) % BlockAlign = 0)
  /\ SamplesInOrder

\* Every number is smaller than all that follow.
Ascending(s) == \A i, j \in 1 .. Len(s) : i < j => s[i] < s[j]

\* The packet that the reader is about to queue.
Arriving(t) == IF reader = [at |-> "put", track |-> t] THEN <<sent[t]>> ELSE <<>>

\* Everything on the way through the player is in the order in which it was read.
PipeInv ==
  /\ Queues
  /\ \A t \in Tracks :
       /\ player[t] # "held" => hand[t] = <<>>
       /\ Ascending(Pipe(t))
       /\ Range(Pipe(t)) \cup dropped[t] = 1 .. sent[t]

-----------------------------------------------------------------------------
(* The player's threads stay apart *)

LEMMA ReaderKeepsTypes ==
  ASSUME PInv, Queues, ReaderWorks \/ ReaderWaits
  PROVE  PInv'
<1>1. \/ \E ok \in BOOLEAN : OpenInput(ok) \/ FindStreamInfo(ok)
      \/ OpenDecoders \/ ReadLoop \/ ReadFails
      \/ \E t \in Tracks : ReadFrame(t)
      \/ PutPacket
  BY DEF ReaderWorks, ReaderWaits
<1>2. CASE \E ok \in BOOLEAN : OpenInput(ok) \/ FindStreamInfo(ok)
  BY <1>2 DEF OpenInput, FindStreamInfo, PInv, PlayerTypes, PlayerJoins, ReaderHolds, PopsFind, pipeVars,
              At, Reading, Fetching
<1>3. CASE OpenDecoders
  <2>1. PICK works \in [streams -> BOOLEAN] :
          LET tried == {t \in streams : t = "video" \/ "video" \notin streams \/ works["video"]}
          IN  /\ decoder' = [t \in Tracks |-> IF t \in tried THEN Opened(works[t]) ELSE decoder[t]]
              /\ reader' = At(IF \A t \in streams : works[t] THEN "top" ELSE "done")
    BY <1>3 DEF OpenDecoders
  <2>2. PlayerTypes'
    BY <1>3, <2>1 DEF OpenDecoders, PInv, PlayerTypes, At, Opened, Reading, Fetching
  <2>3. PlayerJoins' /\ PopsFind'
    BY <1>3, <2>1 DEF OpenDecoders, PInv, PlayerTypes, PlayerJoins, PopsFind, At, Opened, pipeVars
  <2>4. ReaderHolds'
    BY <1>3, <2>1 DEF OpenDecoders, PInv, PlayerTypes, ReaderHolds, At, Opened, Reading, Fetching
  <2> QED BY <2>2, <2>3, <2>4 DEF PInv
<1>4. CASE ReadLoop \/ ReadFails
  BY <1>4 DEF ReadLoop, ReadFails, PInv, PlayerTypes, PlayerJoins, ReaderHolds, PopsFind, pipeVars,
              At, Reading, Fetching
<1>5. CASE \E t \in Tracks : ReadFrame(t)
  BY <1>5 DEF ReadFrame, PInv, PlayerTypes, PlayerJoins, ReaderHolds, PopsFind, Reading, Fetching
<1>6. CASE PutPacket
  <2>1. reader' = At("top") /\ UNCHANGED <<owner, ctx, streams, decoder, player, frames>>
        /\ packets' = [packets EXCEPT ![reader.track] = Append(@, sent[reader.track])]
    BY <1>6 DEF PutPacket, Push
  <2>2. \A s \in Seq(Nat), n \in Nat : Append(s, n) # <<>>
    OBVIOUS
  <2>3. \A t \in Tracks : packets[t] # <<>> => packets'[t] # <<>>
    BY <2>1, <2>2 DEF Queues
  <2>4. PopsFind'
    BY <2>1, <2>3 DEF PInv, PopsFind
  <2> QED BY <1>6, <2>1, <2>4 DEF PutPacket, PInv, PlayerTypes, PlayerJoins, ReaderHolds, At, Reading, Fetching
<1> QED BY <1>1, <1>2, <1>3, <1>4, <1>5, <1>6

LEMMA DecoderKeepsTypes ==
  ASSUME PInv, Queues, NEW t \in Tracks, DecoderWorks(t)
  PROVE  PInv'
<1> USE DEF PInv, PlayerTypes, PlayerJoins, ReaderHolds, Reading, Fetching
<1>1. PlayerTypes' /\ PlayerJoins' /\ ReaderHolds'
  <2>1. CASE DecoderLoop(t)
    BY <2>1 DEF DecoderLoop, pipeVars
  <2>2. CASE SendPacket(t)
    BY <2>2 DEF SendPacket
  <2>3. CASE ReceiveFrame(t)
    BY <2>3 DEF ReceiveFrame
  <2> QED BY <2>1, <2>2, <2>3 DEF DecoderWorks
<1>2. PopsFind'
  <2>1. CASE DecoderLoop(t)
    BY <2>1 DEF DecoderLoop, pipeVars, PopsFind
  <2>2. CASE SendPacket(t)
    BY <2>2 DEF SendPacket, PopsFind, Queues
  <2>3. CASE ReceiveFrame(t)
    <3>1. UNCHANGED <<player, packets>> /\ \A o \in Tracks : decoder'[o] = "held" => decoder[o] = "held"
      BY <2>3 DEF ReceiveFrame
    <3>2. \A s \in Seq(Nat) : Append(s, Head(inside[t])) # <<>>
      OBVIOUS
    <3>3. frames' = frames \/ frames' = [frames EXCEPT ![t] = Append(@, Head(inside[t]))]
      BY <2>3 DEF ReceiveFrame, Convert, Push
    <3>4. \A o \in Tracks : frames[o] # <<>> => frames'[o] # <<>>
      BY <3>2, <3>3 DEF Queues
    <3> QED BY <3>1, <3>4 DEF PopsFind
  <2> QED BY <2>1, <2>2, <2>3 DEF DecoderWorks
<1> QED BY <1>1, <1>2

LEMMA PlayersKeepTypes ==
  ASSUME PInv, Queues, NEW t \in Tracks, PlayerWorks(t)
  PROVE  PInv'
<1> USE DEF PInv, PlayerTypes, PlayerJoins, ReaderHolds, PopsFind, Reading, Fetching, Queues
<1>1. CASE PlayLoop(t)
  BY <1>1 DEF PlayLoop, pipeVars
<1>2. CASE PlayPop(t)
  BY <1>2 DEF PlayPop
<1>3. CASE PlayFrame(t)
  BY <1>3 DEF PlayFrame
<1> QED BY <1>1, <1>2, <1>3 DEF PlayerWorks

LEMMA OwnerKeepsTypes ==
  ASSUME PInv, OpenPlayer \/ CloseStarts \/ OwnerWorks
  PROVE  PInv'
<1> USE DEF PInv, PlayerTypes, PlayerJoins, ReaderHolds, PopsFind, pipeVars, At, Reading, Fetching
<1>1. CASE OpenPlayer
  BY <1>1 DEF OpenPlayer
<1>2. CASE CloseStarts \/ JoinPlayers
  BY <1>2 DEF CloseStarts, JoinPlayers
<1>3. CASE CloseInput \/ DecodersGone
  BY <1>3 DEF CloseInput, DecodersGone
<1>4. ASSUME NEW t \in Tracks, JoinDecoder(t) PROVE PInv'
  BY <1>4 DEF JoinDecoder
<1> QED BY <1>1, <1>2, <1>3, <1>4 DEF OwnerWorks

-----------------------------------------------------------------------------
(* What moves along a line of queues *)

Line(p, h, f, i, k, l) == p \o h \o f \o i \o k \o l

\* The number x has been taken out of the line o, and t is left.
TakenOut(t, x, o) ==
  /\ Ascending(o) => Ascending(t)
  /\ Range(o) = Range(t) \cup {x}

LEMMA Cat ==
  \A s1, s2 \in Seq(Nat) :
    /\ s1 \o s2 \in Seq(Nat) /\ Len(s1 \o s2) = Len(s1) + Len(s2)
    /\ \A i \in 1 .. Len(s1) + Len(s2) : (s1 \o s2)[i] = IF i <= Len(s1) THEN s1[i] ELSE s2[i - Len(s1)]
BY ConcatProperties

Associate(s1, s2, s3) == (s1 \o s2) \o s3 = s1 \o (s2 \o s3)

LEMMA Associates == ASSUME NEW S, NEW s1 \in Seq(S), NEW s2 \in Seq(S), NEW s3 \in Seq(S) PROVE Associate(s1, s2, s3)
<1>1. (s1 \o s2) \o s3 = s1 \o (s2 \o s3)
  BY ConcatAssociative, SMTT(30)
<1> QED BY <1>1 DEF Associate

LEMMA CatAssociative == \A s1, s2, s3 \in Seq(Nat) : Associate(s1, s2, s3)
BY Associates, Zenon

LEMMA HeadTail ==
  ASSUME NEW s \in Seq(Nat), s # <<>>
  PROVE  /\ Head(s) \in Nat /\ Tail(s) \in Seq(Nat)
         /\ s = <<Head(s)>> \o Tail(s)
<1>1. Head(s) \in Nat /\ Tail(s) \in Seq(Nat) /\ Len(Tail(s)) = Len(s) - 1 /\ Len(s) \in Nat \ {0}
      /\ \A i \in 1 .. Len(Tail(s)) : Tail(s)[i] = s[i + 1]
  BY HeadTailProperties, EmptySeq
<1>2. Head(s) = s[1]
  OBVIOUS
<1> DEFINE h == <<Head(s)>>
           r == Tail(s)
<1>3. h \in Seq(Nat) /\ Len(h) = 1 /\ h[1] = s[1]
  BY <1>1, <1>2
<1> HIDE DEF h, r
<1>4. r \in Seq(Nat) /\ Len(r) = Len(s) - 1 /\ \A i \in 1 .. Len(r) : r[i] = s[i + 1]
  BY <1>1 DEF r
<1>5. /\ h \o r \in Seq(Nat) /\ Len(h \o r) = Len(h) + Len(r)
      /\ \A i \in 1 .. Len(h) + Len(r) : (h \o r)[i] = IF i <= Len(h) THEN h[i] ELSE r[i - Len(h)]
  BY <1>3, <1>4, Cat
<1>6. Len(h \o r) = Len(s)
  BY <1>1, <1>3, <1>4, <1>5
<1>7. ASSUME NEW i \in 1 .. Len(s) PROVE (h \o r)[i] = s[i]
  BY <1>1, <1>3, <1>4, <1>5
<1>8. h \o r = s
  BY <1>5, <1>6, <1>7, SeqEqual
<1> QED BY <1>1, <1>8 DEF h, r

LEMMA AppendCat ==
  ASSUME NEW s \in Seq(Nat), NEW x \in Nat
  PROVE  Append(s, x) = s \o <<x>> /\ <<x>> \in Seq(Nat)
OBVIOUS

\* The head of a queue goes to the end of the one before it.
LEMMA MovesOn ==
  ASSUME NEW a \in Seq(Nat), NEW b \in Seq(Nat), NEW s \in Seq(Nat), s # <<>>
  PROVE  (a \o Append(b, Head(s))) \o Tail(s) = (a \o b) \o s
<1> DEFINE h == <<Head(s)>>
           r == Tail(s)
<1>1. h \in Seq(Nat) /\ r \in Seq(Nat) /\ s = h \o r /\ Append(b, Head(s)) = b \o h
  BY HeadTail, AppendCat
<1> HIDE DEF h, r
<1>2. (a \o (b \o h)) \o r = ((a \o b) \o h) \o r
  <2>1. Associate(a, b, h)
    BY <1>1, CatAssociative, Zenon
  <2> QED BY <2>1 DEF Associate
<1>3. ((a \o b) \o h) \o r = (a \o b) \o (h \o r)
  <2>1. a \o b \in Seq(Nat)
    BY Cat
  <2>2. Associate(a \o b, h, r)
    BY <1>1, <2>1, CatAssociative, Zenon
  <2> QED BY <2>2 DEF Associate
<1> QED BY <1>1, <1>2, <1>3 DEF r

\* A line and what is left of it when the number after the first n is taken out.
LEMMA Skips ==
  ASSUME NEW n \in Nat, NEW m \in Nat, NEW a, NEW b, NEW d, NEW o, NEW t, NEW x,
         \A i \in 1 .. n + m : t[i] = IF i <= n THEN a[i] ELSE b[i - n],
         \A i \in 1 .. n + (1 + m) : o[i] = IF i <= n THEN a[i] ELSE d[i - n],
         \A i \in 1 .. 1 + m : d[i] = IF i <= 1 THEN x ELSE b[i - 1]
  PROVE  /\ o[n + 1] = x
         /\ \A i \in 1 .. n + m : t[i] = IF i <= n THEN o[i] ELSE o[i + 1]
<1>1. o[n + 1] = d[1] /\ d[1] = x
  OBVIOUS
<1>2. ASSUME NEW i \in 1 .. n + m PROVE t[i] = IF i <= n THEN o[i] ELSE o[i + 1]
  <2>1. CASE i <= n
    BY <2>1
  <2>2. CASE ~(i <= n)
    <3>1. i + 1 \in 1 .. n + (1 + m) /\ ~(i + 1 <= n) /\ i + 1 - n \in 1 .. 1 + m /\ ~(i + 1 - n <= 1)
          /\ i + 1 - n - 1 = i - n
      BY <2>2
    <3>2. o[i + 1] = d[i + 1 - n] /\ d[i + 1 - n] = b[i - n]
      BY <3>1
    <3> QED BY <2>2, <3>2
  <2> QED BY <2>1, <2>2
<1> QED BY <1>1, <1>2

LEMMA SkippedIsTakenOut ==
  ASSUME NEW n \in Nat, NEW m \in Nat, NEW o, NEW t, NEW x,
         DOMAIN t = 1 .. n + m, DOMAIN o = 1 .. n + (1 + m), Len(t) = n + m, Len(o) = n + (1 + m),
         o[n + 1] = x, \A i \in 1 .. n + m : t[i] = IF i <= n THEN o[i] ELSE o[i + 1]
  PROVE  TakenOut(t, x, o)
<1>1. ASSUME NEW i \in DOMAIN t
      PROVE  \E j \in DOMAIN o : t[i] = o[j]
  <2>1. CASE i <= n
    <3>1. i \in DOMAIN o /\ t[i] = o[i]
      BY <2>1
    <3> QED BY <3>1
  <2>2. CASE ~(i <= n)
    <3>1. i + 1 \in DOMAIN o /\ t[i] = o[i + 1]
      BY <2>2
    <3> QED BY <3>1
  <2> QED BY <2>1, <2>2
<1>2. ASSUME NEW i \in DOMAIN o
      PROVE  o[i] = x \/ \E j \in DOMAIN t : o[i] = t[j]
  <2>1. CASE i <= n
    <3>1. i \in DOMAIN t /\ o[i] = t[i]
      BY <2>1
    <3> QED BY <3>1
  <2>2. CASE i > n + 1
    <3>1. i - 1 \in DOMAIN t /\ o[i] = t[i - 1]
      BY <2>2
    <3> QED BY <3>1
  <2>3. CASE i = n + 1
    BY <2>3
  <2> QED BY <2>1, <2>2, <2>3
<1>3. n + 1 \in DOMAIN o
  OBVIOUS
<1>4. Range(o) = Range(t) \cup {x}
  <2>1. \A y \in Range(o) : y \in Range(t) \cup {x}
    <3> SUFFICES ASSUME NEW i \in DOMAIN o PROVE o[i] \in Range(t) \cup {x}
      BY Zenon DEF Range
    <3> QED BY <1>2 DEF Range
  <2>2. \A y \in Range(t) : y \in Range(o)
    BY <1>1, Zenon DEF Range
  <2>3. x \in Range(o)
    BY <1>3, Zenon DEF Range
  <2> QED BY <2>1, <2>2, <2>3
<1>5. Ascending(o) => Ascending(t)
  <2> SUFFICES ASSUME Ascending(o), NEW i \in 1 .. n + m, NEW j \in 1 .. n + m, i < j
               PROVE  t[i] < t[j]
    BY DEF Ascending
  <2> DEFINE p == IF i <= n THEN i ELSE i + 1
             q == IF j <= n THEN j ELSE j + 1
  <2>1. p \in 1 .. n + (1 + m) /\ q \in 1 .. n + (1 + m) /\ p < q
    OBVIOUS
  <2>2. t[i] = o[p] /\ t[j] = o[q]
    OBVIOUS
  <2> HIDE DEF p, q
  <2> QED BY <2>1, <2>2 DEF Ascending
<1> QED BY <1>4, <1>5 DEF TakenOut

\* The head of a queue in the middle is taken out.
LEMMA HeadTakenOut ==
  ASSUME NEW a \in Seq(Nat), NEW s \in Seq(Nat), s # <<>>, NEW c \in Seq(Nat)
  PROVE  TakenOut((a \o Tail(s)) \o c, Head(s), (a \o s) \o c)
<1> DEFINE x == Head(s)
           h == <<x>>
           r == Tail(s)
           b == r \o c
           t == a \o b
           o == a \o (h \o b)
           n == Len(a)
           m == Len(b)
<1>1. /\ x \in Nat /\ h \in Seq(Nat) /\ r \in Seq(Nat) /\ s = h \o r
      /\ Len(h) = 1 /\ h[1] = x
  BY HeadTail
<1> HIDE DEF x, h, r
<1>2. b \in Seq(Nat)
  BY <1>1, Cat
<1>3. (a \o r) \o c = t
  <2>1. Associate(a, r, c)
    BY <1>1, CatAssociative, Zenon
  <2> QED BY <2>1 DEF Associate
<1>4. (a \o s) \o c = o
  <2>1. (a \o s) \o c = a \o (s \o c)
    <3>1. Associate(a, s, c)
      BY CatAssociative, Zenon
    <3> QED BY <3>1 DEF Associate
  <2>2. s \o c = h \o b
    <3>0. h \in Seq(Nat) /\ r \in Seq(Nat) /\ c \in Seq(Nat)
      BY <1>1
    <3>1. (h \o r) \o c = h \o (r \o c)
      <4>1. Associate(h, r, c)
        BY <3>0, CatAssociative, Zenon
      <4> HIDE DEF b, t, o, n, m
      <4> QED BY <4>1 DEF Associate
    <3>2. s = h \o r
      BY <1>1
    <3> HIDE DEF o, t
    <3> QED BY <3>1, <3>2
  <2> QED BY <2>1, <2>2
<1> HIDE DEF b
<1>5. /\ h \o b \in Seq(Nat) /\ Len(h \o b) = Len(h) + Len(b)
      /\ \A i \in 1 .. Len(h) + Len(b) : (h \o b)[i] = IF i <= Len(h) THEN h[i] ELSE b[i - Len(h)]
  BY <1>1, <1>2, Cat, Zenon
<1>6. n \in Nat /\ m \in Nat
  BY <1>2, LenProperties
<1>7. /\ t \in Seq(Nat) /\ Len(t) = n + m
      /\ \A i \in 1 .. n + m : t[i] = IF i <= n THEN a[i] ELSE b[i - n]
  BY <1>2, Cat, Zenon
<1> DEFINE d == h \o b
<1>8. /\ o \in Seq(Nat) /\ Len(o) = n + Len(d)
      /\ \A i \in 1 .. n + Len(d) : o[i] = IF i <= n THEN a[i] ELSE d[i - n]
  BY <1>5, Cat, Zenon
<1>9. Len(d) = 1 + m /\ \A i \in 1 .. 1 + m : d[i] = IF i <= 1 THEN h[i] ELSE b[i - 1]
  BY <1>1, <1>5
<1> HIDE DEF t, o, n, m, d
<1>10. Len(o) = n + (1 + m) /\ \A i \in 1 .. n + (1 + m) : o[i] = IF i <= n THEN a[i] ELSE d[i - n]
  BY <1>8, <1>9
<1>11. \A i \in 1 .. 1 + m : d[i] = IF i <= 1 THEN x ELSE b[i - 1]
  BY <1>1, <1>6, <1>9
<1>12. o[n + 1] = x /\ \A i \in 1 .. n + m : t[i] = IF i <= n THEN o[i] ELSE o[i + 1]
  <2>1. \A i \in 1 .. n + m : t[i] = IF i <= n THEN a[i] ELSE b[i - n]
    BY <1>7
  <2>2. \A i \in 1 .. n + (1 + m) : o[i] = IF i <= n THEN a[i] ELSE d[i - n]
    BY <1>10
  <2> QED BY <1>6, <1>11, <2>1, <2>2, Skips
<1>13. DOMAIN t = 1 .. n + m /\ DOMAIN o = 1 .. n + (1 + m)
  BY <1>7, <1>8, <1>10, LenProperties
<1>14. TakenOut(t, x, o)
  BY <1>6, <1>7, <1>10, <1>12, <1>13, SkippedIsTakenOut, Zenon
<1> QED BY <1>3, <1>4, <1>14 DEF x, r

LEMMA EveryHeadMovesOn ==
  \A s1, s2, s3 \in Seq(Nat) : s3 # <<>> => (s1 \o Append(s2, Head(s3))) \o Tail(s3) = (s1 \o s2) \o s3
BY MovesOn

LEMMA HeadMovesToNothing ==
  ASSUME NEW a \in Seq(Nat), NEW s \in Seq(Nat), s # <<>>
  PROVE  (a \o <<Head(s)>>) \o Tail(s) = (a \o <<>>) \o s
<1> DEFINE h == <<Head(s)>>
           r == Tail(s)
<1>1. h \in Seq(Nat)
  BY HeadTail
<1>2. r \in Seq(Nat)
  BY HeadTail
<1>3. s = h \o r
  BY HeadTail
<1> HIDE DEF h, r
<1>4. (a \o h) \o r = a \o (h \o r)
  <2>1. Associate(a, h, r)
    BY <1>1, <1>2, CatAssociative, Zenon
  <2> QED BY <2>1 DEF Associate
<1>5. a \o <<>> = a
  BY ConcatEmptySeq
<1> QED BY <1>3, <1>4, <1>5 DEF h, r

LEMMA LineIsSeq ==
  ASSUME NEW p \in Seq(Nat), NEW h \in Seq(Nat), NEW f \in Seq(Nat), NEW i \in Seq(Nat), NEW k \in Seq(Nat)
  PROVE  /\ p \o h \in Seq(Nat) /\ p \o h \o f \in Seq(Nat) /\ p \o h \o f \o i \in Seq(Nat)
         /\ p \o h \o f \o i \o k \in Seq(Nat)
<1>1. p \o h \in Seq(Nat)
  BY Cat, Zenon
<1>2. p \o h \o f \in Seq(Nat)
  BY <1>1, Cat, Zenon
<1>3. p \o h \o f \o i \in Seq(Nat)
  BY <1>2, Cat, Zenon
<1>4. p \o h \o f \o i \o k \in Seq(Nat)
  BY <1>3, Cat, Zenon
<1> QED BY <1>1, <1>2, <1>3, <1>4

\* A frame that is popped or played, a frame or a packet that goes on, and the packet that is queued
\* leave the line as it was.
LEMMA FramePlayed ==
  ASSUME NEW p \in Seq(Nat), NEW h \in Seq(Nat), NEW f, NEW i, NEW k, NEW l
  PROVE  Line(p \o h, <<>>, f, i, k, l) = Line(p, h, f, i, k, l)
<1> DEFINE a == p \o h
<1>1. a \in Seq(Nat)
  BY Cat, Zenon
<1> HIDE DEF a
<1>2. a \o <<>> = a
  BY <1>1, ConcatEmptySeq
<1> QED BY <1>2 DEF a, Line

LEMMA FramePopped ==
  ASSUME NEW p \in Seq(Nat), NEW f \in Seq(Nat), f # <<>>, NEW i, NEW k, NEW l
  PROVE  Line(p, <<Head(f)>>, Tail(f), i, k, l) = Line(p, <<>>, f, i, k, l)
BY HeadMovesToNothing DEF Line

LEMMA FrameMade ==
  ASSUME NEW p \in Seq(Nat), NEW h \in Seq(Nat), NEW f \in Seq(Nat), NEW i \in Seq(Nat), i # <<>>, NEW k, NEW l
  PROVE  Line(p, h, Append(f, Head(i)), Tail(i), k, l) = Line(p, h, f, i, k, l)
<1> DEFINE a == p \o h
<1>1. a \in Seq(Nat)
  BY Cat, Zenon
<1> HIDE DEF a
<1>2. (a \o Append(f, Head(i))) \o Tail(i) = (a \o f) \o i
  BY <1>1, EveryHeadMovesOn, Zenon
<1> QED BY <1>2 DEF a, Line

LEMMA PacketDecoded ==
  ASSUME NEW p \in Seq(Nat), NEW h \in Seq(Nat), NEW f \in Seq(Nat), NEW i \in Seq(Nat),
         NEW k \in Seq(Nat), k # <<>>, NEW l
  PROVE  Line(p, h, f, Append(i, Head(k)), Tail(k), l) = Line(p, h, f, i, k, l)
<1> DEFINE a == p \o h \o f
<1>1. a \in Seq(Nat)
  <2>1. p \o h \in Seq(Nat)
    BY Cat, Zenon
  <2> QED BY <2>1, Cat, Zenon
<1> HIDE DEF a
<1>2. (a \o Append(i, Head(k))) \o Tail(k) = (a \o i) \o k
  BY <1>1, EveryHeadMovesOn, Zenon
<1> QED BY <1>2 DEF a, Line

LEMMA PacketQueued ==
  ASSUME NEW p \in Seq(Nat), NEW h \in Seq(Nat), NEW f \in Seq(Nat), NEW i \in Seq(Nat), NEW k \in Seq(Nat),
         NEW x \in Nat
  PROVE  Line(p, h, f, i, Append(k, x), <<>>) = Line(p, h, f, i, k, <<x>>)
<1> DEFINE c == p \o h \o f \o i
<1>1. c \in Seq(Nat) /\ <<x>> \in Seq(Nat) /\ Append(k, x) = k \o <<x>> /\ Append(k, x) \in Seq(Nat)
  BY LineIsSeq, AppendCat
<1> HIDE DEF c
<1>2. (c \o Append(k, x)) \o <<>> = c \o Append(k, x)
  <2>1. c \o Append(k, x) \in Seq(Nat)
    BY <1>1, Cat, Zenon
  <2> QED BY <2>1, ConcatEmptySeq, Zenon
<1>3. c \o (k \o <<x>>) = (c \o k) \o <<x>>
  <2>1. Associate(c, k, <<x>>)
    BY <1>1, CatAssociative, Zenon
  <2> QED BY <2>1 DEF Associate
<1> QED BY <1>1, <1>2, <1>3 DEF c, Line

\* A frame that cannot be converted, and a packet that is refused, are taken out of the line.
LEMMA LineLoses ==
  ASSUME NEW p \in Seq(Nat), NEW h \in Seq(Nat), NEW f \in Seq(Nat), NEW i \in Seq(Nat), NEW k \in Seq(Nat),
         NEW l \in Seq(Nat)
  PROVE  /\ i # <<>> => TakenOut(Line(p, h, f, Tail(i), k, l), Head(i), Line(p, h, f, i, k, l))
         /\ k # <<>> => TakenOut(Line(p, h, f, i, Tail(k), l), Head(k), Line(p, h, f, i, k, l))
<1>1. ASSUME i # <<>>
      PROVE  TakenOut(Line(p, h, f, Tail(i), k, l), Head(i), Line(p, h, f, i, k, l))
  <2> DEFINE a == p \o h \o f
  <2>1. a \in Seq(Nat) /\ Tail(i) \in Seq(Nat) /\ k \o l \in Seq(Nat)
    BY <1>1, LineIsSeq, HeadTail, Cat
  <2>2. Line(p, h, f, i, k, l) = ((a \o i) \o k) \o l /\ Line(p, h, f, Tail(i), k, l) = ((a \o Tail(i)) \o k) \o l
    BY DEF Line
  <2> HIDE DEF a
  <2>3. a \o i \in Seq(Nat) /\ a \o Tail(i) \in Seq(Nat)
    BY <2>1, Cat, Zenon
  <2> DEFINE u == a \o i
             v == a \o Tail(i)
  <2> HIDE DEF u, v
  <2>4. (u \o k) \o l = u \o (k \o l) /\ (v \o k) \o l = v \o (k \o l)
    <3>1. u \in Seq(Nat)
      BY <2>3 DEF u
    <3>2. v \in Seq(Nat)
      BY <2>3 DEF v
    <3>3. (u \o k) \o l = u \o (k \o l)
      <4>1. Associate(u, k, l)
        BY <3>1, CatAssociative, Zenon
      <4> QED BY <4>1 DEF Associate
    <3>4. (v \o k) \o l = v \o (k \o l)
      <4>1. Associate(v, k, l)
        BY <3>2, CatAssociative, Zenon
      <4> QED BY <4>1 DEF Associate
    <3> QED BY <3>3, <3>4
  <2>5. TakenOut((a \o Tail(i)) \o (k \o l), Head(i), (a \o i) \o (k \o l))
    BY <1>1, <2>1, HeadTakenOut, Zenon
  <2> QED BY <2>2, <2>4, <2>5 DEF u, v
<1>2. ASSUME k # <<>>
      PROVE  TakenOut(Line(p, h, f, i, Tail(k), l), Head(k), Line(p, h, f, i, k, l))
  <2>1. TakenOut(((p \o h \o f \o i) \o Tail(k)) \o l, Head(k), ((p \o h \o f \o i) \o k) \o l)
    BY <1>2, LineIsSeq, HeadTakenOut, Zenon
  <2> QED BY <2>1 DEF Line
<1> QED BY <1>1, <1>2

\* A number larger than all the others goes to the end.
LEMMA LineGrows ==
  ASSUME NEW s \in Seq(Nat), NEW x \in Nat, \A y \in Range(s) : y < x, Ascending(s)
  PROVE  Ascending(s \o <<x>>) /\ Range(s \o <<x>>) = Range(s) \cup {x}
<1> DEFINE o == s \o <<x>>
           n == Len(s)
<1>1. n \in Nat /\ DOMAIN s = 1 .. n
  BY LenProperties
<1>2. DOMAIN o = 1 .. n + 1 /\ Len(o) = n + 1 /\ o[n + 1] = x /\ \A i \in 1 .. n : o[i] = s[i]
  OBVIOUS
<1>3. \A i \in 1 .. n : s[i] < x
  BY <1>1 DEF Range
<1>4. \A i, j \in 1 .. n : i < j => s[i] < s[j]
  BY DEF Ascending
<1> HIDE DEF o, n
<1>5. Ascending(o)
  <2> SUFFICES ASSUME NEW i \in 1 .. n + 1, NEW j \in 1 .. n + 1, i < j PROVE o[i] < o[j]
    BY <1>2 DEF Ascending
  <2>1. i \in 1 .. n
    BY <1>1
  <2>2. CASE j = n + 1
    BY <1>2, <1>3, <2>1, <2>2
  <2>3. CASE j # n + 1
    BY <1>1, <1>2, <1>4, <2>1, <2>3
  <2> QED BY <2>2, <2>3
<1>6. Range(o) = Range(s) \cup {x}
  <2>1. \A i \in 1 .. n + 1 : i = n + 1 \/ i \in 1 .. n
    BY <1>1
  <2>2. n + 1 \in 1 .. n + 1 /\ 1 .. n \subseteq 1 .. n + 1
    BY <1>1
  <2>3. \A y \in Range(o) : y \in Range(s) \cup {x}
    <3> SUFFICES ASSUME NEW i \in DOMAIN o PROVE o[i] \in Range(s) \cup {x}
      BY Zenon DEF Range
    <3> QED BY <1>1, <1>2, <2>1 DEF Range
  <2>4. x \in Range(o)
    BY <1>2, <2>2, Zenon DEF Range
  <2>5. \A y \in Range(s) : y \in Range(o)
    <3> SUFFICES ASSUME NEW i \in DOMAIN s PROVE s[i] \in Range(o)
      BY Zenon DEF Range
    <3>1. i \in DOMAIN o /\ o[i] = s[i]
      BY <1>1, <1>2, <2>2
    <3> QED BY <3>1, Zenon DEF Range
  <2> QED BY <2>3, <2>4, <2>5
<1> QED BY <1>5, <1>6 DEF o

-----------------------------------------------------------------------------
(* The line of a track *)

LEMMA PipeIsLine ==
  /\ \A t : Pipe(t) = Line(played[t], hand[t], frames[t], inside[t], packets[t], Arriving(t))
  /\ \A t : Pipe(t)' = Line(played'[t], hand'[t], frames'[t], inside'[t], packets'[t], Arriving(t)')
BY DEF Pipe, Line, Arriving

Ordered(t) == Ascending(Pipe(t)) /\ Range(Pipe(t)) \cup dropped[t] = 1 .. sent[t]

LEMMA PieceTypes ==
  ASSUME Queues, NEW t \in Tracks
  PROVE  /\ played[t] \in Seq(Nat) /\ hand[t] \in Seq(Nat) /\ frames[t] \in Seq(Nat)
         /\ inside[t] \in Seq(Nat) /\ packets[t] \in Seq(Nat) /\ sent[t] \in Nat
         /\ Arriving(t) \in Seq(Nat)
BY DEF Queues, Arriving

\* A step that leaves a track's line and its history as they were keeps its order.
LEMMA LineRests ==
  ASSUME NEW t, Ordered(t), Pipe(t)' = Pipe(t), dropped'[t] = dropped[t], sent'[t] = sent[t]
  PROVE  Ordered(t)'
BY DEF Ordered

\* So does one that loses a packet or its frame and says so.
LEMMA LineLess ==
  ASSUME NEW t, NEW x, Ordered(t), TakenOut(Pipe(t)', x, Pipe(t)), dropped'[t] = dropped[t] \cup {x}, sent'[t] = sent[t]
  PROVE  Ordered(t)'
BY DEF Ordered, TakenOut

\* A step touches the pieces of one track only.
LEMMA OthersRest ==
  ASSUME PipeInv, NEW t, UNCHANGED <<played[t], hand[t], frames[t], inside[t], packets[t], Arriving(t), dropped[t], sent[t]>>,
         t \in Tracks
  PROVE  Ordered(t)'
BY PipeIsLine, LineRests DEF PipeInv, Ordered

LEMMA QueuesRest ==
  ASSUME Queues, UNCHANGED pipeVars
  PROVE  Queues'
BY DEF Queues, pipeVars

\* The packet that is about to be queued is the last that was read.
LEMMA ReaderKeepsOrder ==
  ASSUME PipeInv, PlayerTypes, ReaderWorks \/ ReaderWaits
  PROVE  PipeInv'
<1>1. ASSUME UNCHANGED <<pipeVars, player>>, reader.at # "put", reader'.at # "put"
      PROVE  PipeInv'
  <2>1. ASSUME NEW t \in Tracks PROVE UNCHANGED Arriving(t)
    BY <1>1 DEF Arriving
  <2> QED BY <1>1, <2>1, QueuesRest, OthersRest DEF PipeInv, pipeVars, Ordered
<1>2. CASE ReadLoop \/ ReadFails \/ OpenDecoders \/ (\E ok \in BOOLEAN : OpenInput(ok) \/ FindStreamInfo(ok))
  BY <1>1, <1>2 DEF ReadLoop, ReadFails, OpenDecoders, OpenInput, FindStreamInfo, At, pipeVars
<1>3. ASSUME NEW t \in Tracks, ReadFrame(t) PROVE PipeInv'
  <2> DEFINE s == played[t] \o hand[t] \o frames[t] \o inside[t] \o packets[t]
             n == sent[t] + 1
  <2>1. /\ reader.at = "reading" /\ reader' = [at |-> "put", track |-> t]
        /\ sent' = [sent EXCEPT ![t] = n]
        /\ UNCHANGED <<packets, inside, frames, hand, played, dropped, player>>
    BY <1>3 DEF ReadFrame
  <2>2. sent[t] \in Nat /\ n \in Nat /\ sent \in [Tracks -> Nat]
    BY DEF PipeInv, Queues
  <2>3. Arriving(t) = <<>> /\ Arriving(t)' = <<n>>
    BY <2>1, <2>2 DEF Arriving
  <2>4. s \in Seq(Nat)
    BY PieceTypes, LineIsSeq DEF PipeInv
  <2>5. Pipe(t) = s \o <<>> /\ Pipe(t)' = s \o <<n>>
    BY <2>1, <2>3, PipeIsLine DEF Line
  <2> HIDE DEF s
  <2>6. Pipe(t) = s
    BY <2>4, <2>5, ConcatEmptySeq
  <2>7. Ascending(s) /\ Range(s) \cup dropped[t] = 1 .. sent[t]
    BY <2>6 DEF PipeInv
  <2>8. \A y \in Range(s) : y < n
    BY <2>2, <2>7
  <2>9. Ascending(s \o <<n>>) /\ Range(s \o <<n>>) = Range(s) \cup {n}
    BY <2>2, <2>4, <2>7, <2>8, LineGrows
  <2>10. 1 .. n = (1 .. sent[t]) \cup {n}
    BY <2>2
  <2>11. sent'[t] = n
    BY <2>1, <2>2
  <2>12. Ordered(t)'
    BY <2>1, <2>5, <2>7, <2>9, <2>10, <2>11 DEF Ordered
  <2>13. ASSUME NEW o \in Tracks, o # t PROVE Ordered(o)'
    <3>1. sent'[o] = sent[o]
      BY <2>1, <2>2, <2>13
    <3>2. Arriving(o)' = Arriving(o)
      BY <2>1, <2>13 DEF Arriving
    <3> QED BY <2>1, <3>1, <3>2, OthersRest
  <2>14. Queues'
    BY <2>1, <2>2 DEF PipeInv, Queues
  <2> QED BY <2>1, <2>12, <2>13, <2>14 DEF PipeInv, Ordered
<1>4. CASE PutPacket
  <2> DEFINE t == reader.track
  <2>1. /\ reader.at = "put" /\ reader' = At("top")
        /\ packets' = [packets EXCEPT ![t] = Append(@, sent[t])]
        /\ UNCHANGED <<inside, frames, hand, sent, played, dropped, player>>
    BY <1>4 DEF PutPacket, Push
  <2>2. \A o \in Tracks : Arriving(o)' = <<>>
    BY <2>1 DEF Arriving, At
  <2>3. \A o \in Tracks : Arriving(o) = IF o = t THEN <<sent[o]>> ELSE <<>>
    BY <2>1 DEF Arriving, PlayerTypes
  <2> HIDE DEF t
  <2>4. Queues'
    <3>1. \A o \in Tracks : Append(packets[o], sent[o]) \in Seq(Nat)
      BY DEF PipeInv, Queues
    <3>2. packets' \in [Tracks -> Seq(Nat)]
      BY <2>1, <3>1 DEF PipeInv, Queues
    <3> QED BY <2>1, <3>2 DEF PipeInv, Queues
  <2>5. ASSUME NEW o \in Tracks, o = t PROVE Ordered(o)'
    <3>1. packets'[o] = Append(packets[o], sent[o])
      BY <2>1, <2>5 DEF PipeInv, Queues
    <3>0. /\ played[o] \in Seq(Nat) /\ hand[o] \in Seq(Nat) /\ frames[o] \in Seq(Nat)
          /\ inside[o] \in Seq(Nat) /\ packets[o] \in Seq(Nat) /\ sent[o] \in Nat
      BY PieceTypes DEF PipeInv
    <3>2. Line(played[o], hand[o], frames[o], inside[o], Append(packets[o], sent[o]), <<>>)
            = Line(played[o], hand[o], frames[o], inside[o], packets[o], <<sent[o]>>)
      <4> DEFINE n == sent[o]
                 p == played[o]
                 h == hand[o]
                 fs == frames[o]
                 i == inside[o]
                 k == packets[o]
      <4>1. /\ p \in Seq(Nat) /\ h \in Seq(Nat) /\ fs \in Seq(Nat)
            /\ i \in Seq(Nat) /\ k \in Seq(Nat) /\ n \in Nat
        BY <3>0
      <4> HIDE DEF n, p, h, fs, i, k
      <4>2. Line(p, h, fs, i, Append(k, n), <<>>) = Line(p, h, fs, i, k, <<n>>)
        BY <4>1, PacketQueued
      <4> QED BY <4>2 DEF n, p, h, fs, i, k
    <3>3. Pipe(o)' = Pipe(o)
      BY <2>1, <2>2, <2>3, <2>5, <3>1, <3>2, PipeIsLine
    <3> QED BY <2>1, <3>3, LineRests DEF PipeInv, Ordered
  <2>6. ASSUME NEW o \in Tracks, o # t PROVE Ordered(o)'
    <3>1. packets'[o] = packets[o]
      BY <2>1, <2>6 DEF PipeInv, Queues
    <3> QED BY <2>1, <2>2, <2>3, <2>6, <3>1, OthersRest
  <2> QED BY <2>1, <2>4, <2>5, <2>6 DEF PipeInv, Ordered
<1> QED BY <1>2, <1>3, <1>4 DEF ReaderWorks, ReaderWaits

LEMMA DecoderKeepsOrder ==
  ASSUME PipeInv, PInv, NEW t \in Tracks, DecoderWorks(t)
  PROVE  PipeInv'
<1>1. CASE DecoderLoop(t)
  BY <1>1, QueuesRest, OthersRest DEF DecoderLoop, PipeInv, pipeVars, Arriving, Ordered
<1>2. CASE SendPacket(t)
  <2>0. /\ played[t] \in Seq(Nat) /\ hand[t] \in Seq(Nat) /\ frames[t] \in Seq(Nat)
        /\ inside[t] \in Seq(Nat) /\ packets[t] \in Seq(Nat)
    BY PieceTypes DEF PipeInv
  <2> DEFINE x == Head(packets[t])
  <2>1. /\ UNCHANGED <<reader, player, frames, hand, sent, played>>
        /\ packets' = [packets EXCEPT ![t] = Tail(packets[t])]
        /\ \/ inside' = [inside EXCEPT ![t] = Append(inside[t], x)] /\ dropped' = dropped
           \/ dropped' = [dropped EXCEPT ![t] = dropped[t] \cup {x}] /\ inside' = inside
    BY <1>2 DEF SendPacket, Pop
  <2>2. packets[t] # <<>> /\ packets[t] \in Seq(Nat)
    BY <1>2 DEF SendPacket, PInv, PopsFind, PipeInv, Queues
  <2>3. x \in Nat /\ Tail(packets[t]) \in Seq(Nat)
    BY <2>2, HeadTail
  <2>4. \A o \in Tracks : Arriving(o)' = Arriving(o)
    BY <2>1 DEF Arriving
  <2> HIDE DEF x
  <2>5. Queues'
    <3>1. Append(inside[t], x) \in Seq(Nat)
      BY <2>0, <2>3
    <3>2. packets' \in [Tracks -> Seq(Nat)]
      BY <2>1, <2>3 DEF PipeInv, Queues
    <3>3. inside' \in [Tracks -> Seq(Nat)] /\ dropped' \in [Tracks -> SUBSET Nat]
      BY <2>1, <2>3, <3>1 DEF PipeInv, Queues
    <3> QED BY <2>1, <3>2, <3>3 DEF PipeInv, Queues
  <2>6. packets'[t] = Tail(packets[t]) /\ \A o \in Tracks \ {t} : UNCHANGED <<packets[o], inside[o], dropped[o]>>
    BY <2>1 DEF PipeInv, Queues
  <2>7. Ordered(t)'
    <3>1. CASE inside' = [inside EXCEPT ![t] = Append(inside[t], x)] /\ dropped' = dropped
      <4>1. inside'[t] = Append(inside[t], x)
        BY <3>1 DEF PipeInv, Queues
      <4>2. Line(played[t], hand[t], frames[t], Append(inside[t], x), Tail(packets[t]), Arriving(t))
              = Line(played[t], hand[t], frames[t], inside[t], packets[t], Arriving(t))
        BY <2>0, <2>2, PacketDecoded, SMTT(30) DEF x
      <4>3. Pipe(t)' = Pipe(t)
        BY <2>1, <2>4, <2>6, <4>1, <4>2, PipeIsLine
      <4> QED BY <2>1, <3>1, <4>3, LineRests DEF PipeInv, Ordered
    <3>2. CASE dropped' = [dropped EXCEPT ![t] = dropped[t] \cup {x}] /\ inside' = inside
      <4>1. dropped'[t] = dropped[t] \cup {x}
        BY <3>2 DEF PipeInv, Queues
      <4>2. TakenOut(Line(played[t], hand[t], frames[t], inside[t], Tail(packets[t]), Arriving(t)), x,
                     Line(played[t], hand[t], frames[t], inside[t], packets[t], Arriving(t)))
        BY <2>2, PieceTypes, LineLoses DEF PipeInv, x
      <4>3. TakenOut(Pipe(t)', x, Pipe(t))
        BY <2>1, <2>4, <2>6, <3>2, <4>2, PipeIsLine
      <4> QED BY <2>1, <4>1, <4>3, LineLess DEF PipeInv, Ordered
    <3> QED BY <2>1, <3>1, <3>2
  <2>8. ASSUME NEW o \in Tracks, o # t PROVE Ordered(o)'
    BY <2>1, <2>4, <2>6, <2>8, OthersRest
  <2> QED BY <2>1, <2>5, <2>7, <2>8 DEF PipeInv, Ordered
<1>3. CASE ReceiveFrame(t)
  <2>0. /\ played[t] \in Seq(Nat) /\ hand[t] \in Seq(Nat) /\ frames[t] \in Seq(Nat)
        /\ inside[t] \in Seq(Nat) /\ packets[t] \in Seq(Nat)
    BY PieceTypes DEF PipeInv
  <2> DEFINE x == Head(inside[t])
  <2>1. CASE UNCHANGED <<inside, frames, dropped>>
    BY <1>3, <2>1, QueuesRest, OthersRest DEF ReceiveFrame, PipeInv, pipeVars, Arriving, Ordered
  <2>2. CASE ~UNCHANGED <<inside, frames, dropped>>
    <3>1. /\ UNCHANGED <<reader, player, packets, hand, sent, played>>
          /\ inside[t] # <<>> /\ inside' = [inside EXCEPT ![t] = Tail(inside[t])]
          /\ \/ frames' = [frames EXCEPT ![t] = Append(frames[t], x)] /\ dropped' = dropped
             \/ dropped' = [dropped EXCEPT ![t] = dropped[t] \cup {x}] /\ frames' = frames
      BY <1>3, <2>2 DEF ReceiveFrame, Convert, Push
    <3>2. x \in Nat /\ Tail(inside[t]) \in Seq(Nat)
      BY <3>1, HeadTail DEF PipeInv, Queues
    <3>3. \A o \in Tracks : Arriving(o)' = Arriving(o)
      BY <3>1 DEF Arriving
    <3> HIDE DEF x
    <3>4. Queues'
      <4>1. Append(frames[t], x) \in Seq(Nat)
        BY <2>0, <3>2
      <4>2. inside' \in [Tracks -> Seq(Nat)]
        BY <3>1, <3>2 DEF PipeInv, Queues
      <4>3. frames' \in [Tracks -> Seq(Nat)] /\ dropped' \in [Tracks -> SUBSET Nat]
        BY <3>1, <3>2, <4>1 DEF PipeInv, Queues
      <4> QED BY <3>1, <4>2, <4>3 DEF PipeInv, Queues
    <3>5. inside'[t] = Tail(inside[t]) /\ \A o \in Tracks \ {t} : UNCHANGED <<inside[o], frames[o], dropped[o]>>
      BY <3>1 DEF PipeInv, Queues
    <3>6. Ordered(t)'
      <4>1. CASE frames' = [frames EXCEPT ![t] = Append(frames[t], x)] /\ dropped' = dropped
        <5>1. frames'[t] = Append(frames[t], x)
          BY <4>1 DEF PipeInv, Queues
        <5>2. Line(played[t], hand[t], Append(frames[t], x), Tail(inside[t]), packets[t], Arriving(t))
                = Line(played[t], hand[t], frames[t], inside[t], packets[t], Arriving(t))
          BY <2>0, <3>1, FrameMade DEF x
        <5>3. Pipe(t)' = Pipe(t)
          BY <3>1, <3>3, <3>5, <5>1, <5>2, PipeIsLine
        <5> QED BY <3>1, <4>1, <5>3, LineRests DEF PipeInv, Ordered
      <4>2. CASE dropped' = [dropped EXCEPT ![t] = dropped[t] \cup {x}] /\ frames' = frames
        <5>1. dropped'[t] = dropped[t] \cup {x}
          BY <4>2 DEF PipeInv, Queues
        <5>2. TakenOut(Line(played[t], hand[t], frames[t], Tail(inside[t]), packets[t], Arriving(t)), x,
                       Line(played[t], hand[t], frames[t], inside[t], packets[t], Arriving(t)))
          BY <3>1, PieceTypes, LineLoses DEF PipeInv, x
        <5>3. TakenOut(Pipe(t)', x, Pipe(t))
          BY <3>1, <3>3, <3>5, <4>2, <5>2, PipeIsLine
        <5> QED BY <3>1, <5>1, <5>3, LineLess DEF PipeInv, Ordered
      <4> QED BY <3>1, <4>1, <4>2
    <3>7. ASSUME NEW o \in Tracks, o # t PROVE Ordered(o)'
      BY <3>1, <3>3, <3>5, <3>7, OthersRest
    <3> QED BY <3>1, <3>4, <3>6, <3>7 DEF PipeInv, Ordered
  <2> QED BY <2>1, <2>2
<1> QED BY <1>1, <1>2, <1>3 DEF DecoderWorks

LEMMA PlayersKeepOrder ==
  ASSUME PipeInv, PInv, NEW t \in Tracks, PlayerWorks(t)
  PROVE  PipeInv'
<1>1. CASE PlayLoop(t)
  <2>1. UNCHANGED <<pipeVars, reader>> /\ player[t] = "top" /\ player \in [Tracks -> {"none", "top", "pop", "held", "done"}]
        /\ \E at : player' = [player EXCEPT ![t] = at]
    BY <1>1 DEF PlayLoop, PInv, PlayerTypes
  <2>2. \A o \in Tracks : player'[o] # "held" => hand[o] = <<>>
    BY <2>1 DEF PipeInv
  <2>3. \A o \in Tracks : Ordered(o)'
    BY <2>1, OthersRest DEF pipeVars, Arriving
  <2> QED BY <2>1, <2>2, <2>3, QueuesRest DEF PipeInv, Ordered, pipeVars
<1>2. CASE PlayPop(t)
  <2>0. /\ played[t] \in Seq(Nat) /\ hand[t] \in Seq(Nat) /\ frames[t] \in Seq(Nat)
        /\ inside[t] \in Seq(Nat) /\ packets[t] \in Seq(Nat)
    BY PieceTypes DEF PipeInv
  <2>1. /\ UNCHANGED <<reader, packets, inside, sent, played, dropped>>
        /\ hand' = [hand EXCEPT ![t] = <<Head(frames[t])>>]
        /\ frames' = [frames EXCEPT ![t] = Tail(frames[t])]
        /\ player[t] = "pop" /\ player' = [player EXCEPT ![t] = "held"]
    BY <1>2 DEF PlayPop, Pop
  <2>2. frames[t] # <<>> /\ hand[t] = <<>> /\ frames[t] \in Seq(Nat)
    BY <2>1 DEF PInv, PopsFind, PipeInv, Queues
  <2>3. <<Head(frames[t])>> \in Seq(Nat) /\ Tail(frames[t]) \in Seq(Nat)
    BY <2>2, HeadTail
  <2>4. Queues'
    BY <2>1, <2>3 DEF PipeInv, Queues
  <2>5. \A o \in Tracks : Arriving(o)' = Arriving(o)
    BY <2>1 DEF Arriving
  <2>6. hand'[t] = <<Head(frames[t])>> /\ frames'[t] = Tail(frames[t])
        /\ \A o \in Tracks \ {t} : UNCHANGED <<hand[o], frames[o], player[o]>>
    BY <2>1 DEF PipeInv, Queues, PInv, PlayerTypes
  <2>7. Ordered(t)'
    <3>1. Line(played[t], <<Head(frames[t])>>, Tail(frames[t]), inside[t], packets[t], Arriving(t))
            = Line(played[t], <<>>, frames[t], inside[t], packets[t], Arriving(t))
      BY <2>2, <2>0, FramePopped
    <3>2. Pipe(t)' = Pipe(t)
      BY <2>1, <2>2, <2>5, <2>6, <3>1, PipeIsLine
    <3> QED BY <2>1, <3>2, LineRests DEF PipeInv, Ordered
  <2>8. ASSUME NEW o \in Tracks, o # t PROVE Ordered(o)'
    BY <2>1, <2>5, <2>6, <2>8, OthersRest
  <2>9. \A o \in Tracks : player'[o] # "held" => hand'[o] = <<>>
    BY <2>1, <2>6 DEF PipeInv, PInv, PlayerTypes
  <2> QED BY <2>4, <2>7, <2>8, <2>9 DEF PipeInv, Ordered
<1>3. CASE PlayFrame(t)
  <2>0. /\ played[t] \in Seq(Nat) /\ hand[t] \in Seq(Nat) /\ frames[t] \in Seq(Nat)
        /\ inside[t] \in Seq(Nat) /\ packets[t] \in Seq(Nat)
    BY PieceTypes DEF PipeInv
  <2>1. /\ UNCHANGED <<reader, packets, inside, sent, frames, dropped>>
        /\ played' = [played EXCEPT ![t] = played[t] \o hand[t]]
        /\ hand' = [hand EXCEPT ![t] = <<>>]
        /\ player[t] = "held" /\ player' = [player EXCEPT ![t] = "top"]
    BY <1>3 DEF PlayFrame
  <2>2. played[t] \o hand[t] \in Seq(Nat) /\ <<>> \in Seq(Nat)
    BY Cat DEF PipeInv, Queues
  <2>3. Queues'
    BY <2>1, <2>2 DEF PipeInv, Queues
  <2>4. \A o \in Tracks : Arriving(o)' = Arriving(o)
    BY <2>1 DEF Arriving
  <2>5. hand'[t] = <<>> /\ played'[t] = played[t] \o hand[t]
        /\ \A o \in Tracks \ {t} : UNCHANGED <<hand[o], played[o], player[o]>>
    BY <2>1 DEF PipeInv, Queues, PInv, PlayerTypes
  <2>6. Ordered(t)'
    <3>1. Line(played[t] \o hand[t], <<>>, frames[t], inside[t], packets[t], Arriving(t))
            = Line(played[t], hand[t], frames[t], inside[t], packets[t], Arriving(t))
      BY <2>0, FramePlayed
    <3>2. Pipe(t)' = Pipe(t)
      BY <2>1, <2>4, <2>5, <3>1, PipeIsLine
    <3> QED BY <2>1, <3>2, LineRests DEF PipeInv, Ordered
  <2>7. ASSUME NEW o \in Tracks, o # t PROVE Ordered(o)'
    BY <2>1, <2>4, <2>5, <2>7, OthersRest
  <2>8. \A o \in Tracks : player'[o] # "held" => hand'[o] = <<>>
    BY <2>5 DEF PipeInv
  <2> QED BY <2>3, <2>6, <2>7, <2>8 DEF PipeInv, Ordered
<1> QED BY <1>1, <1>2, <1>3 DEF PlayerWorks

LEMMA OwnerKeepsOrder ==
  ASSUME PipeInv, PInv, OpenPlayer \/ CloseStarts \/ OwnerWorks
  PROVE  PipeInv'
<1>1. UNCHANGED pipeVars
  BY DEF OpenPlayer, CloseStarts, OwnerWorks, JoinPlayers, CloseInput, DecodersGone, JoinDecoder
<1>2. \A t \in Tracks : UNCHANGED Arriving(t)
  BY <1>1 DEF OpenPlayer, CloseStarts, OwnerWorks, JoinPlayers, CloseInput, DecodersGone, JoinDecoder,
              Arriving, At, PInv, PlayerJoins, pipeVars
<1>3. \A t \in Tracks : player'[t] # "held" => hand[t] = <<>>
  BY DEF OpenPlayer, CloseStarts, OwnerWorks, JoinPlayers, CloseInput, DecodersGone, JoinDecoder,
         PInv, PlayerJoins, PipeInv
<1>4. \A t \in Tracks : Ordered(t)'
  BY <1>1, <1>2, OthersRest DEF pipeVars
<1> QED BY <1>1, <1>3, <1>4, QueuesRest DEF PipeInv, Ordered, pipeVars

LEMMA PlayerStep ==
  ASSUME PInv, PipeInv, [PlayerNext]_playerVars
  PROVE  PInv' /\ PipeInv'
<1>1. CASE UNCHANGED playerVars
  <2>1. PInv'
    BY <1>1 DEF playerVars, PInv, PlayerTypes, PlayerJoins, ReaderHolds, PopsFind
  <2>2. \A t \in Tracks : Ordered(t)'
    BY <1>1, OthersRest DEF playerVars, Arriving
  <2> QED BY <1>1, <2>1, <2>2, QueuesRest DEF PipeInv, Ordered, playerVars, pipeVars
<1>2. CASE OpenPlayer \/ CloseStarts \/ OwnerWorks
  BY <1>2, OwnerKeepsTypes, OwnerKeepsOrder
<1>3. CASE ReaderWorks \/ ReaderWaits
  BY <1>3, ReaderKeepsTypes, ReaderKeepsOrder DEF PInv, PipeInv
<1>4. ASSUME NEW t \in Tracks, DecoderWorks(t) PROVE PInv' /\ PipeInv'
  BY <1>4, DecoderKeepsTypes, DecoderKeepsOrder DEF PipeInv
<1>5. ASSUME NEW t \in Tracks, PlayerWorks(t) PROVE PInv' /\ PipeInv'
  BY <1>5, PlayersKeepTypes, PlayersKeepOrder DEF PipeInv
<1> QED BY <1>1, <1>2, <1>3, <1>4, <1>5 DEF PlayerNext

LEMMA PlayerStarts == PlayerInit => PInv /\ PipeInv
<1> SUFFICES ASSUME PlayerInit PROVE PInv /\ PipeInv
  OBVIOUS
<1>1. PInv
  BY DEF PlayerInit, PInv, PlayerTypes, PlayerJoins, ReaderHolds, PopsFind, At, Reading, Fetching
<1>2. <<>> \in Seq(Nat)
  OBVIOUS
<1>3. Queues
  BY <1>2 DEF PlayerInit, Queues, Empty
<1>4. ASSUME NEW t \in Tracks
      PROVE  Pipe(t) = <<>> /\ hand[t] = <<>> /\ dropped[t] = {} /\ sent[t] = 0
  <2>1. played[t] = <<>> /\ hand[t] = <<>> /\ frames[t] = <<>> /\ inside[t] = <<>> /\ packets[t] = <<>>
        /\ Arriving(t) = <<>> /\ dropped[t] = {} /\ sent[t] = 0
    BY DEF PlayerInit, Empty, Arriving, At
  <2>2. <<>> \o <<>> = <<>>
    BY <1>2, ConcatEmptySeq
  <2>3. Line(<<>>, <<>>, <<>>, <<>>, <<>>, <<>>) = <<>>
    BY <2>2 DEF Line
  <2> QED BY <2>1, <2>3, PipeIsLine
<1>5. Ascending(<<>>) /\ Range(<<>>) = {} /\ 1 .. 0 = {}
  BY DEF Ascending, Range
<1> QED BY <1>1, <1>3, <1>4, <1>5 DEF PipeInv

\* What the invariant says of the order is what is meant: one after the other.
LEMMA AscendingIsOrder ==
  ASSUME PipeInv
  PROVE  PlaysInOrder
<1> SUFFICES ASSUME NEW t \in Tracks, NEW i \in 1 .. Len(Pipe(t)) - 1
             PROVE  Pipe(t)[i] < Pipe(t)[i + 1]
  BY DEF PlaysInOrder, PipeInv
<1> DEFINE s == Pipe(t)
           n == Len(s)
<1>1. s \in Seq(Nat)
  <2>1. played[t] \o hand[t] \o frames[t] \o inside[t] \o packets[t] \in Seq(Nat) /\ Arriving(t) \in Seq(Nat)
    BY PieceTypes, LineIsSeq DEF PipeInv
  <2> QED BY <2>1, PipeIsLine, Cat DEF Line
<1>2. Ascending(s)
  BY DEF PipeInv
<1> HIDE DEF s
<1>3. n \in Nat
  BY <1>1, LenProperties
<1> HIDE DEF n
<1>4. i \in 1 .. n /\ i + 1 \in 1 .. n /\ i < i + 1
  BY <1>3 DEF n, s
<1>5. s[i] < s[i + 1]
  BY <1>2, <1>4 DEF Ascending, n
<1> QED BY <1>5 DEF s

-----------------------------------------------------------------------------
(* The capture's threads stay apart *)

LEMMA CaptureStarts == CaptureInit => CaptureInv
BY DEF CaptureInit, CaptureInv

LEMMA CaptureThreads ==
  ASSUME CaptureInv, [CaptureNext]_captureVars
  PROVE  CaptureInv'
<1> USE DEF CaptureInv
<1>1. CASE UNCHANGED captureVars
  BY <1>1 DEF captureVars
<1>2. ASSUME NEW ok \in BOOLEAN, InitScreen(ok) \/ InitAudio(ok) PROVE CaptureInv'
  BY <1>2 DEF InitScreen, InitAudio
<1>3. ASSUME NEW ok \in BOOLEAN, StartCapture(ok) \/ StartEncoders(ok) PROVE CaptureInv'
  BY <1>3 DEF StartCapture, StartEncoders
<1>4. CASE CloseCapture \/ ManagerWorks
  BY <1>4 DEF CloseCapture, ManagerWorks, JoinEncoders, JoinWasapi, JoinScreen, CloseScreen
<1>5. CASE WasapiLoop \/ ScreenWorks
  BY <1>5 DEF WasapiLoop, ScreenWorks, ScreenLoop, ScreenGrab
<1>6. ASSUME NEW n \in 1 .. MaxSamples, WasapiWrite(n) PROVE CaptureInv'
  <2>1. wasapi = "write" /\ wasapi' \in {"top", "write", "done"}
        /\ UNCHANGED <<manager, screen, audio, video, grabber, recorder>>
    BY <1>6 DEF WasapiWrite
  <2> QED BY <2>1
<1>7. CASE AudioWorks \/ VideoWorks
  BY <1>7 DEF AudioWorks, AudioLoop, AudioRead, VideoWorks, VideoLoop, VideoRead
<1> QED BY <1>1, <1>2, <1>3, <1>4, <1>5, <1>6, <1>7 DEF CaptureNext

-----------------------------------------------------------------------------
(* Whole samples *)

LEMMA Divides ==
  ASSUME NEW i \in Nat
  PROVE  /\ i \div BlockAlign \in Nat /\ i % BlockAlign \in 0 .. BlockAlign - 1
         /\ i = BlockAlign * (i \div BlockAlign) + (i % BlockAlign)
<1>1. i \div BlockAlign \in Nat
  BY BufferAssumption
<1>2. i % BlockAlign \in 0 .. BlockAlign - 1
  BY BufferAssumption
<1>3. i % BlockAlign = i - BlockAlign * (i \div BlockAlign)
  BY BufferAssumption
<1> DEFINE q == i \div BlockAlign
           r == i % BlockAlign
<1>4. q \in Nat /\ r \in 0 .. BlockAlign - 1 /\ r = i - BlockAlign * q
  BY <1>1, <1>2, <1>3
<1> HIDE DEF q, r
<1>5. i = BlockAlign * q + r
  BY <1>4, BufferAssumption
<1> QED BY <1>1, <1>2, <1>5 DEF q, r

LEMMA Divided ==
  ASSUME NEW i \in Nat, NEW q \in Nat, NEW r \in 0 .. BlockAlign - 1, i = BlockAlign * q + r
  PROVE  i \div BlockAlign = q /\ i % BlockAlign = r
<1>1. i \div BlockAlign = q
  BY BufferAssumption
<1>2. i % BlockAlign = r
  BY BufferAssumption
<1> QED BY <1>1, <1>2

\* More factors make a larger product.
LEMMA Larger ==
  ASSUME NEW q \in Nat, NEW p \in Nat, q < p
  PROVE  BlockAlign * q + BlockAlign <= BlockAlign * p
<1>1. PICK d \in Nat : p = q + 1 + d
  <2>1. p - q - 1 \in Nat /\ p = q + 1 + (p - q - 1)
    OBVIOUS
  <2> QED BY <2>1
<1>2. BlockAlign * d >= 0
  BY BufferAssumption
<1>3. BlockAlign * (q + 1 + d) = BlockAlign * q + BlockAlign + BlockAlign * d
  BY BufferAssumption
<1> QED BY <1>1, <1>2, <1>3, BufferAssumption

LEMMA WholeSum ==
  ASSUME NEW a \in Nat, NEW b \in Nat, a % BlockAlign = 0
  PROVE  (a + b) % BlockAlign = b % BlockAlign
<1> DEFINE q == a \div BlockAlign
           p == b \div BlockAlign
           r == b % BlockAlign
<1>1. /\ q \in Nat /\ p \in Nat /\ r \in 0 .. BlockAlign - 1
      /\ a = BlockAlign * q /\ b = BlockAlign * p + r
  BY Divides, BufferAssumption
<1> HIDE DEF q, p, r
<1>2. a + b = BlockAlign * (q + p) + r
  BY <1>1, BufferAssumption
<1>3. q + p \in Nat /\ a + b \in Nat
  BY <1>1
<1>4. (a + b) % BlockAlign = r
  BY <1>1, <1>2, <1>3, Divided
<1> QED BY <1>4 DEF r

LEMMA WholeDifference ==
  ASSUME NEW a \in Nat, NEW b \in Nat, a % BlockAlign = 0, b % BlockAlign = 0, b <= a
  PROVE  (a - b) % BlockAlign = 0
<1> DEFINE q == a \div BlockAlign
           p == b \div BlockAlign
<1>1. q \in Nat /\ p \in Nat /\ a = BlockAlign * q /\ b = BlockAlign * p
  BY Divides, BufferAssumption
<1> HIDE DEF q, p
<1>2. p <= q
  BY <1>1, Larger, BufferAssumption
<1>3. a - b = BlockAlign * (q - p) + 0 /\ q - p \in Nat /\ a - b \in Nat
  BY <1>1, <1>2, BufferAssumption
<1> QED BY <1>3, Divided, BufferAssumption

LEMMA Multiple ==
  ASSUME NEW n \in Nat
  PROVE  n * BlockAlign \in Nat /\ (n * BlockAlign) % BlockAlign = 0
<1>1. n * BlockAlign = BlockAlign * n + 0 /\ n * BlockAlign \in Nat
  BY BufferAssumption
<1> QED BY <1>1, Divided, BufferAssumption

\* The next byte is in the same sample, or the first one of the next.
LEMMA NextByte ==
  ASSUME NEW i \in Nat
  PROVE  \/ (i + 1) \div BlockAlign = i \div BlockAlign /\ (i + 1) % BlockAlign = (i % BlockAlign) + 1
         \/ (i + 1) \div BlockAlign = i \div BlockAlign + 1 /\ (i + 1) % BlockAlign = 0
<1> DEFINE q == i \div BlockAlign
           r == i % BlockAlign
<1>1. q \in Nat /\ r \in 0 .. BlockAlign - 1 /\ i = BlockAlign * q + r
  BY Divides
<1> HIDE DEF q, r
<1>2. CASE r = BlockAlign - 1
  <2>1. i + 1 = BlockAlign * (q + 1) + 0 /\ q + 1 \in Nat
    BY <1>1, <1>2, BufferAssumption
  <2>2. (i + 1) \div BlockAlign = q + 1 /\ (i + 1) % BlockAlign = 0
    BY <2>1, Divided, BufferAssumption
  <2> QED BY <2>2 DEF q
<1>3. CASE r # BlockAlign - 1
  <2>1. i + 1 = BlockAlign * q + (r + 1) /\ r + 1 \in 0 .. BlockAlign - 1
    BY <1>1, <1>3, BufferAssumption
  <2>2. (i + 1) \div BlockAlign = q /\ (i + 1) % BlockAlign = r + 1
    BY <1>1, <2>1, Divided
  <2> QED BY <2>2 DEF q, r
<1> QED BY <1>2, <1>3

\* The bytes of n samples are those of n numbers.
LEMMA ByteOfSample ==
  ASSUME NEW n \in Nat, NEW i \in Nat, i < n * BlockAlign
  PROVE  i \div BlockAlign < n
<1> DEFINE q == i \div BlockAlign
<1>1. q \in Nat /\ BlockAlign * q <= i
  BY Divides, BufferAssumption
<1> HIDE DEF q
<1>2. ~(n < q) /\ n # q
  BY <1>1, Larger, BufferAssumption
<1> QED BY <1>1, <1>2 DEF q

-----------------------------------------------------------------------------
(* What is captured *)

Byte == Nat \X Nat

\* The three parts of SamplesInOrder, of any sequence of bytes.
InPlace(s) == \A i \in 1 .. Len(s) : s[i][2] = (i - 1) % BlockAlign

OneByOne(s) ==
  \A i \in 1 .. Len(s) - 1 : s[i + 1] = <<s[i][1], s[i][2] + 1>> \/ (s[i + 1][1] > s[i][1] /\ s[i + 1][2] = 0)

Numbers(s) == {s[i][1] : i \in 1 .. Len(s)}

Complete(s, without, n) == OneByOne(s) /\ Numbers(s) \cup without = 1 .. n /\ (WholeSamples => InPlace(s))

LEMMA SamplesComplete ==
  ASSUME taken \o buffer \in Seq(Byte)
  PROVE  SamplesInOrder <=> Complete(taken \o buffer, lost, captured)
<1>1. DOMAIN (taken \o buffer) = 1 .. Len(taken \o buffer)
  BY LenProperties
<1> QED BY <1>1 DEF SamplesInOrder, Complete, InPlace, OneByOne, Numbers

LEMMA SamplesCompleteNext ==
  ASSUME taken' \o buffer' \in Seq(Byte)
  PROVE  SamplesInOrder' <=> Complete(taken' \o buffer', lost', captured')
<1>1. DOMAIN (taken' \o buffer') = 1 .. Len(taken' \o buffer')
  BY LenProperties
<1> QED BY <1>1 DEF SamplesInOrder, Complete, InPlace, OneByOne, Numbers

\* The i-th byte of samples that come after number c.
ByteAfter(c, i) == <<c + 1 + (i - 1) \div BlockAlign, (i - 1) % BlockAlign>>

LEMMA ByteAfterByte ==
  ASSUME NEW c \in Nat, NEW i \in Nat \ {0}
  PROVE  \/ ByteAfter(c, i + 1) = <<ByteAfter(c, i)[1], ByteAfter(c, i)[2] + 1>>
         \/ ByteAfter(c, i + 1)[1] > ByteAfter(c, i)[1] /\ ByteAfter(c, i + 1)[2] = 0
<1>1. PICK h \in Nat : i = h + 1
  <2>1. i - 1 \in Nat /\ i = (i - 1) + 1
    OBVIOUS
  <2> QED BY <2>1
<1>2. i - 1 = h /\ (i + 1) - 1 = h + 1
  BY <1>1
<1>3. PICK q \in Nat : q = h \div BlockAlign
  BY Divides
<1>7. PICK r \in Nat : r = h % BlockAlign
  <2>1. h % BlockAlign \in Nat
    BY Divides, BufferAssumption
  <2> QED BY <2>1
<1>4. PICK p, u : p = (h + 1) \div BlockAlign /\ u = (h + 1) % BlockAlign
  OBVIOUS
<1>5. (p = q /\ u = r + 1) \/ (p = q + 1 /\ u = 0)
  BY <1>3, <1>4, <1>7, NextByte
<1>6. ByteAfter(c, i) = <<c + 1 + q, r>> /\ ByteAfter(c, i + 1) = <<c + 1 + p, u>>
  BY <1>2, <1>3, <1>4, <1>7 DEF ByteAfter
<1> QED BY <1>3, <1>5, <1>6

\* k bytes of the samples after c follow those up to c.
LEMMA BytesFollow ==
  ASSUME NEW c \in Nat, NEW n \in Nat, NEW k \in Nat, k <= n * BlockAlign,
         NEW m \in Nat, WholeSamples => m % BlockAlign = 0, NEW s, NEW w, NEW o,
         Len(s) = m, Len(w) = k, Len(o) = m + k,
         \A i \in 1 .. m : o[i] = s[i] /\ s[i] \in Byte,
         \A i \in 1 .. k : o[m + i] = w[i] /\ w[i] = ByteAfter(c, i),
         NEW without, Complete(s, without, c)
  PROVE  Complete(o, without \cup ((c + 1 .. c + n) \ Numbers(w)), c + n)
<1>1. ASSUME NEW i \in 1 .. k
      PROVE  /\ w[i][1] = c + 1 + ((i - 1) \div BlockAlign) /\ w[i][2] = (i - 1) % BlockAlign
             /\ w[i][1] \in c + 1 .. c + n
             /\ m + i - 1 \in Nat
             /\ WholeSamples => (m + i - 1) % BlockAlign = (i - 1) % BlockAlign
  <2>1. i - 1 \in Nat /\ i - 1 < n * BlockAlign
    <3>1. n * BlockAlign \in Nat
      BY Multiple
    <3> QED BY <3>1
  <2>2. (i - 1) \div BlockAlign \in Nat /\ (i - 1) \div BlockAlign < n
    BY <2>1, Divides, ByteOfSample
  <2>3. w[i][1] = c + 1 + ((i - 1) \div BlockAlign) /\ w[i][2] = (i - 1) % BlockAlign
    BY DEF ByteAfter
  <2> DEFINE q == (i - 1) \div BlockAlign
  <2>4. c + 1 + q \in c + 1 .. c + n
    <3>1. q \in Nat /\ q < n
      BY <2>2
    <3> HIDE DEF q
    <3> QED BY <3>1
  <2>5. m + (i - 1) = m + i - 1 /\ (WholeSamples => (m + (i - 1)) % BlockAlign = (i - 1) % BlockAlign)
    BY <2>1, WholeSum
  <2> QED BY <2>1, <2>3, <2>4, <2>5
<1>2. ASSUME WholeSamples PROVE InPlace(o)
  <2> SUFFICES ASSUME NEW j \in 1 .. m + k PROVE o[j][2] = (j - 1) % BlockAlign
    BY DEF InPlace
  <2>1. CASE j <= m
    BY <1>2, <2>1 DEF Complete, InPlace
  <2>2. CASE j > m
    <3> DEFINE i == j - m
    <3>1. i \in 1 .. k /\ j = m + i
      BY <2>2
    <3> HIDE DEF i
    <3>2. o[j] = w[i] /\ j - 1 = m + i - 1
      BY <3>1
    <3>3. w[i][2] = (i - 1) % BlockAlign /\ (m + i - 1) % BlockAlign = (i - 1) % BlockAlign
      BY <1>1, <1>2, <3>1, Zenon
    <3> QED BY <3>2, <3>3
  <2> QED BY <2>1, <2>2
<1>3. OneByOne(o)
  <2> SUFFICES ASSUME NEW j \in 1 .. m + k - 1
               PROVE  o[j + 1] = <<o[j][1], o[j][2] + 1>> \/ (o[j + 1][1] > o[j][1] /\ o[j + 1][2] = 0)
    <3>1. Len(o) - 1 = m + k - 1
      OBVIOUS
    <3> QED BY <3>1, Zenon DEF OneByOne
  <2>1. CASE j + 1 <= m
    <3>1. o[j] = s[j] /\ o[j + 1] = s[j + 1] /\ j \in 1 .. Len(s) - 1
      BY <2>1
    <3>2. s[j + 1] = <<s[j][1], s[j][2] + 1>> \/ (s[j + 1][1] > s[j][1] /\ s[j + 1][2] = 0)
      BY <3>1 DEF Complete, OneByOne
    <3> QED BY <3>1, <3>2
  <2>2. CASE j = m
    <3>1. 1 \in 1 .. k /\ o[j] = s[m] /\ o[j + 1] = w[1] /\ m \in 1 .. m
      BY <2>2
    <3>2. s[m][1] \in Numbers(s)
      BY <3>1 DEF Numbers
    <3>3. s[m][1] \in 1 .. c
      BY <3>2 DEF Complete
    <3>4. w[1][1] > s[m][1]
      <4>1. \A i \in 1 .. k : w[i][1] \in c + 1 .. c + n
        BY <1>1
      <4>2. w[1][1] \in c + 1 .. c + n
        BY <3>1, <4>1, Zenon
      <4> HIDE DEF Complete
      <4>3. \A a \in 1 .. c : \A b \in c + 1 .. c + n : b > a
        OBVIOUS
      <4> QED BY <3>3, <4>2, <4>3, Zenon
    <3>5. w[1][2] = 0
      <4>1. w[1][2] = (1 - 1) % BlockAlign
        BY <1>1, <3>1
      <4>2. 1 - 1 = BlockAlign * 0 + 0 /\ 0 \in 0 .. BlockAlign - 1
        BY BufferAssumption
      <4> QED BY <4>1, <4>2, Divided
    <3> QED BY <3>1, <3>4, <3>5
  <2>3. CASE j > m
    <3>1. PICK i \in 1 .. k : i + 1 \in 1 .. k /\ j = m + i /\ j + 1 = m + (i + 1)
      <4>1. j - m \in 1 .. k /\ (j - m) + 1 \in 1 .. k /\ j = m + (j - m) /\ j + 1 = m + ((j - m) + 1)
        BY <2>3
      <4> QED BY <4>1
    <3>2. o[j] = w[i] /\ o[j + 1] = w[i + 1]
      BY <3>1
    <3>3. w[i] = ByteAfter(c, i) /\ w[i + 1] = ByteAfter(c, i + 1) /\ i \in Nat \ {0}
      BY <3>1
    <3>4. \/ ByteAfter(c, i + 1) = <<ByteAfter(c, i)[1], ByteAfter(c, i)[2] + 1>>
          \/ ByteAfter(c, i + 1)[1] > ByteAfter(c, i)[1] /\ ByteAfter(c, i + 1)[2] = 0
      BY <3>3, ByteAfterByte
    <3>5. o[j] = ByteAfter(c, i) /\ o[j + 1] = ByteAfter(c, i + 1)
      BY <3>2, <3>3
    <3> QED BY <3>4, <3>5, Zenon
  <2> QED BY <2>1, <2>2, <2>3
<1>4. Numbers(o) = Numbers(s) \cup Numbers(w)
  <2>1. \A j \in 1 .. m + k : o[j][1] \in Numbers(s) \cup Numbers(w)
    <3> TAKE j \in 1 .. m + k
    <3>1. CASE j <= m
      BY <3>1 DEF Numbers
    <3>2. CASE j > m
      <4>0. j - m \in 1 .. k /\ m + (j - m) = j
        BY <3>2
      <4>1. j - m \in 1 .. k /\ o[j] = w[j - m]
        BY <4>0
      <4> QED BY <4>1 DEF Numbers
    <3> QED BY <3>1, <3>2
  <2>2. \A i \in 1 .. m : s[i][1] \in Numbers(o)
    <3> TAKE i \in 1 .. m
    <3>1. i \in 1 .. m + k /\ o[i] = s[i]
      OBVIOUS
    <3> QED BY <3>1 DEF Numbers
  <2>3. \A i \in 1 .. k : w[i][1] \in Numbers(o)
    <3> TAKE i \in 1 .. k
    <3>1. m + i \in 1 .. m + k
      OBVIOUS
    <3>2. o[m + i] = w[i]
      OBVIOUS
    <3> QED BY <3>1, <3>2 DEF Numbers
  <2>4. Numbers(s) \subseteq Numbers(o) /\ Numbers(w) \subseteq Numbers(o)
    BY <2>2, <2>3 DEF Numbers
  <2>5. Numbers(o) \subseteq Numbers(s) \cup Numbers(w)
    <3> SUFFICES ASSUME NEW y \in Numbers(o) PROVE y \in Numbers(s) \cup Numbers(w)
      OBVIOUS
    <3>1. PICK j \in 1 .. m + k : y = o[j][1]
      BY DEF Numbers
    <3> QED BY <2>1, <3>1
  <2> QED BY <2>4, <2>5
<1>5. Numbers(w) \subseteq c + 1 .. c + n
  BY <1>1 DEF Numbers
<1>6. (1 .. c) \cup (c + 1 .. c + n) = 1 .. c + n
  OBVIOUS
<1> QED BY <1>2, <1>3, <1>4, <1>5, <1>6 DEF Complete

LEMMA ByteCat ==
  \A s1, s2 \in Seq(Byte) :
    /\ s1 \o s2 \in Seq(Byte) /\ Len(s1 \o s2) = Len(s1) + Len(s2)
    /\ \A i \in 1 .. Len(s1) + Len(s2) : (s1 \o s2)[i] = IF i <= Len(s1) THEN s1[i] ELSE s2[i - Len(s1)]
BY ConcatProperties

LEMMA ByteCatAssociative == \A s1, s2, s3 \in Seq(Byte) : Associate(s1, s2, s3)
BY Associates, Zenon

\* What fits of n samples: the first bytes of them, whole samples, and no more than there is room for.
LEMMA WhatFits ==
  ASSUME NEW c \in Nat, NEW n \in Nat, buffer \in Seq(Byte), Len(buffer) <= BufferSize,
         WholeSamples => Len(buffer) % BlockAlign = 0
  PROVE  LET w == Fits(Bytes(c + 1, n))
         IN  /\ w \in Seq(Byte) /\ Len(w) <= n * BlockAlign /\ Len(buffer) + Len(w) <= BufferSize
             /\ WholeSamples => Len(w) % BlockAlign = 0
             /\ \A i \in 1 .. Len(w) : w[i] = ByteAfter(c, i)
<1> DEFINE b == Bytes(c + 1, n)
           room == BufferSize - Len(buffer)
           k == Min({Len(b), room})
           w == Fits(b)
<1>1. n * BlockAlign \in Nat /\ (n * BlockAlign) % BlockAlign = 0
  BY Multiple
<1>2. ASSUME NEW i \in 1 .. n * BlockAlign
      PROVE  b[i] = ByteAfter(c, i) /\ b[i] \in Byte
  <2>1. i - 1 \in Nat
    BY <1>1
  <2>2. (i - 1) \div BlockAlign \in Nat
    BY <2>1, Divides
  <2>3. (i - 1) % BlockAlign \in Nat
    BY <2>1, BufferAssumption
  <2>4. b[i] = ByteAfter(c, i)
    BY DEF Bytes, ByteAfter
  <2>5. ByteAfter(c, i) \in Byte
    BY <2>2, <2>3 DEF ByteAfter, Byte
  <2> QED BY <2>4, <2>5
<1>3. Len(b) = n * BlockAlign
  BY <1>1 DEF Bytes
<1>4. room \in Nat /\ (WholeSamples => room % BlockAlign = 0)
  <2>1. Len(buffer) \in Nat
    BY LenProperties
  <2>2. room \in Nat
    BY <2>1, BufferAssumption
  <2> QED BY <2>1, <2>2, BufferAssumption, WholeDifference DEF WholeSamples
<1> HIDE DEF b, room
<1>5. k \in {Len(b), room} /\ k <= Len(b) /\ k <= room
  <2>1. \E x \in {Len(b), room} : \A y \in {Len(b), room} : x <= y
    <3>1. CASE Len(b) <= room
      BY <1>1, <1>3, <1>4, <3>1
    <3>2. CASE room <= Len(b)
      BY <1>1, <1>3, <1>4, <3>2
    <3> QED BY <1>1, <1>3, <1>4, <3>1, <3>2
  <2> QED BY <2>1 DEF Min
<1> HIDE DEF k
<1>6. k \in Nat /\ (WholeSamples => k % BlockAlign = 0) /\ k <= n * BlockAlign
  BY <1>1, <1>3, <1>4, <1>5
<1>7. w = SubSeq(b, 1, k)
  BY DEF Fits, k, room
<1> HIDE DEF w
<1>8. /\ w \in Seq(Byte) /\ Len(w) = IF 1 <= k THEN k - 1 + 1 ELSE 0
      /\ \A i \in 1 .. k - 1 + 1 : w[i] = b[1 + i - 1]
  <2>1. \A i \in 1 .. k : b[i] \in Byte
    BY <1>1, <1>2, <1>6
  <2> QED BY <1>6, <1>7, <2>1, SubSeqProperties
<1>9. Len(w) = k
  BY <1>6, <1>8
<1>10. ASSUME NEW i \in 1 .. k
       PROVE  w[i] = ByteAfter(c, i)
  <2>1. i \in 1 .. n * BlockAlign /\ 1 + i - 1 = i /\ i \in 1 .. k - 1 + 1
    BY <1>1, <1>6
  <2> QED BY <1>2, <1>8, <2>1
<1>11. Len(buffer) + k <= BufferSize
  BY <1>4, <1>5, <1>6, BufferAssumption, LenProperties DEF room
<1> QED BY <1>6, <1>8, <1>9, <1>10, <1>11 DEF w, b

LEMMA WriteKeepsOrder ==
  ASSUME BufferInv, CaptureInv, NEW n \in 1 .. MaxSamples, WasapiWrite(n)
  PROVE  BufferInv'
<1> DEFINE s == taken \o buffer
           w == Fits(Bytes(captured + 1, n))
           o == s \o w
<1>1. /\ buffer \in Seq(Byte) /\ taken \in Seq(Byte) /\ captured \in Nat /\ n \in Nat
      /\ Len(buffer) <= BufferSize /\ Len(taken) % BlockAlign = 0
      /\ WholeSamples => Len(buffer) % BlockAlign = 0
  BY SampleCounts DEF BufferInv, Byte
<1>2. /\ w \in Seq(Byte) /\ Len(w) <= n * BlockAlign /\ Len(buffer) + Len(w) <= BufferSize
      /\ WholeSamples => Len(w) % BlockAlign = 0
      /\ \A i \in 1 .. Len(w) : w[i] = ByteAfter(captured, i)
  BY <1>1, WhatFits
<1>3. /\ buffer' = buffer \o w /\ captured' = captured + n /\ UNCHANGED <<taken, manager>>
      /\ wasapi = "write"
      /\ lost' = lost \cup ((captured + 1 .. captured + n) \ {w[i][1] : i \in DOMAIN w})
  BY DEF WasapiWrite
<1>4. manager \notin {"new", "audio", "start"}
  BY <1>3 DEF CaptureInv
<1> HIDE DEF w
<1>5. {w[i][1] : i \in DOMAIN w} = Numbers(w)
  BY <1>2, LenProperties DEF Numbers
<1>6. /\ buffer' \in Seq(Byte) /\ Len(buffer') = Len(buffer) + Len(w)
  BY <1>1, <1>2, <1>3, ByteCat
<1>7. WholeSamples => Len(buffer') % BlockAlign = 0
  <2>1. Len(buffer) \in Nat /\ Len(w) \in Nat
    BY <1>1, <1>2, LenProperties
  <2> QED BY <1>1, <1>2, <1>6, <2>1, WholeSum
<1>8. s \in Seq(Byte) /\ Len(s) = Len(taken) + Len(buffer)
  BY <1>1, ByteCat
<1>9. Complete(s, lost, captured)
  BY <1>8, SamplesComplete DEF BufferInv
<1>10. taken' \o buffer' = o
  <2>1. Associate(taken, buffer, w)
    BY <1>1, <1>2, ByteCatAssociative, Zenon
  <2>2. taken' \o buffer' = taken \o (buffer \o w)
    BY <1>3
  <2> QED BY <2>1, <2>2 DEF Associate
<1> HIDE DEF s
<1>11. Len(s) \in Nat /\ Len(w) \in Nat /\ (WholeSamples => Len(s) % BlockAlign = 0)
  <2>1. Len(taken) \in Nat /\ Len(buffer) \in Nat /\ Len(w) \in Nat
    BY <1>1, <1>2, LenProperties
  <2> QED BY <1>1, <1>8, <2>1, WholeSum
<1>12. /\ o \in Seq(Byte) /\ Len(o) = Len(s) + Len(w)
       /\ \A i \in 1 .. Len(s) + Len(w) : o[i] = IF i <= Len(s) THEN s[i] ELSE w[i - Len(s)]
  BY <1>2, <1>8, ByteCat
<1> HIDE DEF o
<1>13. Complete(o, lost \cup ((captured + 1 .. captured + n) \ Numbers(w)), captured + n)
  <2> DEFINE m == Len(s)
             k == Len(w)
  <2>1. m \in Nat /\ k \in Nat /\ (WholeSamples => m % BlockAlign = 0)
    BY <1>11
  <2>2. \A i \in 1 .. m : s[i] \in Byte
    BY <1>8, ElementOfSeq
  <2>3. Len(o) = m + k /\ \A i \in 1 .. m + k : o[i] = IF i <= m THEN s[i] ELSE w[i - m]
    BY <1>12
  <2>4. k <= n * BlockAlign /\ \A i \in 1 .. k : w[i] = ByteAfter(captured, i)
    BY <1>2
  <2>5. Len(s) = m /\ Len(w) = k
    OBVIOUS
  <2> HIDE DEF m, k
  <2>6. \A i \in 1 .. m : o[i] = s[i] /\ s[i] \in Byte
    BY <2>1, <2>2, <2>3
  <2>7. \A i \in 1 .. k : o[m + i] = w[i] /\ w[i] = ByteAfter(captured, i)
    <3> TAKE i \in 1 .. k
    <3>1. m + i \in 1 .. m + k /\ ~(m + i <= m) /\ m + i - m = i
      BY <2>1
    <3> DEFINE j == m + i
    <3>2. j \in 1 .. m + k /\ ~(j <= m) /\ j - m = i
      BY <2>1, <3>1
    <3> HIDE DEF j
    <3>3. o[j] = w[j - m]
      BY <2>3, <3>2
    <3>5. o[m + i] = w[i]
      BY <3>2, <3>3 DEF j
    <3>4. w[i] = ByteAfter(captured, i)
      BY <2>4
    <3> QED BY <3>4, <3>5
  <2> QED BY <1>1, <1>9, <2>1, <2>3, <2>4, <2>5, <2>6, <2>7, BytesFollow
<1>14. SamplesInOrder'
  BY <1>3, <1>5, <1>10, <1>12, <1>13, SamplesCompleteNext
<1>15. captured' \in Nat /\ Len(buffer') <= BufferSize
  BY <1>1, <1>2, <1>3, <1>6
<1> QED BY <1>1, <1>3, <1>4, <1>6, <1>7, <1>14, <1>15 DEF BufferInv, Byte

\* read takes whole samples from the front, or nothing: what was and what is left are the same bytes.
LEMMA ReadKeepsOrder ==
  ASSUME BufferInv, CaptureInv, AudioRead
  PROVE  BufferInv'
<1> DEFINE n == FrameSamples * BlockAlign
           first == SubSeq(buffer, 1, n)
           rest == SubSeq(buffer, n + 1, Len(buffer))
<1>1. /\ buffer \in Seq(Byte) /\ taken \in Seq(Byte) /\ captured \in Nat
      /\ Len(buffer) <= BufferSize /\ Len(taken) % BlockAlign = 0
      /\ WholeSamples => Len(buffer) % BlockAlign = 0
  BY DEF BufferInv, Byte
<1>2. n \in Nat /\ n % BlockAlign = 0
  BY SampleCounts, Multiple
<1>3. UNCHANGED <<manager, captured, lost>> /\ audio = "read"
  BY DEF AudioRead
<1>4. manager \notin {"new", "audio", "start"}
  BY <1>3 DEF CaptureInv
<1>5. CASE UNCHANGED <<buffer, taken>>
  BY <1>3, <1>5 DEF BufferInv, SamplesInOrder
<1>6. CASE n <= Len(buffer) /\ taken' = taken \o first /\ buffer' = rest
  <2> HIDE DEF n
  <2>1. Len(buffer) \in Nat /\ Len(taken) \in Nat
    BY <1>1, LenProperties
  <2>2. /\ 1 \in 1 .. Len(buffer) + 1 /\ n \in 1 - 1 .. Len(buffer) /\ Len(buffer) \in n .. Len(buffer)
    BY <1>2, <1>6, <2>1
  <2>3. first \o rest = SubSeq(buffer, 1, Len(buffer))
    BY <1>1, <2>2, ConcatAdjacentSubSeq
  <2>4. SubSeq(buffer, 1, Len(buffer)) = buffer
    BY <1>1, SubSeqFull
  <2>5. \A i \in 1 .. Len(buffer) : buffer[i] \in Byte
    BY <1>1, ElementOfSeq
  <2>6. first \in Seq(Byte) /\ Len(first) = IF 1 <= n THEN n - 1 + 1 ELSE 0
    <3>1. \A i \in 1 .. n : buffer[i] \in Byte
      BY <1>2, <1>6, <2>1, <2>5
    <3> QED BY <1>2, <3>1, SubSeqProperties
  <2>7. rest \in Seq(Byte) /\ Len(rest) = IF n + 1 <= Len(buffer) THEN Len(buffer) - (n + 1) + 1 ELSE 0
    <3>1. \A i \in n + 1 .. Len(buffer) : buffer[i] \in Byte
      BY <1>2, <2>1, <2>5
    <3>2. n + 1 \in Int /\ Len(buffer) \in Int
      BY <1>2, <2>1
    <3> QED BY <3>1, <3>2, SubSeqProperties
  <2> HIDE DEF first, rest
  <2>8. Len(first) = n /\ Len(rest) = Len(buffer) - n
    BY <1>2, <1>6, <2>1, <2>6, <2>7
  <2>9. taken' \o buffer' = taken \o buffer
    <3>1. taken' \o buffer' = (taken \o first) \o rest
      BY <1>6
    <3>2. (taken \o first) \o rest = taken \o (first \o rest)
      <4>1. Associate(taken, first, rest)
        BY <1>1, <2>6, <2>7, ByteCatAssociative, Zenon
      <4> QED BY <4>1 DEF Associate
    <3> QED BY <2>3, <2>4, <3>1, <3>2
  <2>10. taken' \in Seq(Byte) /\ Len(taken') = Len(taken) + n
    BY <1>1, <1>6, <2>6, <2>8, ByteCat
  <2>11. Len(taken') % BlockAlign = 0
    BY <1>1, <1>2, <2>1, <2>10, WholeSum
  <2>12. WholeSamples => Len(buffer') % BlockAlign = 0
    BY <1>1, <1>2, <1>6, <2>1, <2>8, WholeDifference
  <2>13. Len(buffer') <= BufferSize
    BY <1>1, <1>2, <1>6, <2>1, <2>8, BufferAssumption
  <2>14. SamplesInOrder'
    <3>1. taken \o buffer \in Seq(Byte)
      BY <1>1, ByteCat
    <3>2. Complete(taken \o buffer, lost, captured)
      BY <3>1, SamplesComplete DEF BufferInv
    <3> QED BY <1>3, <2>9, <3>1, <3>2, SamplesCompleteNext
  <2> QED BY <1>1, <1>3, <1>4, <1>6, <2>7, <2>10, <2>11, <2>12, <2>13, <2>14 DEF BufferInv, Byte
<1>7. UNCHANGED <<buffer, taken>> \/ (n <= Len(buffer) /\ taken' = taken \o first /\ buffer' = rest)
  <2>1. Len(buffer) \in Nat
    BY <1>1, LenProperties
  <2> QED BY <1>2, <2>1 DEF AudioRead, ReadBuffer, Retrieve
<1> QED BY <1>5, <1>6, <1>7

\* The rest leaves the samples alone, and starting the capture clears a buffer that is empty.
LEMMA OthersKeepOrder ==
  ASSUME BufferInv, UNCHANGED <<buffer, taken, captured, lost>>,
         manager' \in {"new", "audio", "start"} => manager \in {"new", "audio", "start"}
  PROVE  BufferInv'
BY DEF BufferInv, SamplesInOrder

LEMMA CaptureKeepsOrder ==
  ASSUME BufferInv, CaptureInv, [CaptureNext]_captureVars
  PROVE  BufferInv'
<1>1. CASE UNCHANGED captureVars
  BY <1>1, OthersKeepOrder DEF captureVars
<1>2. ASSUME NEW ok \in BOOLEAN, InitScreen(ok) \/ InitAudio(ok) \/ StartEncoders(ok) PROVE BufferInv'
  BY <1>2, OthersKeepOrder DEF InitScreen, InitAudio, StartEncoders, heard
<1>3. ASSUME NEW ok \in BOOLEAN, StartCapture(ok) PROVE BufferInv'
  BY <1>3, OthersKeepOrder DEF StartCapture, heard, BufferInv
<1>4. CASE CloseCapture \/ ManagerWorks
  BY <1>4, OthersKeepOrder DEF CloseCapture, ManagerWorks, JoinEncoders, JoinWasapi, JoinScreen, CloseScreen, heard
<1>5. CASE WasapiLoop \/ ScreenWorks \/ AudioLoop \/ VideoWorks
  BY <1>5, OthersKeepOrder
     DEF WasapiLoop, ScreenWorks, ScreenLoop, ScreenGrab, AudioLoop, VideoWorks, VideoLoop, VideoRead, heard
<1>6. ASSUME NEW n \in 1 .. MaxSamples, WasapiWrite(n) PROVE BufferInv'
  BY <1>6, WriteKeepsOrder
<1>7. CASE AudioRead
  BY <1>7, ReadKeepsOrder
<1> QED BY <1>1, <1>2, <1>3, <1>4, <1>5, <1>6, <1>7 DEF CaptureNext, AudioWorks

LEMMA BufferStarts == CaptureInit => BufferInv
<1> SUFFICES ASSUME CaptureInit PROVE BufferInv
  OBVIOUS
<1>1. <<>> \in Seq(Byte) /\ Len(<<>>) = 0
  OBVIOUS
<1>2. <<>> \o <<>> = <<>>
  BY ConcatEmptySeq, <1>1
<1>3. 0 % BlockAlign = 0
  BY BufferAssumption, Divided
<1>4. Complete(<<>>, {}, 0)
  BY DEF Complete, InPlace, OneByOne, Numbers
<1>5. buffer = <<>> /\ taken = <<>> /\ captured = 0 /\ lost = {}
  BY DEF CaptureInit
<1>6. SamplesInOrder
  BY <1>1, <1>2, <1>4, <1>5, SamplesComplete
<1> QED BY <1>1, <1>3, <1>5, <1>6, BufferAssumption DEF BufferInv, Byte

-----------------------------------------------------------------------------
(* The theorems *)

MediaInv == PInv /\ PipeInv /\ CaptureInv /\ BufferInv

LEMMA MediaStarts == MediaInit => MediaInv
BY PlayerStarts, CaptureStarts, BufferStarts DEF MediaInit, MediaInv

LEMMA PlayerRests ==
  ASSUME PInv, PipeInv, UNCHANGED playerVars
  PROVE  PInv' /\ PipeInv'
BY PlayerStep

LEMMA CaptureRests ==
  ASSUME CaptureInv, BufferInv, UNCHANGED captureVars
  PROVE  CaptureInv' /\ BufferInv'
BY CaptureThreads, CaptureKeepsOrder

LEMMA MediaStep == MediaInv /\ [MediaNext]_mediaVars => MediaInv'
<1> SUFFICES ASSUME MediaInv, [MediaNext]_mediaVars PROVE MediaInv'
  OBVIOUS
<1> USE DEF MediaInv
<1>1. CASE UNCHANGED mediaVars
  BY <1>1, PlayerRests, CaptureRests DEF mediaVars
<1>2. CASE PlayerNext /\ UNCHANGED captureVars
  BY <1>2, PlayerStep, CaptureRests
<1>3. CASE CaptureNext /\ UNCHANGED playerVars
  BY <1>3, PlayerRests, CaptureThreads, CaptureKeepsOrder
<1> QED BY <1>1, <1>2, <1>3 DEF MediaNext

LEMMA MediaInductive == MediaSpec => []MediaInv
<1>1. MediaInit => MediaInv
  BY MediaStarts
<1>2. MediaInv /\ [MediaNext]_mediaVars => MediaInv'
  BY MediaStep
<1> QED BY <1>1, <1>2, PTL DEF MediaSpec

\* No thread of a player or a capture uses a context, decoder, queue or buffer that the one who closes
\* has freed (CAVDEMuxer::Close, CRtmpPushManager::StopEncoder, CGDIScreenScapture::bClose).
THEOREM NothingFreedIsUsed == MediaSpec => []NothingIsFreedInUse
<1>1. MediaInv => PlayerIsAlive
  BY DEF MediaInv, PInv, PlayerTypes, PlayerJoins, ReaderHolds, PopsFind, PlayerIsAlive, Fetching, Reading
<1>2. MediaInv => CaptureIsAlive
  BY DEF MediaInv, CaptureInv, CaptureIsAlive
<1>3. MediaInv => NothingIsFreedInUse
  BY <1>1, <1>2 DEF NothingIsFreedInUse
<1> QED BY <1>3, MediaInductive, PTL

\* What a player plays is in the order in which it was read, and what the encoder takes from the AudioBuffer are the
\* bytes of samples in the order of capture, with none missing but those that did not fit.  Its samples are those of
\* the device if the buffer's size is a multiple of theirs; the order needs no such assumption.
THEOREM EverythingInOrder == MediaSpec => []MediaInOrder
<1>1. MediaInv => PlaysInOrder
  BY AscendingIsOrder DEF MediaInv
<1>2. MediaInv => SamplesInOrder
  BY DEF MediaInv, BufferInv
<1>3. MediaInv => MediaInOrder
  BY <1>1, <1>2 DEF MediaInOrder
<1> QED BY <1>3, MediaInductive, PTL
=============================================================================
