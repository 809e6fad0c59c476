--------------------------- MODULE Publish_proofs ---------------------------
(***************************************************************************)
(* Proofs about a client that publishes: for every chunk size, stream id   *)
(* and number of frames, what either end handles is what the other sent,   *)
(* whole and in order, wherever reads cut the stream.                      *)
(*                                                                         *)
(* The items under way to an end, with what its parser has of the message  *)
(* it is amid, are the chunks of the messages that were sent and not yet   *)
(* handled, one behind the other (Carries).  The chunk size that a message *)
(* is cut with is the one it is read with because the dialogue fixes which *)
(* message comes when: the size is told by the first message to the server *)
(* and by the third to the client, and this message itself, cut in the new *)
(* size already, fits into one chunk of either (SizeAt, SizeChanges).  The *)
(* invariant therefore says of every message which one it is (Says), and   *)
(* how far the messages handled have brought either end (ClientIs,         *)
(* ServerIs).                                                              *)
(***************************************************************************)
EXTENDS Publish, SequenceTheorems, TLAPS

-----------------------------------------------------------------------------
(* How a message is cut *)

ChunkLen(m, size) == m.len + (m.len - 1) \div size + 1

\* What a chunk stream of this program carries: no message is longer than three units.
Short(m) == m.len \in 1..3

Unit(m, i) == [kind |-> "unit", body |-> m.body, at |-> i]

LEMMA SmallQuotient ==
  ASSUME NEW a \in Nat, NEW b \in Nat, a < b
  PROVE  a \div b = 0 /\ a % b = a
OBVIOUS

\* The parser is at the beginning of a chunk and has n units of the message: the head comes, of format 0 if
\* it is the first chunk, then as many units as the chunk has room for, and after them the message is over or
\* the next chunk begins.
ChunkFollows(m, size, n) ==
  LET d == n + n \div size
      u == IF m.len - n > size THEN size ELSE m.len - n
  IN  /\ d \in Nat /\ u \in 1..3 /\ n + u <= m.len
      /\ d + 1 + u <= ChunkLen(m, size)
      /\ ChunkItem(m, size, d + 1) = ChunkHead(IF n = 0 THEN 0 ELSE 3, m)
      /\ \A j \in 1..u : ChunkItem(m, size, d + 1 + j) = Unit(m, n + j)
      /\ n + u < m.len => (n + u) % size = 0 /\ d + 1 + u = (n + u) + (n + u) \div size
      /\ n + u = m.len => d + 1 + u = ChunkLen(m, size)

LEMMA ChunkLayout ==
  ASSUME NEW m, Short(m), NEW size \in Nat \ {0}, NEW n \in 0..(m.len - 1), n % size = 0
  PROVE  ChunkFollows(m, size, n)
<1>1. CASE size = 1
  BY <1>1 DEF Short, ChunkLen, ChunkItem, Unit, ChunkFollows
<1>2. CASE size = 2 /\ n = 0
  <2>1. m.len = 1 \/ m.len = 2 \/ m.len = 3
    BY DEF Short
  <2> QED BY <1>2, <2>1 DEF Short, ChunkLen, ChunkItem, Unit, ChunkFollows
<1>3. CASE size = 2 /\ n = 2
  BY <1>3 DEF Short, ChunkLen, ChunkItem, Unit, ChunkFollows
<1>4. CASE size >= 3
  <2>1. n = 0 /\ 0 \div size = 0
    BY <1>4, SmallQuotient DEF Short
  <2>2. ChunkLen(m, size) = m.len + 1 /\ m.len \in 1..3
    BY <1>4, SmallQuotient DEF Short, ChunkLen
  <2>3. \A j \in 0..3 : j % (size + 1) = j /\ j \div (size + 1) = 0
    BY <1>4, SmallQuotient
  <2>4. ChunkItem(m, size, 1) = ChunkHead(0, m)
    <3>1. 1 - 1 = 0 /\ 0 \in 0..3
      OBVIOUS
    <3> QED BY <2>3, <3>1 DEF ChunkItem
  <2>5. ASSUME NEW j \in 1..3 PROVE ChunkItem(m, size, 1 + j) = Unit(m, j)
    <3>1. 1 + j - 1 = j /\ j \in 0..3 /\ j # 0 /\ j - 0 = j
      OBVIOUS
    <3> QED BY <2>3, <3>1 DEF ChunkItem, Unit
  <2> QED BY <1>4, <2>1, <2>2, <2>4, <2>5 DEF ChunkFollows
<1>5. size = 1 \/ (size = 2 /\ n = 0) \/ (size = 2 /\ n = 2) \/ size >= 3
  BY DEF Short
<1> QED BY <1>1, <1>2, <1>3, <1>4, <1>5

-----------------------------------------------------------------------------
(* What is under way *)

Types == {"SetChunkSize", "AckSize", "Bandwidth", "Invoke", "Audio", "Video"}

Tags == {"string", "number", "object", "null"}

Words ==
  {"", "none", "name", "connect", "createStream", "publish", "_result", "onStatus", "NetConnection.Connect.Success",
   "NetStream.Publish.Start", "NetStream.Publish.BadName", "avc", "aac", "key", "frame"}

Value == [t : Tags, s : Words, n : Nat]

MessageSet == [type : Types, stream : {0, StreamId}, len : 1..3, body : Seq(Value)]

Item ==
  [kind : {"C0C1", "S0S1S2", "C2"}]
  \cup [kind : {"head"}, fmt : {0}, csid : Csids, len : 1..3, type : Types, stream : {0, StreamId}]
  \cup [kind : {"head"}, fmt : {3}, csid : Csids]
  \cup [kind : {"unit"}, body : Seq(Value), at : Int]

Slots == [len : 0..3, type : Types \cup {"none"}, stream : {0, StreamId}, data : Seq(Item)]

ParserType == [state : {"HEADER", "BODY"}, csid : Csids \cup {-1}, in : {DefaultChunk, MaxChunk}, msgs : [Csids -> Slots]]

LEMMA CsidType == \A t \in Types : Csid[t] \in Csids
BY DEF Types, Csid, Csids

LEMMA HeadType ==
  ASSUME NEW m \in MessageSet, NEW fmt \in {0, 3}
  PROVE  ChunkHead(fmt, m) \in Item
<1>1. Csid[m.type] \in Csids
  BY CsidType DEF MessageSet
<1> QED BY <1>1 DEF ChunkHead, Item, MessageSet

LEMMA UnitType ==
  ASSUME NEW m \in MessageSet, NEW i \in Int
  PROVE  [kind |-> "unit", body |-> m.body, at |-> i] \in Item
BY DEF Item, MessageSet

LEMMA ItemsJoined ==
  ASSUME NEW a \in Seq(Item), NEW b \in Seq(Item)
  PROVE  /\ a \o b \in Seq(Item) /\ Len(a \o b) = Len(a) + Len(b)
         /\ \A k \in 1..Len(a) : (a \o b)[k] = a[k]
         /\ \A k \in 1..Len(b) : (a \o b)[Len(a) + k] = b[k]
OBVIOUS

LEMMA ChunkType ==
  ASSUME NEW m \in MessageSet, NEW size \in Nat \ {0}
  PROVE  /\ ChunkLen(m, size) \in Nat \ {0} /\ Len(CreateChunk(m, size)) = ChunkLen(m, size)
         /\ CreateChunk(m, size) \in Seq(Item)
         /\ \A k \in 1..ChunkLen(m, size) : CreateChunk(m, size)[k] = ChunkItem(m, size, k)
<1>1. m.len \in 1..3
  BY DEF MessageSet
<1>2. ChunkLen(m, size) \in Nat \ {0}
  <2>1. 0 \div size \in Nat /\ 1 \div size \in Nat /\ 2 \div size \in Nat
    OBVIOUS
  <2>2. (m.len - 1) \div size \in Nat
    BY <1>1, <2>1
  <2> QED BY <1>1, <2>2 DEF ChunkLen
<1>3. CreateChunk(m, size) = [k \in 1..ChunkLen(m, size) |-> ChunkItem(m, size, k)]
  BY DEF CreateChunk, ChunkLen
<1>4. ASSUME NEW k \in 1..ChunkLen(m, size) PROVE ChunkItem(m, size, k) \in Item
  <2>1. (k - 1) \div (size + 1) \in Int /\ k - 1 \in Int
    BY <1>2
  <2>2. k - 1 - (k - 1) \div (size + 1) \in Int
    BY <2>1
  <2> QED BY <2>2, HeadType, UnitType DEF ChunkItem
<1> QED BY <1>2, <1>3, <1>4

-----------------------------------------------------------------------------
(* The items of the messages under way *)

\* The chunk size of an end's i-th message: the server is told of it by its first message, the client by its third.
SizeAt(e, i) == IF i > (IF e = "server" THEN 1 ELSE 3) THEN MaxChunk ELSE DefaultChunk

\* The i-th message of ms lies in t behind the position p.
LiesAt(e, ms, t, i, p) ==
  /\ p + ChunkLen(ms[i], SizeAt(e, i)) <= Len(t)
  /\ \A k \in 1..ChunkLen(ms[i], SizeAt(e, i)) : p + k >= 1 => t[p + k] = ChunkItem(ms[i], SizeAt(e, i), k)

\* pos are the positions of the messages after the first g, one behind the other until the end of t; d items of
\* the first of them have been taken.
Lies(e, ms, g, d, t, pos) ==
  /\ pos \in [(g + 1)..(Len(ms) + 1) -> Int]
  /\ pos[g + 1] + d = 0 /\ pos[Len(ms) + 1] = Len(t)
  /\ \A i \in (g + 1)..Len(ms) : pos[i + 1] = pos[i] + ChunkLen(ms[i], SizeAt(e, i)) /\ LiesAt(e, ms, t, i, pos[i])

\* The items t are the rest of the messages of ms after the first g, of which d items have been taken.
Carries(e, ms, g, d, t) == \E pos : Lies(e, ms, g, d, t, pos)

LEMMA SizeType == ASSUME NEW e \in Ends, NEW i \in Int PROVE SizeAt(e, i) \in Nat \ {0}
BY ChunkAssumption DEF SizeAt, DefaultChunk

LEMMA CarriesNothing ==
  ASSUME NEW e \in Ends, NEW ms \in Seq(MessageSet)
  PROVE  Carries(e, ms, Len(ms), 0, <<>>)
<1> DEFINE n == Len(ms)
           pos == [i \in (n + 1)..(n + 1) |-> 0]
<1>1. n \in Nat
  OBVIOUS
<1>e. Len(<<>>) = 0
  OBVIOUS
<1> HIDE DEF n
<1>2. pos \in [(n + 1)..(n + 1) -> Int] /\ pos[n + 1] = 0 /\ (n + 1)..n = {}
  BY <1>1
<1> HIDE DEF pos
<1>3. Lies(e, ms, n, 0, <<>>, pos)
  BY <1>1, <1>e, <1>2 DEF Lies, n
<1> QED BY <1>3 DEF Carries, n

\* What is sent goes behind all that is under way.
LEMMA CarriesAppend ==
  ASSUME NEW e \in Ends, NEW ms \in Seq(MessageSet), NEW g \in 0..Len(ms), NEW d \in Nat, NEW t \in Seq(Item),
         Carries(e, ms, g, d, t), NEW m \in MessageSet, NEW size \in Nat \ {0},
         size = SizeAt(e, Len(ms) + 1) \/ m.len = 1
  PROVE  Carries(e, Append(ms, m), g, d, t \o CreateChunk(m, size))
<1> DEFINE n == Len(ms)
           here == SizeAt(e, n + 1)
           c == CreateChunk(m, size)
           all == Append(ms, m)
           s == t \o c
<1>c. n \in Nat /\ n + 1 \in Int
  OBVIOUS
<1>a. here \in Nat \ {0} /\ n \in Nat
  BY <1>c, SizeType
<1> HIDE DEF here, c
<1>b. Len(all) = n + 1 /\ all[n + 1] = m /\ \A i \in 1..n : all[i] = ms[i]
  OBVIOUS
<1>1. /\ n \in Nat /\ here \in Nat \ {0} /\ Len(all) = n + 1 /\ all[n + 1] = m
      /\ \A i \in 1..n : all[i] = ms[i]
  BY <1>a, <1>b
<1>2. ChunkLen(m, size) = ChunkLen(m, here) /\ \A k \in 1..ChunkLen(m, here) : ChunkItem(m, size, k) = ChunkItem(m, here, k)
  <2>1. CASE m.len = 1
    <3>1. \A b \in Nat \ {0} : ChunkLen(m, b) = 2
      BY <2>1, SmallQuotient DEF ChunkLen
    <3>2. ASSUME NEW b \in Nat \ {0}, NEW k \in 1..2 PROVE ChunkItem(m, b, k) = IF k = 1 THEN ChunkHead(0, m) ELSE Unit(m, 1)
      <4>1. 0 % (b + 1) = 0 /\ 1 % (b + 1) = 1 /\ 1 \div (b + 1) = 0
        BY SmallQuotient
      <4>2. CASE k = 1
        BY <4>1, <4>2 DEF ChunkItem
      <4>3. CASE k = 2
        <5>1. k - 1 = 1 /\ 1 # 0 /\ k # 1 /\ 1 - 0 = 1
          BY <4>3
        <5> QED BY <4>1, <5>1 DEF ChunkItem, Unit
      <4> QED BY <4>2, <4>3
    <3> QED BY <1>1, <3>1, <3>2
  <2>2. CASE size = here
    BY <2>2
  <2> QED BY <2>1, <2>2 DEF here
<1>3. /\ c \in Seq(Item) /\ Len(c) = ChunkLen(m, here) /\ ChunkLen(m, here) \in Nat \ {0}
      /\ \A k \in 1..ChunkLen(m, here) : c[k] = ChunkItem(m, here, k)
  BY <1>1, <1>2, ChunkType DEF c
<1>4. /\ s \in Seq(Item) /\ Len(s) = Len(t) + ChunkLen(m, here) /\ Len(t) \in Nat
      /\ \A k \in 1..Len(t) : s[k] = t[k]
      /\ \A k \in 1..ChunkLen(m, here) : s[Len(t) + k] = ChunkItem(m, here, k)
  <2>1. /\ s \in Seq(Item) /\ Len(s) = Len(t) + Len(c)
        /\ \A k \in 1..Len(t) : s[k] = t[k]
        /\ \A k \in 1..Len(c) : s[Len(t) + k] = c[k]
    BY <1>3, ItemsJoined
  <2>2. Len(t) \in Nat
    OBVIOUS
  <2> HIDE DEF s
  <2> QED BY <1>3, <2>1, <2>2, Zenon
<1> HIDE DEF s
<1>5. PICK pos : Lies(e, ms, g, d, t, pos)
  BY DEF Carries
<1> DEFINE new == [i \in (g + 1)..(n + 2) |-> IF i = n + 2 THEN Len(s) ELSE pos[i]]
<1>6. new \in [(g + 1)..(n + 2) -> Int] /\ new[g + 1] + d = 0 /\ new[n + 2] = Len(s)
  BY <1>1, <1>4, <1>5 DEF Lies
<1>7. ASSUME NEW i \in (g + 1)..(n + 1)
      PROVE  new[i + 1] = new[i] + ChunkLen(all[i], SizeAt(e, i)) /\ LiesAt(e, all, s, i, new[i])
  <2>1. CASE i = n + 1
    <3>1. new[i] = Len(t) /\ new[i + 1] = Len(s) /\ all[i] = m /\ SizeAt(e, i) = here
      BY <1>1, <1>5, <2>1 DEF Lies, here
    <3> HIDE DEF new, all
    <3> QED BY <1>3, <1>4, <3>1 DEF LiesAt
  <2>2. CASE i # n + 1
    <3>0. i \in (g + 1)..n /\ i \in 1..n /\ i \in Int /\ i # n + 2 /\ i + 1 # n + 2
      BY <1>1, <2>2
    <3>1. i \in (g + 1)..n /\ new[i] = pos[i] /\ new[i + 1] = pos[i + 1] /\ all[i] = ms[i]
      BY <1>1, <3>0
    <3>p. pos \in [(g + 1)..(n + 1) -> Int] /\ i \in (g + 1)..(n + 1)
      BY <1>5, <3>0 DEF Lies
    <3>q. pos[i] \in Int
      BY <3>p
    <3>2. pos[i + 1] = pos[i] + ChunkLen(ms[i], SizeAt(e, i)) /\ LiesAt(e, ms, t, i, pos[i])
      BY <1>5, <3>1 DEF Lies
    <3>r. SizeAt(e, i) \in Nat \ {0}
      BY <3>0, SizeType
    <3>s. ms[i] \in MessageSet
      BY <3>0
    <3>3. ms[i] \in MessageSet /\ SizeAt(e, i) \in Nat \ {0}
      BY <3>r, <3>s
    <3>4. ChunkLen(ms[i], SizeAt(e, i)) \in Nat
      BY <3>3, ChunkType
    <3> HIDE DEF new, all
    <3>5. LiesAt(e, all, s, i, pos[i])
      <4> DEFINE l == ChunkLen(ms[i], SizeAt(e, i))
                 p == pos[i]
      <4>1. l \in Nat /\ p \in Int /\ p + l <= Len(t) /\ all[i] = ms[i]
        BY <3>1, <3>2, <3>4, <3>q DEF LiesAt
      <4>2. \A k \in 1..l : p + k >= 1 => t[p + k] = ChunkItem(ms[i], SizeAt(e, i), k)
        BY <3>2 DEF LiesAt
      <4>3. \A k \in 1..l : p + k >= 1 => s[p + k] = ChunkItem(ms[i], SizeAt(e, i), k)
        <5> HIDE DEF l, p
        <5> QED BY <1>4, <4>1, <4>2
      <4>4. p + l <= Len(s)
        <5> HIDE DEF l, p
        <5> QED BY <1>3, <1>4, <4>1
      <4> QED BY <4>1, <4>3, <4>4 DEF LiesAt
    <3> QED BY <3>1, <3>2, <3>5
  <2> QED BY <2>1, <2>2
<1>8. Lies(e, all, g, d, s, new)
  <2> HIDE DEF new, all
  <2>1. Len(all) + 1 = n + 2 /\ Len(all) = n + 1
    BY <1>1
  <2>2. new \in [(g + 1)..(Len(all) + 1) -> Int] /\ new[g + 1] + d = 0 /\ new[Len(all) + 1] = Len(s)
    BY <1>6, <2>1
  <2>3. \A i \in (g + 1)..Len(all) : new[i + 1] = new[i] + ChunkLen(all[i], SizeAt(e, i)) /\ LiesAt(e, all, s, i, new[i])
    BY <1>7, <2>1
  <2> QED BY <2>2, <2>3 DEF Lies
<1> QED BY <1>8 DEF Carries, s, c

\* What comes first is what is left of the first message, and when none is left nothing is under way.
LEMMA CarriesHead ==
  ASSUME NEW e \in Ends, NEW ms \in Seq(MessageSet), NEW g \in 0..Len(ms), NEW d \in Nat, NEW t \in Seq(Item),
         Carries(e, ms, g, d, t)
  PROVE  /\ g = Len(ms) => t = <<>> /\ d = 0
         /\ g < Len(ms) => LET l == ChunkLen(ms[g + 1], SizeAt(e, g + 1)) IN
              l \in Nat /\ l - d <= Len(t) /\ \A k \in (d + 1)..l : t[k - d] = ChunkItem(ms[g + 1], SizeAt(e, g + 1), k)
<1>1. PICK pos : Lies(e, ms, g, d, t, pos)
  BY DEF Carries
<1>2. pos[g + 1] \in Int /\ pos[g + 1] + d = 0 /\ pos[Len(ms) + 1] = Len(t)
  <2>1. pos \in [(g + 1)..(Len(ms) + 1) -> Int] /\ g + 1 \in (g + 1)..(Len(ms) + 1)
    BY <1>1 DEF Lies
  <2>2. pos[g + 1] \in Int
    BY <2>1
  <2> QED BY <1>1, <2>2 DEF Lies
<1>3. CASE g = Len(ms)
  <2>1. Len(t) = 0
    BY <1>2, <1>3
  <2> QED BY <1>2, <1>3, <2>1
<1>4. CASE g < Len(ms)
  <2> DEFINE l == ChunkLen(ms[g + 1], SizeAt(e, g + 1))
             p == pos[g + 1]
  <2>1. g + 1 \in (g + 1)..Len(ms) /\ g + 1 \in 1..Len(ms) /\ g + 1 \in Int
    BY <1>4
  <2>2. SizeAt(e, g + 1) \in Nat \ {0} /\ ms[g + 1] \in MessageSet
    <3>1. SizeAt(e, g + 1) \in Nat \ {0}
      BY <2>1, SizeType
    <3>2. ms[g + 1] \in MessageSet
      BY <2>1
    <3> QED BY <3>1, <3>2
  <2>3. l \in Nat
    BY <2>2, ChunkType
  <2>4. p + l <= Len(t) /\ \A k \in 1..l : p + k >= 1 => t[p + k] = ChunkItem(ms[g + 1], SizeAt(e, g + 1), k)
    BY <1>1, <2>1 DEF Lies, LiesAt
  <2>5. l - d <= Len(t) /\ \A k \in (d + 1)..l : t[k - d] = ChunkItem(ms[g + 1], SizeAt(e, g + 1), k)
    <3> HIDE DEF l
    <3>1. p + l <= Len(t) /\ p = 0 - d
      BY <1>2, <2>4
    <3>2. l - d <= Len(t)
      BY <2>3, <3>1
    <3>3. ASSUME NEW k \in (d + 1)..l PROVE t[k - d] = ChunkItem(ms[g + 1], SizeAt(e, g + 1), k)
      <4>1. k \in 1..l /\ p + k = k - d /\ k - d >= 1
        BY <2>3, <3>1
      <4> QED BY <2>4, <4>1
    <3> QED BY <3>2, <3>3
  <2> QED BY <1>4, <2>3, <2>5
<1> QED BY <1>3, <1>4

\* Items of the first message are taken.
LEMMA CarriesNone ==
  ASSUME NEW e \in Ends, NEW ms \in Seq(MessageSet), NEW t \in Seq(Item), Carries(e, ms, Len(ms), 0, t)
  PROVE  t = <<>>
<1> DEFINE g == Len(ms)
           d == 0
<1>1. g \in 0..Len(ms) /\ d \in Nat /\ g = Len(ms) /\ Carries(e, ms, g, d, t)
  OBVIOUS
<1> HIDE DEF g, d
<1>2. t = <<>>
  BY <1>1, CarriesHead
<1> QED BY <1>2

LEMMA CarriesTake ==
  ASSUME NEW e \in Ends, NEW ms \in Seq(MessageSet), NEW g \in 0..Len(ms), NEW d \in Nat, NEW t \in Seq(Item),
         Carries(e, ms, g, d, t), NEW u \in 0..Len(t)
  PROVE  Carries(e, ms, g, d + u, SubSeq(t, u + 1, Len(t)))
<1> DEFINE n == Len(ms)
           s == SubSeq(t, u + 1, Len(t))
<1>1. n \in Nat /\ Len(t) \in Nat /\ u \in Nat
  OBVIOUS
<1>2. s \in Seq(Item) /\ Len(s) = Len(t) - u /\ \A k \in 1..Len(s) : s[k] = t[u + k]
  OBVIOUS
<1> HIDE DEF s
<1>3. PICK pos : Lies(e, ms, g, d, t, pos)
  BY DEF Carries
<1>4. pos \in [(g + 1)..(n + 1) -> Int] /\ pos[g + 1] + d = 0 /\ pos[n + 1] = Len(t)
  BY <1>3 DEF Lies
<1> DEFINE new == [i \in (g + 1)..(n + 1) |-> pos[i] - u]
<1>5. \A i \in (g + 1)..(n + 1) : pos[i] \in Int /\ new[i] = pos[i] - u
  BY <1>4
<1>6. g + 1 \in (g + 1)..(n + 1) /\ n + 1 \in (g + 1)..(n + 1)
  BY <1>1
<1>7. new \in [(g + 1)..(n + 1) -> Int] /\ new[g + 1] + (d + u) = 0 /\ new[n + 1] = Len(s)
  <2>1. new \in [(g + 1)..(n + 1) -> Int]
    BY <1>5, <1>1
  <2> HIDE DEF new
  <2>2. new[g + 1] = pos[g + 1] - u /\ new[n + 1] = pos[n + 1] - u /\ pos[g + 1] \in Int
    BY <1>5, <1>6
  <2>3. new[g + 1] + (d + u) = 0
    BY <1>1, <1>4, <2>2
  <2>4. new[n + 1] = Len(s)
    BY <1>1, <1>2, <1>4, <2>2
  <2> QED BY <2>1, <2>3, <2>4
<1> HIDE DEF new
<1>8. ASSUME NEW i \in (g + 1)..n
      PROVE  new[i + 1] = new[i] + ChunkLen(ms[i], SizeAt(e, i)) /\ LiesAt(e, ms, s, i, new[i])
  <2> DEFINE l == ChunkLen(ms[i], SizeAt(e, i))
             p == pos[i]
             q == new[i]
  <2>1. i \in (g + 1)..(n + 1) /\ i + 1 \in (g + 1)..(n + 1) /\ i \in 1..n /\ i \in Int
    BY <1>1
  <2>2. l \in Nat
    <3>1. SizeAt(e, i) \in Nat \ {0}
      BY <2>1, SizeType
    <3>2. ms[i] \in MessageSet
      BY <2>1
    <3> QED BY <3>1, <3>2, ChunkType
  <2>3. p \in Int /\ q = p - u /\ pos[i + 1] \in Int /\ new[i + 1] = pos[i + 1] - u
    BY <1>5, <2>1
  <2>4. pos[i + 1] = p + l /\ LiesAt(e, ms, t, i, p)
    BY <1>3 DEF Lies
  <2>5. p + l <= Len(t) /\ \A k \in 1..l : p + k >= 1 => t[p + k] = ChunkItem(ms[i], SizeAt(e, i), k)
    BY <2>4 DEF LiesAt
  <2>6. new[i + 1] = q + l
    <3> HIDE DEF l, p, q
    <3> QED BY <1>1, <2>2, <2>3, <2>4
  <2>7. q + l <= Len(s)
    <3> HIDE DEF l, p, q
    <3> QED BY <1>1, <1>2, <2>2, <2>3, <2>5
  <2>8. ASSUME NEW k \in 1..l, q + k >= 1 PROVE s[q + k] = ChunkItem(ms[i], SizeAt(e, i), k)
    <3> HIDE DEF l, p, q
    <3>1. k \in Int /\ q + k \in 1..Len(s) /\ u + (q + k) = p + k /\ p + k >= 1
      BY <1>1, <1>2, <2>2, <2>3, <2>7, <2>8
    <3>2. s[q + k] = t[u + (q + k)]
      BY <1>2, <3>1
    <3>3. s[q + k] = t[p + k]
      BY <3>1, <3>2
    <3> QED BY <2>5, <3>1, <3>3
  <2>9. LiesAt(e, ms, s, i, q)
    BY <2>7, <2>8 DEF LiesAt
  <2> QED BY <2>6, <2>9
<1>9. Lies(e, ms, g, d + u, s, new)
  BY <1>7, <1>8 DEF Lies
<1> QED BY <1>9 DEF Carries, s

\* The first message has been taken as a whole.
LEMMA CarriesNext ==
  ASSUME NEW e \in Ends, NEW ms \in Seq(MessageSet), NEW g \in 0..(Len(ms) - 1), NEW t \in Seq(Item),
         Carries(e, ms, g, ChunkLen(ms[g + 1], SizeAt(e, g + 1)), t)
  PROVE  Carries(e, ms, g + 1, 0, t)
<1> DEFINE n == Len(ms)
           d == ChunkLen(ms[g + 1], SizeAt(e, g + 1))
<1>1. n \in Nat /\ g + 1 \in (g + 1)..n /\ g + 1 \in 1..n /\ g + 1 \in Int /\ g + 1 + 1 = g + 2
  OBVIOUS
<1>2. d \in Nat
  <2>1. SizeAt(e, g + 1) \in Nat \ {0}
    BY <1>1, SizeType
  <2>2. ms[g + 1] \in MessageSet
    BY <1>1
  <2> QED BY <2>1, <2>2, ChunkType
<1>3. PICK pos : Lies(e, ms, g, d, t, pos)
  BY DEF Carries
<1>4. pos \in [(g + 1)..(n + 1) -> Int] /\ pos[g + 1] + d = 0 /\ pos[n + 1] = Len(t) /\ pos[g + 2] = pos[g + 1] + d
  <2>1. \A i \in (g + 1)..n : pos[i + 1] = pos[i] + ChunkLen(ms[i], SizeAt(e, i))
    BY <1>3 DEF Lies
  <2>2. pos[g + 1 + 1] = pos[g + 1] + d
    BY <1>1, <2>1
  <2> QED BY <1>1, <1>3, <2>2 DEF Lies
<1> HIDE DEF d
<1> DEFINE new == [i \in (g + 2)..(n + 1) |-> pos[i]]
<1>5. new \in [(g + 2)..(n + 1) -> Int] /\ new[g + 2] + 0 = 0 /\ new[n + 1] = Len(t)
  BY <1>1, <1>2, <1>4
<1>6. ASSUME NEW i \in (g + 2)..n
      PROVE  new[i + 1] = new[i] + ChunkLen(ms[i], SizeAt(e, i)) /\ LiesAt(e, ms, t, i, new[i])
  <2>1. i \in (g + 1)..n /\ i \in (g + 2)..(n + 1) /\ i + 1 \in (g + 2)..(n + 1)
    BY <1>1
  <2>2. new[i] = pos[i] /\ new[i + 1] = pos[i + 1]
    BY <2>1
  <2> QED BY <1>3, <2>1, <2>2 DEF Lies
<1>7. Lies(e, ms, g + 1, 0, t, new)
  <2> HIDE DEF new
  <2> QED BY <1>1, <1>5, <1>6 DEF Lies
<1> QED BY <1>7 DEF Carries

-----------------------------------------------------------------------------
(* The parser in the middle of a message *)

PIdle(p) == p.state = "HEADER" /\ p.csid = -1 /\ \A c \in Csids : p.msgs[c].data = <<>>

Units(m, n) == [i \in 1..n |-> Unit(m, i)]

Slot(m, n) == [len |-> m.len, type |-> m.type, stream |-> m.stream, data |-> Units(m, n)]

\* The parser has n units of m, whole chunks all of them, and nothing else.
Amid(p, m, n) ==
  /\ n % p.in = 0
  /\ p.csid = Csid[m.type]
  /\ p.msgs[p.csid] = Slot(m, n)
  /\ \A c \in Csids \ {p.csid} : p.msgs[c].data = <<>>

InBody(p, m, n, d) == Amid(p, m, n) /\ p.state = "BODY" /\ d = n + n \div p.in + 1
InHeader(p, m, n, d) == Amid(p, m, n) /\ p.state = "HEADER" /\ n > 0 /\ d = n + n \div p.in

\* The parser has taken d items of m.
ParserAt(p, m, d) ==
  \/ d = 0 /\ PIdle(p)
  \/ \E n \in 0..(m.len - 1) : InBody(p, m, n, d) \/ InHeader(p, m, n, d)

LEMMA UnitsType ==
  ASSUME NEW m \in MessageSet, NEW n \in 0..3
  PROVE  Units(m, n) \in Seq(Item) /\ Len(Units(m, n)) = n /\ \A i \in 1..n : Units(m, n)[i] = Unit(m, i)
<1>1. \A i \in 1..n : Unit(m, i) \in Item
  BY UnitType DEF Unit
<1> QED BY <1>1 DEF Units

LEMMA SlotType ==
  ASSUME NEW m \in MessageSet, NEW n \in 0..3
  PROVE  Slot(m, n) \in Slots
BY UnitsType DEF Slot, Slots, MessageSet

\* The items begin with the u units of m that follow the first n.
Follow(m, n, u, items) == \A j \in 1..u : items[j] = Unit(m, n + j)

LEMMA UnitsAppend ==
  ASSUME NEW m \in MessageSet, NEW n \in 0..3, NEW u \in 0..3, n + u <= 3, NEW items \in Seq(Item), u <= Len(items),
         Follow(m, n, u, items)
  PROVE  Units(m, n) \o SubSeq(items, 1, u) = Units(m, n + u)
<1> DEFINE a == Units(m, n)
           b == SubSeq(items, 1, u)
           c == Units(m, n + u)
<1>1. a \in Seq(Item) /\ Len(a) = n /\ \A i \in 1..n : a[i] = Unit(m, i)
  BY UnitsType
<1>2. c \in Seq(Item) /\ Len(c) = n + u /\ \A i \in 1..(n + u) : c[i] = Unit(m, i)
  <2>1. n + u \in 0..3
    OBVIOUS
  <2> QED BY <2>1, UnitsType
<1>3. b \in Seq(Item) /\ Len(b) = u /\ \A j \in 1..u : b[j] = Unit(m, n + j)
  BY DEF Follow
<1> HIDE DEF a, b, c
<1>4. a \o b \in Seq(Item) /\ Len(a \o b) = n + u
  BY <1>1, <1>3, ItemsJoined, Zenon
<1>5. \A i \in 1..(n + u) : (a \o b)[i] = c[i]
  <2> SUFFICES ASSUME NEW i \in 1..(n + u) PROVE (a \o b)[i] = c[i]
    OBVIOUS
  <2>1. CASE i <= n
    <3>1. (a \o b)[i] = a[i]
      <4>1. i \in 1..n
        BY <2>1
      <4>2. \A k \in 1..n : (a \o b)[k] = a[k]
        BY <1>1, <1>3, ItemsJoined, Zenon
      <4> QED BY <4>1, <4>2, Zenon
    <3> QED BY <1>1, <1>2, <2>1, <3>1
  <2>2. CASE i > n
    <3> DEFINE j == i - n
    <3>1. j \in 1..u /\ n + j = i
      BY <2>2
    <3> HIDE DEF j
    <3>2. (a \o b)[i] = b[j]
      <4>1. \A k \in 1..u : (a \o b)[n + k] = b[k]
        BY <1>1, <1>3, ItemsJoined, Zenon
      <4> QED BY <3>1, <4>1, Zenon
    <3>3. b[j] = Unit(m, n + j)
      BY <1>3, <3>1
    <3>4. b[j] = Unit(m, i)
      BY <3>1, <3>3
    <3>5. c[i] = Unit(m, i)
      BY <1>2
    <3> QED BY <3>2, <3>4, <3>5
  <2>3. i <= n \/ i > n
    OBVIOUS
  <2> QED BY <2>1, <2>2, <2>3
<1>6. a \o b = c
  <2> DEFINE t == a \o b
  <2>1. /\ t \in Seq(Item) /\ Len(t) = n + u /\ \A i \in 1..(n + u) : t[i] = c[i]
        /\ c \in Seq(Item) /\ Len(c) = n + u
    BY <1>2, <1>4, <1>5, Zenon
  <2> HIDE DEF t
  <2>2. t = c
    BY <2>1, SeqEqual, Zenon
  <2> QED BY <2>2 DEF t
<1> QED BY <1>6, Zenon DEF a, b, c

LEMMA AssembledIsWhole ==
  ASSUME NEW m \in MessageSet
  PROVE  Assembled(Slot(m, m.len)) = m
<1>1. m.len \in 1..3 /\ m.len \in 0..3
  BY DEF MessageSet
<1>2. \A i \in 1..m.len : Units(m, m.len)[i] = Unit(m, i)
  BY <1>1, UnitsType
<1> DEFINE s == Slot(m, m.len)
<1>3. s.len = m.len /\ s.type = m.type /\ s.stream = m.stream /\ s.data = Units(m, m.len)
  BY DEF Slot
<1> HIDE DEF s
<1>4. \A i \in 1..s.len : s.data[i].kind = "unit" /\ s.data[i].body = m.body /\ s.data[i].at = i
  <2> SUFFICES ASSUME NEW i \in 1..s.len PROVE s.data[i].kind = "unit" /\ s.data[i].body = m.body /\ s.data[i].at = i
    OBVIOUS
  <2>1. s.data[i] = Unit(m, i)
    BY <1>2, <1>3
  <2>2. Unit(m, i).kind = "unit" /\ Unit(m, i).body = m.body /\ Unit(m, i).at = i
    BY DEF Unit
  <2> QED BY <2>1, <2>2
<1>5. s.data[1].body = m.body /\ 1 \in 1..s.len
  BY <1>1, <1>3, <1>4
<1>6. Assembled(s) = [type |-> s.type, stream |-> s.stream, len |-> s.len, body |-> s.data[1].body]
  BY <1>4, <1>5 DEF Assembled
<1>7. m = [type |-> m.type, stream |-> m.stream, len |-> m.len, body |-> m.body]
  BY DEF MessageSet
<1> QED BY <1>3, <1>5, <1>6, <1>7 DEF s

\* A head is taken.
LEMMA HeadIsTaken ==
  ASSUME NEW p \in ParserType, NEW m \in MessageSet, NEW n \in 0..(m.len - 1),
         (n = 0 /\ PIdle(p)) \/ (n > 0 /\ Amid(p, m, n) /\ p.state = "HEADER")
  PROVE  LET q == ParseChunkHeader(p, ChunkHead(IF n = 0 THEN 0 ELSE 3, m)) IN
           q \in ParserType /\ q.in = p.in /\ InBody(q, m, n, n + n \div p.in + 1)
<1> DEFINE h == ChunkHead(IF n = 0 THEN 0 ELSE 3, m)
           c == Csid[m.type]
           q == ParseChunkHeader(p, h)
<1>1. c \in Csids /\ m.len \in 1..3 /\ n \in 0..3 /\ c # -1
  <2>1. c \in Csids /\ m.len \in 1..3
    BY CsidType DEF MessageSet
  <2> QED BY <2>1 DEF Csids
<1>2. h.csid = c /\ h.fmt = IF n = 0 THEN 0 ELSE 3
  BY DEF ChunkHead
<1>3. n = 0 => h.len = m.len /\ h.type = m.type /\ h.stream = m.stream
  BY DEF ChunkHead
<1> HIDE DEF h, c
<1>4. p.msgs \in [Csids -> Slots] /\ p.in \in Nat \ {0}
  BY ChunkAssumption DEF ParserType, DefaultChunk
<1> DEFINE new == IF n = 0 THEN [len |-> h.len, type |-> h.type, stream |-> h.stream, data |-> <<>>] ELSE p.msgs[c]
<1>5. q = [p EXCEPT !.state = "BODY", !.csid = c, !.msgs = [p.msgs EXCEPT ![c] = new]]
  <2>1. (IF h.fmt = 0 THEN [len |-> h.len, type |-> h.type, stream |-> h.stream, data |-> <<>>] ELSE p.msgs[h.csid]) = new
    BY <1>2
  <2> HIDE DEF new
  <2> QED BY <1>2, <2>1 DEF ParseChunkHeader
<1>6. new = Slot(m, n)
  <2>1. CASE n = 0
    <3>1. Units(m, 0) = <<>>
      BY DEF Units
    <3> QED BY <1>3, <2>1, <3>1 DEF Slot
  <2>2. CASE n > 0
    BY <2>2 DEF Amid, c
  <2> QED BY <2>1, <2>2
<1>7. Slot(m, n) \in Slots
  BY <1>1, SlotType
<1> HIDE DEF new, q
<1>8. q.state = "BODY" /\ q.csid = c /\ q.in = p.in /\ q.msgs = [p.msgs EXCEPT ![c] = Slot(m, n)] /\ q \in ParserType
  BY <1>1, <1>4, <1>5, <1>6, <1>7 DEF ParserType
<1>9. q.msgs[c] = Slot(m, n) /\ \A x \in Csids \ {c} : q.msgs[x] = p.msgs[x]
  BY <1>1, <1>4, <1>8
<1>10. n % p.in = 0
  BY <1>4 DEF Amid
<1>11. \A x \in Csids \ {c} : p.msgs[x].data = <<>>
  BY <1>1 DEF Amid, PIdle, c
<1>12. Amid(q, m, n)
  BY <1>8, <1>9, <1>10, <1>11 DEF Amid, c
<1> QED BY <1>8, <1>12 DEF InBody, q, h

\* A chunk's payload is taken, and the next chunk of m follows.
Whole(p, n) == n % p.in = 0

LEMMA BodyGoesOn ==
  ASSUME NEW p \in ParserType, NEW m \in MessageSet, NEW n \in 0..(m.len - 1), NEW u \in 1..3, n + u < m.len,
         Whole(p, n + u), Amid(p, m, n), NEW items \in Seq(Item), u <= Len(items), u = ChunkRest(p),
         Follow(m, n, u, items)
  PROVE  LET q == ParseChunkBody(p, items) IN
           q \in ParserType /\ q.in = p.in /\ q.csid = p.csid /\ InHeader(q, m, n + u, n + u + (n + u) \div p.in)
<1> DEFINE c == Csid[m.type]
           q == ParseChunkBody(p, items)
           k == n + u
<1>1. c \in Csids /\ m.len \in 1..3 /\ n \in 0..3 /\ k \in 1..2 /\ k < m.len
  <2>1. c \in Csids /\ m.len \in 1..3
    BY CsidType DEF MessageSet
  <2> QED BY <2>1
<1>2. p.msgs \in [Csids -> Slots] /\ p.in \in Nat \ {0} /\ p.csid = c /\ p.msgs[c] = Slot(m, n)
  BY ChunkAssumption DEF ParserType, DefaultChunk, Amid
<1> HIDE DEF c
<1>3. p.msgs[p.csid].data = Units(m, n) /\ p.msgs[p.csid].len = m.len
  BY <1>2 DEF Slot
<1>4. p.msgs[p.csid].data \o SubSeq(items, 1, u) = Units(m, k)
  <2>1. u \in 0..3 /\ n + u <= 3 /\ n \in 0..3
    BY <1>1
  <2> HIDE DEF q, k
  <2>2. Units(m, n) \o SubSeq(items, 1, u) = Units(m, n + u)
    BY <2>1, UnitsAppend
  <2> QED BY <1>3, <2>2 DEF k
<1>5. Len(Units(m, k)) = k /\ k % p.in = 0
  <2>1. k % p.in = 0 /\ k \in 0..3
    BY <1>1 DEF Whole
  <2> HIDE DEF k
  <2> QED BY <2>1, UnitsType
<1>6. EndsChunk(p, k)
  BY <1>5 DEF EndsChunk
<1> HIDE DEF k
<1>7. q = [p EXCEPT !.msgs = [p.msgs EXCEPT ![c] = [p.msgs[c] EXCEPT !.data = Units(m, k)]], !.state = "HEADER"]
  BY <1>1, <1>2, <1>4, <1>5, <1>6 DEF ParseChunkBody, ParserType
<1>8. [p.msgs[c] EXCEPT !.data = Units(m, k)] = Slot(m, k)
  BY <1>2 DEF Slot
<1>9. Slot(m, k) \in Slots
  BY <1>1, SlotType
<1> HIDE DEF q
<1>10. q.state = "HEADER" /\ q.csid = c /\ q.in = p.in /\ q.msgs = [p.msgs EXCEPT ![c] = Slot(m, k)] /\ q \in ParserType
  BY <1>1, <1>2, <1>7, <1>8, <1>9 DEF ParserType
<1>11. q.msgs[c] = Slot(m, k) /\ \A x \in Csids \ {c} : q.msgs[x] = p.msgs[x]
  BY <1>1, <1>2, <1>10
<1>12. \A x \in Csids \ {c} : p.msgs[x].data = <<>>
  BY <1>2 DEF Amid, c
<1>13. Amid(q, m, k)
  BY <1>5, <1>10, <1>11, <1>12 DEF Amid, c
<1> QED BY <1>1, <1>2, <1>10, <1>13 DEF InHeader, q, k

\* The rest of m is taken: the parser has it as a whole, and is idle when it has been handed on.
LEMMA BodyEnds ==
  ASSUME NEW p \in ParserType, NEW m \in MessageSet, NEW n \in 0..(m.len - 1), NEW u \in 1..3, n + u = m.len,
         Amid(p, m, n), NEW items \in Seq(Item), u <= Len(items), u = ChunkRest(p),
         Follow(m, n, u, items)
  PROVE  LET q == ParseChunkBody(p, items)
             z == [q EXCEPT !.csid = -1, !.msgs[p.csid].data = <<>>]
         IN  q.msgs[p.csid] = Slot(m, m.len) /\ z \in ParserType /\ z.in = p.in /\ PIdle(z)
<1> DEFINE c == Csid[m.type]
           q == ParseChunkBody(p, items)
           k == n + u
           z == [q EXCEPT !.csid = -1, !.msgs[p.csid].data = <<>>]
<1>1. c \in Csids /\ m.len \in 1..3 /\ n \in 0..3 /\ k \in 0..3 /\ k = m.len
  <2>1. c \in Csids /\ m.len \in 1..3
    BY CsidType DEF MessageSet
  <2> QED BY <2>1
<1>2. p.msgs \in [Csids -> Slots] /\ p.in \in Nat \ {0} /\ p.csid = c /\ p.msgs[c] = Slot(m, n)
  BY ChunkAssumption DEF ParserType, DefaultChunk, Amid
<1> HIDE DEF c
<1>3. p.msgs[p.csid].data = Units(m, n) /\ p.msgs[p.csid].len = m.len
  BY <1>2 DEF Slot
<1>4. p.msgs[p.csid].data \o SubSeq(items, 1, u) = Units(m, k)
  <2>1. u \in 0..3 /\ n + u <= 3 /\ n \in 0..3
    BY <1>1
  <2> HIDE DEF q, k
  <2>2. Units(m, n) \o SubSeq(items, 1, u) = Units(m, n + u)
    BY <2>1, UnitsAppend
  <2> QED BY <1>3, <2>2 DEF k
<1>5. Len(Units(m, k)) = k
  BY <1>1, UnitsType
<1>6. EndsChunk(p, k)
  BY <1>1, <1>3 DEF EndsChunk
<1> HIDE DEF k
<1>7. q = [p EXCEPT !.msgs = [p.msgs EXCEPT ![c] = [p.msgs[c] EXCEPT !.data = Units(m, k)]], !.state = "HEADER"]
  BY <1>1, <1>2, <1>4, <1>5, <1>6 DEF ParseChunkBody, ParserType
<1>8. [p.msgs[c] EXCEPT !.data = Units(m, k)] = Slot(m, k)
  BY <1>2 DEF Slot
<1>9. Slot(m, k) \in Slots
  BY <1>1, SlotType
<1>10. q.state = "HEADER" /\ q.in = p.in /\ q.msgs = [p.msgs EXCEPT ![c] = Slot(m, k)] /\ q \in ParserType
  <2> HIDE DEF q
  <2> QED BY <1>1, <1>2, <1>7, <1>8, <1>9 DEF ParserType
<1> HIDE DEF q
<1>11. q.msgs \in [Csids -> Slots] /\ q.msgs[c] = Slot(m, k) /\ \A x \in Csids \ {c} : q.msgs[x] = p.msgs[x]
  BY <1>1, <1>2, <1>9, <1>10
<1> DEFINE e == [Slot(m, k) EXCEPT !.data = <<>>]
<1>12. e \in Slots /\ e.data = <<>>
  <2>1. e = [len |-> m.len, type |-> m.type, stream |-> m.stream, data |-> <<>>]
    BY DEF Slot
  <2>2. <<>> \in Seq(Item)
    OBVIOUS
  <2> HIDE DEF e
  <2> QED BY <2>1, <2>2 DEF Slots, MessageSet
<1>13. z = [q EXCEPT !.csid = -1, !.msgs = [q.msgs EXCEPT ![c] = e]]
  BY <1>1, <1>2, <1>10, <1>11 DEF ParserType
<1> HIDE DEF e, z
<1>14. z.state = "HEADER" /\ z.csid = -1 /\ z.in = p.in /\ z.msgs = [q.msgs EXCEPT ![c] = e] /\ z \in ParserType
  BY <1>1, <1>10, <1>11, <1>12, <1>13 DEF ParserType
<1>15. \A x \in Csids \ {c} : p.msgs[x].data = <<>>
  BY <1>2 DEF Amid, c
<1>16. ASSUME NEW x \in Csids PROVE z.msgs[x].data = <<>>
  <2>1. CASE x = c
    BY <1>1, <1>11, <1>12, <1>14, <2>1
  <2>2. CASE x # c
    <3>1. z.msgs[x] = q.msgs[x]
      BY <1>11, <1>14, <2>2
    <3> QED BY <1>11, <1>15, <2>2, <3>1
  <2> QED BY <2>1, <2>2
<1> QED BY <1>1, <1>2, <1>11, <1>14, <1>16 DEF PIdle, q, z

\* What the parser makes of items that are the rest of m, or the beginning of it: it takes nothing while a part
\* of a chunk is missing, takes a head or a payload, and hands m on with its last item.
LEMMA ParseYields ==
  ASSUME NEW p \in ParserType, NEW m \in MessageSet, NEW d \in Nat, ParserAt(p, m, d), NEW items \in Seq(Item),
         items # <<>>,
         \A k \in 1..Len(items) : d + k <= ChunkLen(m, p.in) => items[k] = ChunkItem(m, p.in, d + k)
  PROVE  LET r == Parse(p, items) IN
           /\ r.used \in 0..Len(items) /\ r.parser \in ParserType /\ r.parser.in = p.in
           /\ \/ r.msgs = <<>> /\ ParserAt(r.parser, m, d + r.used)
              \/ r.msgs = <<m>> /\ d + r.used = ChunkLen(m, p.in) /\ PIdle(r.parser)
<1> DEFINE r == Parse(p, items)
           l == ChunkLen(m, p.in)
           Goal == /\ r.used \in 0..Len(items) /\ r.parser \in ParserType /\ r.parser.in = p.in
                   /\ \/ r.msgs = <<>> /\ ParserAt(r.parser, m, d + r.used)
                      \/ r.msgs = <<m>> /\ d + r.used = l /\ PIdle(r.parser)
<1> SUFFICES Goal
  OBVIOUS
<1>1. m.len \in 1..3 /\ Short(m) /\ p.in \in Nat \ {0} /\ Len(items) \in Nat /\ Len(items) >= 1
  BY ChunkAssumption DEF MessageSet, Short, ParserType, DefaultChunk
<1>2. \E n \in 0..(m.len - 1) :
        /\ n % p.in = 0
        /\ \/ n = 0 /\ PIdle(p) /\ d = 0
           \/ InBody(p, m, n, d)
           \/ n > 0 /\ InHeader(p, m, n, d)
  <2>1. CASE d = 0 /\ PIdle(p)
    <3>1. 0 \in 0..(m.len - 1) /\ 0 % p.in = 0
      BY <1>1
    <3> QED BY <2>1, <3>1
  <2>2. CASE ~(d = 0 /\ PIdle(p))
    BY <2>2 DEF ParserAt, InBody, InHeader, Amid
  <2> QED BY <2>1, <2>2
<1>3. PICK n \in 0..(m.len - 1) :
        /\ n % p.in = 0
        /\ \/ n = 0 /\ PIdle(p) /\ d = 0
           \/ InBody(p, m, n, d)
           \/ n > 0 /\ InHeader(p, m, n, d)
  BY <1>2
<1> DEFINE d0 == n + n \div p.in
           u == IF m.len - n > p.in THEN p.in ELSE m.len - n
<1>4. ChunkFollows(m, p.in, n)
  BY <1>1, <1>3, ChunkLayout
<1>5. /\ d0 \in Nat /\ u \in 1..3 /\ n + u <= m.len /\ n \in Nat
      /\ d0 + 1 + u <= l
      /\ ChunkItem(m, p.in, d0 + 1) = ChunkHead(IF n = 0 THEN 0 ELSE 3, m)
      /\ \A j \in 1..u : ChunkItem(m, p.in, d0 + 1 + j) = Unit(m, n + j)
      /\ n + u < m.len => (n + u) % p.in = 0 /\ d0 + 1 + u = (n + u) + (n + u) \div p.in
      /\ n + u = m.len => d0 + 1 + u = l
  BY <1>4 DEF ChunkFollows
<1>6. l \in Nat
  BY <1>1, ChunkType
<1> HIDE DEF l
<1>7. CASE (n = 0 /\ PIdle(p) /\ d = 0) \/ (n > 0 /\ InHeader(p, m, n, d))
  <2>1. d = d0 /\ p.state = "HEADER" /\ ((n = 0 /\ PIdle(p)) \/ (n > 0 /\ Amid(p, m, n) /\ p.state = "HEADER"))
    <3>1. 0 \div p.in = 0
      BY <1>1
    <3> QED BY <1>7, <3>1 DEF InHeader, PIdle
  <2> DEFINE h == ChunkHead(IF n = 0 THEN 0 ELSE 3, m)
  <2>2. items[1] = h
    <3> HIDE DEF d0, u, h
    <3>1. d0 + 1 <= l /\ 1 \in 1..Len(items)
      BY <1>1, <1>5, <1>6
    <3>2. items[1] = ChunkItem(m, p.in, d0 + 1)
      BY <2>1, <3>1 DEF l
    <3> QED BY <1>5, <3>2 DEF h
  <2>3. h.kind = "head"
    BY DEF ChunkHead
  <2>4. LET q == ParseChunkHeader(p, h) IN q \in ParserType /\ q.in = p.in /\ InBody(q, m, n, n + n \div p.in + 1)
    BY <2>1, HeadIsTaken
  <2> HIDE DEF h
  <2>5. r = [used |-> 1, parser |-> ParseChunkHeader(p, h), msgs |-> <<>>]
    BY <2>1, <2>2, <2>3 DEF Parse
  <2> HIDE DEF r
  <2>6. ParserAt(r.parser, m, d + 1)
    BY <2>1, <2>4, <2>5 DEF ParserAt
  <2> QED BY <1>1, <2>4, <2>5, <2>6 DEF r
<1>8. CASE InBody(p, m, n, d)
  <2>1. Amid(p, m, n) /\ p.state = "BODY" /\ d = d0 + 1 /\ p.state # "HEADER"
    BY <1>8 DEF InBody
  <2>2. ChunkRest(p) = u
    <3>1. n \in 0..3
      BY <1>1
    <3>a. p.msgs[p.csid] = Slot(m, n)
      BY <2>1 DEF Amid
    <3>b. Len(Units(m, n)) = n
      BY <3>1, UnitsType
    <3>2. p.msgs[p.csid].len = m.len /\ p.msgs[p.csid].data = Units(m, n) /\ Len(Units(m, n)) = n
      BY <3>a, <3>b DEF Slot
    <3> QED BY <3>2 DEF ChunkRest
  <2>3. CASE Len(items) < u
    <3>1. r = [used |-> 0, parser |-> p, msgs |-> <<>>]
      BY <2>1, <2>2, <2>3 DEF Parse
    <3>2. d + 0 = d
      OBVIOUS
    <3> HIDE DEF r
    <3> QED BY <1>1, <3>1, <3>2 DEF r
  <2>4. CASE u <= Len(items)
    <3> DEFINE q == ParseChunkBody(p, items)
    <3>1. \A j \in 1..u : items[j] = Unit(m, n + j)
      <4> HIDE DEF d0, u
      <4> SUFFICES ASSUME NEW j \in 1..u PROVE items[j] = Unit(m, n + j)
        OBVIOUS
      <4>1. d + j <= l /\ j \in 1..Len(items) /\ d + j = d0 + 1 + j
        BY <1>1, <1>5, <1>6, <2>1, <2>4
      <4>2. items[j] = ChunkItem(m, p.in, d0 + 1 + j)
        BY <4>1 DEF l
      <4> QED BY <1>5, <4>2
    <3> HIDE DEF u
    <3>2. ~(Len(items) < u) /\ q = ParseChunkBody(p, items)
      BY <1>1, <1>5, <2>4
    <3> HIDE DEF q
    <3>3. q.csid = p.csid
      BY <3>2 DEF ParseChunkBody, ParserType
    <3> DEFINE s == q.msgs[p.csid]
    <3>4. r = IF Len(s.data) = s.len
               THEN [used |-> u, parser |-> [q EXCEPT !.csid = -1, !.msgs[p.csid].data = <<>>], msgs |-> <<Assembled(s)>>]
               ELSE [used |-> u, parser |-> q, msgs |-> <<>>]
      BY <2>1, <2>2, <3>2 DEF Parse
    <3> HIDE DEF r, s, d0
    <3>5. CASE n + u < m.len
      <4>1. q \in ParserType /\ q.in = p.in /\ InHeader(q, m, n + u, n + u + (n + u) \div p.in)
        BY <1>5, <2>1, <2>2, <2>4, <3>1, <3>2, <3>5, BodyGoesOn DEF Follow, Whole
      <4>2. s = Slot(m, n + u) /\ n + u \in 0..3
        BY <1>1, <1>5, <3>3, <3>5, <4>1 DEF InHeader, Amid, s
      <4>3. Len(s.data) = n + u /\ s.len = m.len
        BY <4>2, UnitsType DEF Slot
      <4>4. r = [used |-> u, parser |-> q, msgs |-> <<>>]
        BY <3>4, <3>5, <4>2, <4>3
      <4>5. d + u = n + u + (n + u) \div p.in /\ n + u \in 0..(m.len - 1)
        BY <1>1, <1>5, <2>1, <3>5
      <4>6. ParserAt(q, m, d + u)
        BY <4>1, <4>5 DEF ParserAt
      <4> QED BY <1>1, <1>5, <2>4, <4>1, <4>4, <4>6 DEF r
    <3>6. CASE n + u = m.len
      <4> DEFINE z == [q EXCEPT !.csid = -1, !.msgs[p.csid].data = <<>>]
      <4>1. s = Slot(m, m.len) /\ z \in ParserType /\ z.in = p.in /\ PIdle(z)
        BY <1>5, <2>1, <2>2, <2>4, <3>1, <3>2, <3>6, BodyEnds DEF s, q, Follow
      <4>2. Len(s.data) = m.len /\ s.len = m.len
        <5>1. m.len \in 0..3
          BY <1>1
        <5> QED BY <4>1, <5>1, UnitsType DEF Slot
      <4>3. r = [used |-> u, parser |-> z, msgs |-> <<m>>]
        BY <3>4, <4>1, <4>2, AssembledIsWhole
      <4>4. d + u = l
        BY <1>5, <2>1, <3>6
      <4> HIDE DEF z
      <4> QED BY <1>1, <1>5, <2>4, <4>1, <4>3, <4>4 DEF r, l
    <3> QED BY <1>1, <1>5, <3>5, <3>6
  <2> QED BY <1>1, <1>5, <2>3, <2>4
<1>9. ((n = 0 /\ PIdle(p) /\ d = 0) \/ (n > 0 /\ InHeader(p, m, n, d))) \/ InBody(p, m, n, d)
  BY <1>3
<1> HIDE DEF Goal, d0, u, r
<1> QED BY <1>7, <1>8, <1>9

-----------------------------------------------------------------------------
(* The messages of the dialogue *)

Request(body, id) == [type |-> "Invoke", stream |-> id, len |-> 2, body |-> body]

Answer1 == Request(<<Str("_result"), Num(1), Obj("none"), Obj("NetConnection.Connect.Success")>>, 0)
Answer2 == Request(<<Str("_result"), Num(2), Null, Num(StreamId)>>, 0)

Codes == {"NetStream.Publish.Start", "NetStream.Publish.BadName"}
Status(code) == Request(<<Str("onStatus"), Num(0), Null, Obj(code)>>, StreamId)

Packet(type, kind, len) == [type |-> type, stream |-> StreamId, len |-> len, body |-> <<Str(kind)>>]
MediaMessages ==
  {Packet("Video", "avc", 1), Packet("Audio", "aac", 1), Packet("Video", "key", 3), Packet("Video", "frame", 3), Packet("Audio", "frame", 1)}

\* The i-th message to the server.
Asks(i, m) ==
  /\ i = 1 => m = SizeIs
  /\ i = 2 => m = Request(Connect, 0)
  /\ i = 3 => m = Request(CreateStream, 0)
  /\ i = 4 => m = Request(PublishStream, StreamId)
  /\ i > 4 => m \in MediaMessages

\* The i-th message to the client.
Answers(i, m) ==
  /\ i = 1 => m = Control("AckSize", 0)
  /\ i = 2 => m = Control("Bandwidth", 0)
  /\ i = 3 => m = SizeIs
  /\ i = 4 => m = Answer1
  /\ i = 5 => m = Answer2
  /\ i = 6 => m \in {Status(code) : code \in Codes}
  /\ i <= 6

Says(e, i, m) == IF e = "server" THEN Asks(i, m) ELSE Answers(i, m)
SaysAll(e, ms) == \A i \in 1..Len(ms) : Says(e, i, ms[i])

LEMMA ValueType ==
  /\ \A s \in Words : Str(s) \in Value /\ Str(s).t = "string" /\ Str(s).s = s
  /\ \A s \in Words : Obj(s) \in Value /\ Obj(s).t = "object" /\ Obj(s).s = s
  /\ \A n \in Nat : Num(n) \in Value /\ Num(n).t = "number" /\ Num(n).n = n
  /\ Null \in Value /\ Null.t = "null"
<1>1. \A s \in Words : Str(s) \in Value /\ Str(s).t = "string" /\ Str(s).s = s
  BY DEF Str, Value, Tags, Words
<1>2. \A s \in Words : Obj(s) \in Value /\ Obj(s).t = "object" /\ Obj(s).s = s
  BY DEF Obj, Value, Tags, Words
<1>3. \A n \in Nat : Num(n) \in Value /\ Num(n).t = "number" /\ Num(n).n = n
  BY DEF Num, Value, Tags, Words
<1>4. Null \in Value /\ Null.t = "null"
  BY DEF Null, Value, Tags, Words
<1> QED BY <1>1, <1>2, <1>3, <1>4

LEMMA Tuples ==
  ASSUME NEW a \in Value, NEW b \in Value, NEW c \in Value, NEW d \in Value
  PROVE  /\ <<a>> \in Seq(Value) /\ Len(<<a>>) = 1 /\ <<a>>[1] = a
         /\ <<a, b, c>> \in Seq(Value) /\ Len(<<a, b, c>>) = 3
         /\ <<a, b, c>>[1] = a /\ <<a, b, c>>[2] = b /\ <<a, b, c>>[3] = c
         /\ <<a, b, c, d>> \in Seq(Value) /\ Len(<<a, b, c, d>>) = 4
         /\ <<a, b, c, d>>[1] = a /\ <<a, b, c, d>>[2] = b /\ <<a, b, c, d>>[3] = c /\ <<a, b, c, d>>[4] = d
<1>1. <<a>> \in Seq(Value) /\ <<a, b, c>> \in Seq(Value) /\ <<a, b, c, d>> \in Seq(Value)
  OBVIOUS
<1>2. Len(<<a>>) = 1 /\ <<a>>[1] = a
  OBVIOUS
<1>3. Len(<<a, b, c>>) = 3 /\ <<a, b, c>>[1] = a /\ <<a, b, c>>[2] = b /\ <<a, b, c>>[3] = c
  OBVIOUS
<1>4. /\ Len(<<a, b, c, d>>) = 4
      /\ <<a, b, c, d>>[1] = a /\ <<a, b, c, d>>[2] = b /\ <<a, b, c, d>>[3] = c /\ <<a, b, c, d>>[4] = d
  OBVIOUS
<1> QED BY <1>1, <1>2, <1>3, <1>4

LEMMA PairOf ==
  ASSUME NEW y \in MessageSet, NEW z \in MessageSet
  PROVE  Append(<<y>>, z) = <<y, z>>
<1> DEFINE one == <<y>>
           p == Append(one, z)
           q == <<y, z>>
<1>1. one \in Seq(MessageSet) /\ Len(one) = 1 /\ one[1] = y
  OBVIOUS
<1> HIDE DEF one
<1>2. p \in Seq(MessageSet) /\ Len(p) = 2 /\ p[1] = y /\ p[2] = z
  <2>1. p \in Seq(MessageSet) /\ Len(p) = Len(one) + 1 /\ p[Len(one) + 1] = z
    BY <1>1, AppendProperties, Zenon
  <2>2. \A i \in 1..Len(one) : p[i] = one[i]
    <3>1. \A s \in Seq(MessageSet) : \A m \in MessageSet : \A i \in 1..Len(s) : Append(s, m)[i] = s[i]
      BY AppendProperties
    <3> HIDE DEF p
    <3>2. \A i \in 1..Len(one) : Append(one, z)[i] = one[i]
      BY <1>1, <3>1, Zenon
    <3> QED BY <3>2 DEF p
  <2>3. 1 \in 1..Len(one) /\ Len(one) + 1 = 2
    BY <1>1
  <2> HIDE DEF p
  <2> QED BY <1>1, <2>1, <2>2, <2>3
<1>3. q \in Seq(MessageSet) /\ Len(q) = 2 /\ q[1] = y /\ q[2] = z
  OBVIOUS
<1> HIDE DEF p, q
<1>4. \A k \in 1..2 : p[k] = q[k]
  <2>1. p[1] = q[1] /\ p[2] = q[2]
    BY <1>2, <1>3
  <2> QED BY <2>1
<1>5. p = q
  BY <1>2, <1>3, <1>4, SeqEqual, Zenon
<1> QED BY <1>5, Zenon DEF p, q, one

LEMMA FourOf ==
  ASSUME NEW a \in MessageSet, NEW b \in MessageSet, NEW c \in MessageSet, NEW d \in MessageSet
  PROVE  /\ <<a, b>> \o <<c, d>> \in Seq(MessageSet)
         /\ <<a, b>> \o <<c, d>> = Append(Append(Append(Append(<<>>, a), b), c), d)
<1> DEFINE two == <<a, b>>
           one == <<c>>
<1>1. two \in Seq(MessageSet) /\ one \in Seq(MessageSet) /\ <<c, d>> \in Seq(MessageSet)
  OBVIOUS
<1>2. Append(<<>>, a) = <<a>>
  OBVIOUS
<1>3. Append(<<a>>, b) = two /\ Append(one, d) = <<c, d>>
  BY PairOf
<1>4. one \o <<d>> = Append(one, d) /\ two \o one = Append(two, c)
  BY <1>1, AppendIsConcat
<1>5. <<d>> \in Seq(MessageSet) /\ Append(two, c) \in Seq(MessageSet)
  <2> HIDE DEF two
  <2> QED BY <1>1, AppendProperties
<1>6. Append(two, c) \o <<d>> = Append(Append(two, c), d)
  <2> HIDE DEF two
  <2> QED BY <1>5, AppendIsConcat
<1>7. two \o (one \o <<d>>) = (two \o one) \o <<d>>
  <2> HIDE DEF two, one
  <2> QED BY <1>1, <1>5, ConcatAssociative
<1>8. two \o <<c, d>> \in Seq(MessageSet)
  <2> HIDE DEF two
  <2> QED BY <1>1, ConcatProperties
<1> HIDE DEF two, one
<1>9. two \o <<c, d>> = Append(Append(two, c), d)
  BY <1>3, <1>4, <1>6, <1>7
<1> QED BY <1>2, <1>3, <1>8, <1>9 DEF two

LEMMA RequestType ==
  ASSUME NEW body \in Seq(Value), NEW id \in {0, StreamId}
  PROVE  Request(body, id) \in MessageSet
BY DEF Request, MessageSet, Types

LEMMA ControlType ==
  ASSUME NEW type \in {"SetChunkSize", "AckSize", "Bandwidth"}, NEW n \in Nat
  PROVE  Control(type, n) \in MessageSet
<1>1. <<Num(n)>> \in Seq(Value)
  BY ValueType
<1> QED BY <1>1 DEF Control, MessageSet, Types

LEMMA PacketType ==
  ASSUME NEW type \in {"Audio", "Video"}, NEW kind \in Words, NEW len \in 1..3
  PROVE  Packet(type, kind, len) \in MessageSet
<1>1. <<Str(kind)>> \in Seq(Value)
  BY ValueType
<1> QED BY <1>1 DEF Packet, MessageSet, Types

LEMMA BodiesAreTyped ==
  /\ Connect \in Seq(Value) /\ CreateStream \in Seq(Value) /\ PublishStream \in Seq(Value)
  /\ Answer1.body \in Seq(Value) /\ Answer2.body \in Seq(Value)
  /\ \A code \in Codes : Status(code).body \in Seq(Value)
<1>1. StreamId \in Nat /\ Num(StreamId) \in Value /\ Num(0) \in Value /\ Num(1) \in Value /\ Num(2) \in Value /\ Num(3) \in Value
  BY StreamAssumption, ValueType
<1>2. /\ Str("connect") \in Value /\ Str("createStream") \in Value /\ Str("publish") \in Value /\ Str("name") \in Value
      /\ Str("_result") \in Value /\ Str("onStatus") \in Value
      /\ Obj("none") \in Value /\ Obj("NetConnection.Connect.Success") \in Value /\ Null \in Value
  BY ValueType, ZenonT(40) DEF Words
<1>3. Connect \in Seq(Value) /\ CreateStream \in Seq(Value) /\ PublishStream \in Seq(Value)
  BY <1>1, <1>2, Tuples DEF Connect, CreateStream, PublishStream
<1>4. Answer1.body \in Seq(Value) /\ Answer2.body \in Seq(Value)
  BY <1>1, <1>2, Tuples DEF Answer1, Answer2, Request
<1>5. ASSUME NEW code \in Codes PROVE Status(code).body \in Seq(Value)
  <2>1. Obj(code) \in Value
    BY ValueType DEF Codes, Words
  <2>2. <<Str("onStatus"), Num(0), Null, Obj(code)>> \in Seq(Value)
    BY <1>1, <1>2, <2>1, Tuples
  <2> QED BY <2>2 DEF Status, Request
<1> QED BY <1>3, <1>4, <1>5

LEMMA MessagesAreTyped ==
  /\ SizeIs \in MessageSet /\ Control("AckSize", 0) \in MessageSet /\ Control("Bandwidth", 0) \in MessageSet
  /\ Request(Connect, 0) \in MessageSet /\ Request(CreateStream, 0) \in MessageSet
  /\ Request(PublishStream, StreamId) \in MessageSet
  /\ Answer1 \in MessageSet /\ Answer2 \in MessageSet
  /\ \A code \in Codes : Status(code) \in MessageSet
  /\ MediaMessages \subseteq MessageSet
<1>1. SizeIs \in MessageSet /\ Control("AckSize", 0) \in MessageSet /\ Control("Bandwidth", 0) \in MessageSet
  <2>1. MaxChunk \in Nat /\ 0 \in Nat
    BY ChunkAssumption
  <2> QED BY <2>1, ControlType DEF SizeIs
<1>2. /\ Request(Connect, 0) \in MessageSet /\ Request(CreateStream, 0) \in MessageSet
      /\ Request(PublishStream, StreamId) \in MessageSet
  BY BodiesAreTyped, RequestType
<1>3. Answer1 \in MessageSet /\ Answer2 \in MessageSet
  <2>1. Answer1 = Request(Answer1.body, 0) /\ Answer2 = Request(Answer2.body, 0)
    BY DEF Answer1, Answer2, Request
  <2> QED BY <2>1, BodiesAreTyped, RequestType
<1>4. ASSUME NEW code \in Codes PROVE Status(code) \in MessageSet
  <2>1. Status(code) = Request(Status(code).body, StreamId)
    BY DEF Status, Request
  <2> QED BY <2>1, BodiesAreTyped, RequestType
<1>5. MediaMessages \subseteq MessageSet
  <2>1. /\ Packet("Video", "avc", 1) \in MessageSet /\ Packet("Audio", "aac", 1) \in MessageSet
        /\ Packet("Video", "key", 3) \in MessageSet /\ Packet("Video", "frame", 3) \in MessageSet
        /\ Packet("Audio", "frame", 1) \in MessageSet
    <3>1. "avc" \in Words /\ "aac" \in Words /\ "key" \in Words /\ "frame" \in Words
      BY DEF Words
    <3> QED BY <3>1, PacketType
  <2> QED BY <2>1 DEF MediaMessages
<1> QED BY <1>1, <1>2, <1>3, <1>4, <1>5

\* The decoder keeps the last value of a type.
LEMMA DecodedIsLast ==
  ASSUME NEW values \in Seq(Value), NEW default, NEW i \in 1..Len(values), values[i].t = default.t,
         \A j \in (i + 1)..Len(values) : values[j].t # default.t
  PROVE  Decoded(values, default) = values[i]
<1> DEFINE is == {j \in 1..Len(values) : values[j].t = default.t}
<1>1. i \in is /\ \A j \in is : j <= i
  <2> SUFFICES ASSUME NEW j \in is PROVE j <= i
    OBVIOUS
  <2>1. j \in 1..Len(values) /\ j \notin (i + 1)..Len(values)
    OBVIOUS
  <2> QED BY <2>1
<1>2. \A j \in is : j \in Int
  OBVIOUS
<1> HIDE DEF is
<1>3. (CHOOSE k \in is : \A j \in is : j <= k) = i
  <2>1. PICK k \in is : k = (CHOOSE x \in is : \A j \in is : j <= x) /\ \A j \in is : j <= k
    BY <1>1
  <2>2. i <= k /\ k <= i /\ i \in Int /\ k \in Int
    BY <1>1, <1>2, <2>1
  <2> QED BY <2>1, <2>2
<1>4. is # {}
  BY <1>1
<1> QED BY <1>3, <1>4 DEF Decoded, is

\* What the handlers read in the bodies.
LEMMA Meanings ==
  /\ Number(SizeIs.body) = MaxChunk
  /\ Number(Connect) = 1 /\ Number(CreateStream) = 2 /\ Number(Answer2.body) = StreamId
  /\ Code(Answer1.body) = "NetConnection.Connect.Success"
  /\ \A code \in Codes : Code(Status(code).body) = code
<1>0. MaxChunk \in Nat /\ StreamId \in Nat
  BY ChunkAssumption, StreamAssumption
<1>1. \A n \in Nat : Decoded(<<Num(n)>>, Num(0)) = Num(n)
  <2> SUFFICES ASSUME NEW n \in Nat PROVE Decoded(<<Num(n)>>, Num(0)) = Num(n)
    OBVIOUS
  <2> DEFINE b == <<Num(n)>>
  <2>1. b \in Seq(Value) /\ Len(b) = 1 /\ b[1] = Num(n)
    BY ValueType, Tuples
  <2>2. b[1].t = Num(0).t
    BY <2>1, ValueType
  <2>3. 1 \in 1..Len(b) /\ (1 + 1)..Len(b) = {}
    BY <2>1
  <2> HIDE DEF b
  <2>4. Decoded(b, Num(0)) = b[1]
    BY <2>1, <2>2, <2>3, DecodedIsLast
  <2> QED BY <2>1, <2>4 DEF b
<1>2. \A x, z \in Value : \A n \in Nat : z.t # "number" => Decoded(<<x, Num(n), z>>, Num(0)) = Num(n)
  <2> SUFFICES ASSUME NEW x \in Value, NEW z \in Value, NEW n \in Nat, z.t # "number"
               PROVE  Decoded(<<x, Num(n), z>>, Num(0)) = Num(n)
    OBVIOUS
  <2> DEFINE b == <<x, Num(n), z>>
  <2>1. b \in Seq(Value) /\ Len(b) = 3 /\ b[2] = Num(n) /\ b[3] = z
    BY ValueType, Tuples
  <2>2. Num(n).t = "number" /\ Num(0).t = "number"
    BY ValueType DEF Words
  <2> HIDE DEF b
  <2>3. 2 \in 1..Len(b) /\ b[2].t = Num(0).t /\ \A j \in (2 + 1)..Len(b) : b[j].t # Num(0).t
    <3>1. 2 \in 1..Len(b) /\ b[2].t = Num(0).t
      BY <2>1, <2>2
    <3>2. \A j \in (2 + 1)..Len(b) : j = 3
      BY <2>1
    <3> QED BY <2>1, <2>2, <3>1, <3>2
  <2>4. Decoded(b, Num(0)) = b[2]
    BY <2>1, <2>3, DecodedIsLast
  <2> QED BY <2>1, <2>4 DEF b
<1>3. \A x, y, z, v, default \in Value : v.t = default.t => Decoded(<<x, y, z, v>>, default) = v
  <2> SUFFICES ASSUME NEW x \in Value, NEW y \in Value, NEW z \in Value, NEW v \in Value, NEW default \in Value, v.t = default.t
               PROVE  Decoded(<<x, y, z, v>>, default) = v
    OBVIOUS
  <2> DEFINE b == <<x, y, z, v>>
  <2>1. b \in Seq(Value) /\ Len(b) = 4 /\ b[4] = v
    BY Tuples
  <2> HIDE DEF b
  <2>2. 4 \in 1..Len(b) /\ (4 + 1)..Len(b) = {} /\ b[4].t = default.t
    BY <2>1
  <2>3. Decoded(b, default) = b[4]
    BY <2>1, <2>2, DecodedIsLast
  <2> QED BY <2>1, <2>3 DEF b
<1>4. Number(SizeIs.body) = MaxChunk
  <2>1. SizeIs.body = <<Num(MaxChunk)>>
    BY DEF SizeIs, Control
  <2> QED BY <1>0, <1>1, <2>1, ValueType DEF Number
<1>5. Number(Connect) = 1
  <2>1. Str("connect") \in Value /\ Obj("none") \in Value /\ Obj("none").t # "number"
    BY ValueType DEF Words
  <2>2. Decoded(Connect, Num(0)) = Num(1)
    BY <1>2, <2>1 DEF Connect
  <2> QED BY <2>2, ValueType DEF Number
<1>6. Number(CreateStream) = 2
  <2>1. Str("createStream") \in Value /\ Null \in Value /\ Null.t # "number"
    BY ValueType DEF Words
  <2>2. Decoded(CreateStream, Num(0)) = Num(2)
    BY <1>2, <2>1 DEF CreateStream
  <2> QED BY <2>2, ValueType DEF Number
<1>7. Number(Answer2.body) = StreamId
  <2>0. "_result" \in Words
    BY DEF Words
  <2>a. Num(StreamId).t = Num(0).t /\ Num(StreamId).n = StreamId /\ Num(StreamId) \in Value
    BY <1>0, ValueType
  <2>b. Num(2) \in Value /\ Num(0) \in Value
    BY ValueType
  <2>1. Str("_result") \in Value /\ Num(2) \in Value /\ Null \in Value /\ Num(StreamId) \in Value /\ Num(0) \in Value
        /\ Num(StreamId).t = Num(0).t /\ Num(StreamId).n = StreamId
    BY <2>0, <2>a, <2>b, ValueType
  <2>2. Answer2.body = <<Str("_result"), Num(2), Null, Num(StreamId)>>
    BY DEF Answer2, Request
  <2>3. Decoded(Answer2.body, Num(0)) = Num(StreamId)
    BY <1>3, <2>1, <2>2
  <2> QED BY <2>1, <2>3 DEF Number
<1>8. Code(Answer1.body) = "NetConnection.Connect.Success"
  <2> DEFINE o == Obj("NetConnection.Connect.Success")
  <2>1. Str("_result") \in Value /\ Num(1) \in Value /\ Obj("none") \in Value /\ o \in Value
        /\ o.t = Obj("none").t /\ o.s = "NetConnection.Connect.Success"
    BY ValueType, ZenonT(40) DEF Words
  <2>2. Answer1.body = <<Str("_result"), Num(1), Obj("none"), o>>
    BY DEF Answer1, Request
  <2> HIDE DEF o
  <2>3. Decoded(Answer1.body, Obj("none")) = o
    BY <1>3, <2>1, <2>2
  <2> QED BY <2>1, <2>3 DEF Code
<1>9. ASSUME NEW code \in Codes PROVE Code(Status(code).body) = code
  <2> DEFINE o == Obj(code)
  <2>0. code \in Words /\ "none" \in Words /\ "onStatus" \in Words
    BY DEF Codes, Words
  <2>a. Obj("none") \in Value /\ o \in Value /\ o.t = Obj("none").t /\ o.s = code
    BY <2>0, ValueType
  <2>1. Str("onStatus") \in Value /\ Num(0) \in Value /\ Null \in Value /\ Obj("none") \in Value /\ o \in Value
        /\ o.t = Obj("none").t /\ o.s = code
    BY <2>0, <2>a, ValueType
  <2>2. Status(code).body = <<Str("onStatus"), Num(0), Null, o>>
    BY DEF Status, Request
  <2> HIDE DEF o
  <2>3. Decoded(Status(code).body, Obj("none")) = o
    BY <1>3, <2>1, <2>2
  <2> QED BY <2>1, <2>3 DEF Code
<1> QED BY <1>4, <1>5, <1>6, <1>7, <1>8, <1>9

-----------------------------------------------------------------------------
(* An end and the messages on their way to it *)

\* What has been handled is the beginning of what was sent.
Matches(gs, ms) == Len(gs) <= Len(ms) /\ \A i \in 1..Len(gs) : gs[i] = ms[i]

\* An end with the parser p, which has handled gs and to which t is under way, reads the messages ms.
ReadsOn(e, ms, gs, p, t) ==
  /\ Matches(gs, ms)
  /\ p.in = SizeAt(e, Len(gs) + 1)
  /\ \E d \in Nat : /\ Carries(e, ms, Len(gs), d, t)
                    /\ IF Len(gs) < Len(ms) THEN ParserAt(p, ms[Len(gs) + 1], d) ELSE PIdle(p)

\* Before that, an end waits for the handshake packet h, and what was sent comes behind it.
Waits(e, h, ms, gs, p, t) ==
  /\ gs = <<>> /\ PIdle(p) /\ p.in = DefaultChunk
  /\ \/ ms = <<>> /\ t = <<>>
     \/ t # <<>> /\ t[1] = [kind |-> h] /\ Carries(e, ms, 0, 0, Tail(t))

FlowOf(e, h, ms, gs, p, t) == IF h = "COMPLETE" THEN ReadsOn(e, ms, gs, p, t) ELSE Waits(e, h, ms, gs, p, t)

LEMMA SizeChanges ==
  ASSUME NEW e \in Ends, NEW i \in Nat \ {0}, NEW m, Says(e, i, m)
  PROVE  IF m.type = "SetChunkSize" THEN Number(m.body) = SizeAt(e, i + 1) ELSE SizeAt(e, i + 1) = SizeAt(e, i)
<1>1. SizeIs.type = "SetChunkSize" /\ Number(SizeIs.body) = MaxChunk
  BY Meanings DEF SizeIs, Control
<1>2. CASE e = "server"
  <2>1. Asks(i, m) /\ SizeAt(e, i + 1) = MaxChunk /\ (i > 1 => SizeAt(e, i) = MaxChunk)
    BY <1>2 DEF Says, SizeAt
  <2>2. CASE i = 1
    BY <1>1, <2>1, <2>2 DEF Asks
  <2>3. CASE i = 2
    BY <2>1, <2>3 DEF Asks, Request
  <2>4. CASE i = 3
    BY <2>1, <2>4 DEF Asks, Request
  <2>5. CASE i = 4
    BY <2>1, <2>5 DEF Asks, Request
  <2>6. CASE i > 4
    <3>1. m \in MediaMessages
      BY <2>1, <2>6 DEF Asks
    <3>2. m.type # "SetChunkSize"
      BY <3>1 DEF MediaMessages, Packet
    <3> QED BY <2>1, <2>6, <3>2
  <2>7. i = 1 \/ i = 2 \/ i = 3 \/ i = 4 \/ i > 4
    OBVIOUS
  <2> QED BY <2>2, <2>3, <2>4, <2>5, <2>6, <2>7
<1>3. CASE e = "client"
  <2>1. Answers(i, m) /\ SizeAt(e, i + 1) = (IF i + 1 > 3 THEN MaxChunk ELSE DefaultChunk)
        /\ SizeAt(e, i) = (IF i > 3 THEN MaxChunk ELSE DefaultChunk)
    BY <1>3 DEF Says, SizeAt
  <2>2. i \in 1..6
    BY <2>1 DEF Answers
  <2>3. CASE i = 1
    BY <2>1, <2>3 DEF Answers, Control
  <2>4. CASE i = 2
    BY <2>1, <2>4 DEF Answers, Control
  <2>5. CASE i = 3
    BY <1>1, <2>1, <2>5 DEF Answers
  <2>6. CASE i = 4
    BY <2>1, <2>6 DEF Answers, Answer1, Request
  <2>7. CASE i = 5
    BY <2>1, <2>7 DEF Answers, Answer2, Request
  <2>8. CASE i = 6
    <3>1. m \in {Status(code) : code \in Codes}
      BY <2>1, <2>8 DEF Answers
    <3>2. m.type # "SetChunkSize"
      BY <3>1 DEF Status, Request
    <3> QED BY <2>1, <2>8, <3>2
  <2> QED BY <2>2, <2>3, <2>4, <2>5, <2>6, <2>7, <2>8
<1> QED BY <1>2, <1>3 DEF Ends

LEMMA ItemsApart ==
  ASSUME NEW a \in Seq(Item), NEW b \in Seq(Item)
  PROVE  /\ a \o b \in Seq(Item) /\ Len(a \o b) = Len(a) + Len(b)
         /\ \A k \in 1..Len(a) : (a \o b)[k] = a[k]
         /\ \A u \in 0..Len(a) : SubSeq(a \o b, u + 1, Len(a \o b)) = SubSeq(a, u + 1, Len(a)) \o b
<1>1. /\ a \o b \in Seq(Item) /\ Len(a \o b) = Len(a) + Len(b)
      /\ \A k \in 1..Len(a) : (a \o b)[k] = a[k]
      /\ \A k \in 1..Len(b) : (a \o b)[Len(a) + k] = b[k]
  BY ItemsJoined
<1>2. ASSUME NEW u \in 0..Len(a) PROVE SubSeq(a \o b, u + 1, Len(a \o b)) = SubSeq(a, u + 1, Len(a)) \o b
  <2> DEFINE t == a \o b
             l == SubSeq(t, u + 1, Len(t))
             x == SubSeq(a, u + 1, Len(a))
             r == x \o b
             n == Len(a)
             m == Len(b)
  <2>0. n \in Nat /\ m \in Nat
    OBVIOUS
  <2>1. t \in Seq(Item) /\ Len(t) = n + m /\ (\A k \in 1..n : t[k] = a[k]) /\ (\A k \in 1..m : t[n + k] = b[k])
    BY <1>1
  <2>2. x \in Seq(Item) /\ Len(x) = n - u /\ \A k \in 1..(n - u) : x[k] = a[u + k]
    BY <2>0
  <2> HIDE DEF t, x
  <2>3. r \in Seq(Item) /\ Len(r) = n - u + m /\ (\A k \in 1..(n - u) : r[k] = x[k]) /\ \A k \in 1..m : r[n - u + k] = b[k]
    <3>1. /\ r \in Seq(Item) /\ Len(r) = Len(x) + m /\ (\A k \in 1..Len(x) : r[k] = x[k])
          /\ \A k \in 1..m : r[Len(x) + k] = b[k]
      BY <2>2, ItemsJoined
    <3> HIDE DEF r, m
    <3> QED BY <2>2, <3>1
  <2>4. l \in Seq(Item) /\ Len(l) = n + m - u /\ \A k \in 1..(n + m - u) : l[k] = t[u + k]
    BY <2>0, <2>1
  <2> HIDE DEF l, r, n, m
  <2>5. ASSUME NEW k \in 1..(n + m - u) PROVE l[k] = r[k]
    <3>1. CASE k <= n - u
      <4>1. k \in 1..(n - u) /\ u + k \in 1..n
        BY <2>0, <3>1 DEF n
      <4> QED BY <2>1, <2>2, <2>3, <2>4, <4>1
    <3>2. CASE k > n - u
      <4> DEFINE j == k - (n - u)
      <4>1. j \in 1..m /\ n - u + j = k /\ n + j = u + k
        BY <2>0, <3>2 DEF n
      <4> HIDE DEF j
      <4>2. r[k] = b[j] /\ t[u + k] = b[j]
        BY <2>1, <2>3, <4>1
      <4> QED BY <2>4, <4>2
    <3>3. k <= n - u \/ k > n - u
      BY <2>0 DEF n
    <3> QED BY <3>1, <3>2, <3>3
  <2>6. n - u + m = n + m - u
    BY <2>0 DEF n
  <2>7. l = r
    BY <2>3, <2>4, <2>5, <2>6
  <2> QED BY <2>7 DEF l, r, t, x
<1> QED BY <1>1, <1>2

LEMMA ItemsAssociate == \A a, b, c \in Seq(Item) : (a \o b) \o c = a \o (b \o c)
BY ConcatAssociative

\* What an end takes of its buffer b, p2 being under way behind it.
LEMMA ReaderTakes ==
  ASSUME NEW e \in Ends, NEW ms \in Seq(MessageSet), NEW gs \in Seq(MessageSet), NEW p \in ParserType,
         NEW b \in Seq(Item), b # <<>>, NEW p2 \in Seq(Item), SaysAll(e, ms), ReadsOn(e, ms, gs, p, b \o p2)
  PROVE  LET r == Parse(p, b)
             rest == SubSeq(b, r.used + 1, Len(b))
             m == ms[Len(gs) + 1]
         IN  /\ r.used \in 0..Len(b) /\ rest \in Seq(Item) /\ InSize(r) \in ParserType
             /\ Len(gs) < Len(ms)
             /\ \/ r.msgs = <<>> /\ ReadsOn(e, ms, gs, InSize(r), rest \o p2)
                \/ r.msgs = <<m>> /\ ReadsOn(e, ms, Append(gs, m), InSize(r), rest \o p2)
<1> DEFINE r == Parse(p, b)
           rest == SubSeq(b, r.used + 1, Len(b))
           t == b \o p2
           g == Len(gs)
           m == ms[g + 1]
           i == g + 1
           l == ChunkLen(m, p.in)
<1>1. t \in Seq(Item) /\ Len(t) = Len(b) + Len(p2) /\ Len(b) \in Nat /\ Len(p2) \in Nat /\ \A k \in 1..Len(b) : t[k] = b[k]
  BY ItemsApart
<1>2. Len(b) >= 1 /\ t # <<>>
  <2>1. Len(b) # 0
    OBVIOUS
  <2>2. Len(b) >= 1 /\ Len(t) >= 1
    BY <1>1, <2>1
  <2> HIDE DEF t
  <2> QED BY <1>1, <2>2
<1> HIDE DEF t
<1>3. g \in 0..Len(ms) /\ Matches(gs, ms) /\ p.in = SizeAt(e, i)
  BY DEF ReadsOn, Matches, t
<1>4. PICK d \in Nat : /\ Carries(e, ms, g, d, t)
                       /\ IF g < Len(ms) THEN ParserAt(p, m, d) ELSE PIdle(p)
  BY DEF ReadsOn, t
<1>5. g < Len(ms)
  <2>1. g = Len(ms) => t = <<>>
    BY <1>1, <1>3, <1>4, CarriesHead
  <2> QED BY <1>2, <1>3, <2>1
<1>6. m \in MessageSet /\ Says(e, i, m) /\ i \in Nat \ {0} /\ i \in 1..Len(ms)
  BY <1>3, <1>5 DEF SaysAll
<1>7. l \in Nat /\ \A k \in (d + 1)..l : t[k - d] = ChunkItem(m, p.in, k)
  <2> HIDE DEF g
  <2>1. /\ ChunkLen(ms[g + 1], SizeAt(e, g + 1)) \in Nat
        /\ \A k \in (d + 1)..ChunkLen(ms[g + 1], SizeAt(e, g + 1)) : t[k - d] = ChunkItem(ms[g + 1], SizeAt(e, g + 1), k)
    BY <1>1, <1>3, <1>4, <1>5, CarriesHead
  <2> QED BY <1>3, <2>1
<1> HIDE DEF l, m, g
<1>8. ASSUME NEW k \in 1..Len(b), d + k <= l PROVE b[k] = ChunkItem(m, p.in, d + k)
  <2>1. d + k \in (d + 1)..l /\ d + k - d = k
    BY <1>7, <1>8
  <2>2. t[k] = ChunkItem(m, p.in, d + k)
    BY <1>7, <2>1
  <2> QED BY <1>1, <2>2
<1>9. /\ r.used \in 0..Len(b) /\ r.parser \in ParserType /\ r.parser.in = p.in
      /\ \/ r.msgs = <<>> /\ ParserAt(r.parser, m, d + r.used)
         \/ r.msgs = <<m>> /\ d + r.used = l /\ PIdle(r.parser)
  BY <1>4, <1>5, <1>6, <1>8, ParseYields DEF l
<1> HIDE DEF r
<1> DEFINE rest2 == rest \o p2
           q == InSize(r)
<1>10. rest \in Seq(Item) /\ rest2 \in Seq(Item) /\ rest2 = SubSeq(t, r.used + 1, Len(t))
  <2>1. rest \in Seq(Item)
    BY <1>9
  <2> QED BY <1>9, <2>1, ItemsApart DEF t
<1>11. Carries(e, ms, g, d + r.used, rest2) /\ r.used \in Nat /\ d + r.used \in Nat
  <2>1. r.used \in 0..Len(t)
    BY <1>1, <1>9
  <2>2. Carries(e, ms, g, d + r.used, SubSeq(t, r.used + 1, Len(t)))
    BY <1>1, <1>3, <1>4, <2>1, CarriesTake
  <2>3. r.used \in Nat /\ d + r.used \in Nat
    BY <1>1, <2>1
  <2> HIDE DEF rest2
  <2> QED BY <1>10, <2>2, <2>3
<1> HIDE DEF rest, rest2, i
<1>12. CASE r.msgs = <<>>
  <2>1. q = r.parser
    BY <1>12 DEF InSize
  <2>2. ParserAt(r.parser, m, d + r.used)
    <3>1. r.msgs # <<m>>
      BY <1>12
    <3> QED BY <1>9, <3>1
  <2> HIDE DEF q
  <2>3. ReadsOn(e, ms, gs, q, rest2)
    BY <1>3, <1>5, <1>9, <1>11, <2>1, <2>2 DEF ReadsOn, g, m, i
  <2> QED BY <1>5, <1>9, <1>10, <1>12, <2>1, <2>3 DEF q, r, rest, rest2, g
<1>13. CASE r.msgs = <<m>>
  <2>1. d + r.used = l /\ PIdle(r.parser)
    <3>1. r.msgs # <<>>
      BY <1>13
    <3> QED BY <1>9, <3>1
  <2> DEFINE all == Append(gs, m)
  <2>2. all \in Seq(MessageSet) /\ Len(all) = i /\ all[i] = m /\ \A k \in 1..g : all[k] = gs[k]
    BY <1>6 DEF g, i
  <2>3. i \in 0..Len(ms) /\ m = ms[i] /\ i = g + 1 /\ g \in Nat
    BY <1>6 DEF m, g, i
  <2>4. Matches(all, ms)
    <3> HIDE DEF all
    <3>1. Len(all) <= Len(ms)
      BY <2>2, <2>3
    <3>2. ASSUME NEW k \in 1..Len(all) PROVE all[k] = ms[k]
      <4>1. CASE k = i
        BY <2>2, <2>3, <4>1
      <4>2. CASE k # i
        <5>1. k \in 1..g
          BY <2>2, <2>3, <4>2
        <5> QED BY <1>3, <2>2, <5>1 DEF Matches, g
      <4> QED BY <4>1, <4>2
    <3> QED BY <3>1, <3>2 DEF Matches
  <2> HIDE DEF all
  <2>5. q.in = SizeAt(e, i + 1) /\ q \in ParserType /\ PIdle(q)
    <3>0. /\ r.msgs # <<>> /\ r.msgs[1] = m
      BY <1>13
    <3>1. CASE m.type = "SetChunkSize"
      <4>1. Number(m.body) = SizeAt(e, i + 1)
        BY <1>6, <3>1, SizeChanges
      <4>2. q = [r.parser EXCEPT !.in = Number(m.body)]
        BY <3>0, <3>1 DEF InSize
      <4>3. SizeAt(e, i + 1) \in {DefaultChunk, MaxChunk}
        BY DEF SizeAt
      <4> HIDE DEF q
      <4> QED BY <1>9, <2>1, <4>1, <4>2, <4>3 DEF ParserType, PIdle
    <3>2. CASE m.type # "SetChunkSize"
      <4>1. SizeAt(e, i + 1) = SizeAt(e, i)
        BY <1>6, <3>2, SizeChanges
      <4>2. q = r.parser
        BY <3>0, <3>2 DEF InSize
      <4> QED BY <1>3, <1>9, <2>1, <4>1, <4>2
    <3> QED BY <3>1, <3>2
  <2> HIDE DEF q
  <2>6. Carries(e, ms, i, 0, rest2)
    <3>1. Carries(e, ms, g, ChunkLen(ms[g + 1], SizeAt(e, g + 1)), rest2)
      BY <1>3, <1>11, <2>1, <2>3 DEF l
    <3>2. g \in 0..(Len(ms) - 1)
      BY <1>3, <1>5
    <3> QED BY <1>10, <2>3, <3>1, <3>2, CarriesNext
  <2>7. i < Len(ms) => ParserAt(q, ms[i + 1], 0)
    BY <2>5 DEF ParserAt
  <2>8. ReadsOn(e, ms, all, q, rest2)
    <3>1. 0 \in Nat
      OBVIOUS
    <3>2. IF i < Len(ms) THEN ParserAt(q, ms[i + 1], 0) ELSE PIdle(q)
      BY <2>5, <2>7
    <3> QED BY <2>2, <2>4, <2>5, <2>6, <3>1, <3>2 DEF ReadsOn
  <2> QED BY <1>5, <1>9, <1>10, <1>13, <2>5, <2>8 DEF q, r, rest, rest2, g, m, all
<1> QED BY <1>9, <1>12, <1>13 DEF r, m, g

\* What is sent to an end goes behind all that is under way to it.
LEMMA FlowAppend ==
  ASSUME NEW e \in Ends, NEW h, NEW ms \in Seq(MessageSet), NEW gs \in Seq(MessageSet), NEW p \in ParserType,
         NEW t \in Seq(Item), FlowOf(e, h, ms, gs, p, t), h = "COMPLETE" \/ ms # <<>>,
         NEW m \in MessageSet, NEW size \in Nat \ {0}, size = SizeAt(e, Len(ms) + 1) \/ m.len = 1
  PROVE  FlowOf(e, h, Append(ms, m), gs, p, t \o CreateChunk(m, size))
<1> DEFINE all == Append(ms, m)
           c == CreateChunk(m, size)
           s == t \o c
<1>0. c \in Seq(Item)
  BY ChunkType
<1> HIDE DEF c
<1>1. c \in Seq(Item) /\ s \in Seq(Item) /\ Len(ms) \in Nat /\ Len(gs) \in Nat
  <2>1. s \in Seq(Item)
    BY <1>0
  <2> QED BY <1>0, <2>1
<1>2. all # <<>> /\ Len(all) = Len(ms) + 1 /\ \A i \in 1..Len(ms) : all[i] = ms[i]
  OBVIOUS
<1>3. all[Len(ms) + 1] = m
  OBVIOUS
<1> HIDE DEF all
<1>4. CASE h = "COMPLETE"
  <2>1. Matches(gs, ms) /\ p.in = SizeAt(e, Len(gs) + 1)
    BY <1>4 DEF FlowOf, ReadsOn
  <2>2. PICK d \in Nat : /\ Carries(e, ms, Len(gs), d, t)
                         /\ IF Len(gs) < Len(ms) THEN ParserAt(p, ms[Len(gs) + 1], d) ELSE PIdle(p)
    BY <1>4 DEF FlowOf, ReadsOn
  <2>3. Len(gs) \in 0..Len(ms)
    BY <1>1, <2>1 DEF Matches
  <2>4. Carries(e, all, Len(gs), d, s)
    BY <2>2, <2>3, CarriesAppend DEF all, c
  <2>5. Matches(gs, all)
    BY <1>1, <1>2, <2>1 DEF Matches
  <2>6. Len(gs) < Len(all) /\ ParserAt(p, all[Len(gs) + 1], d)
    <3>1. CASE Len(gs) < Len(ms)
      <4>1. all[Len(gs) + 1] = ms[Len(gs) + 1]
        BY <1>1, <1>2, <3>1, SMTT(30)
      <4> QED BY <1>1, <1>2, <2>2, <3>1, <4>1
    <3>2. CASE Len(gs) = Len(ms)
      <4>1. d = 0
        BY <2>2, <2>3, <3>2, CarriesHead
      <4>2. PIdle(p)
        BY <1>1, <2>2, <3>2
      <4> QED BY <1>1, <1>2, <3>2, <4>1, <4>2 DEF ParserAt
    <3> QED BY <1>1, <2>3, <3>1, <3>2
  <2> HIDE DEF s
  <2>7. ReadsOn(e, all, gs, p, s)
    BY <2>1, <2>4, <2>5, <2>6 DEF ReadsOn
  <2> QED BY <1>4, <2>7 DEF FlowOf, all, s, c
<1>5. CASE h # "COMPLETE"
  <2>1. /\ gs = <<>> /\ PIdle(p) /\ p.in = DefaultChunk
        /\ t # <<>> /\ t[1] = [kind |-> h] /\ Carries(e, ms, 0, 0, Tail(t))
    BY <1>5 DEF FlowOf, Waits
  <2>2. Tail(t) \in Seq(Item) /\ Len(t) \in Nat /\ Len(t) # 0
    BY <2>1
  <2> HIDE DEF c
  <2>3. s # <<>> /\ s[1] = t[1] /\ Tail(s) = Tail(t) \o c
    <3>1. /\ Len(s) = Len(t) + Len(c) /\ Len(c) \in Nat /\ s[1] = t[1]
          /\ SubSeq(s, 2, Len(s)) = SubSeq(t, 2, Len(t)) \o c
      <4>1. 1 \in 0..Len(t) /\ 1 \in 1..Len(t) /\ 1 + 1 = 2
        BY <2>2
      <4> QED BY <1>1, <4>1, ItemsApart
    <3> HIDE DEF s
    <3>2. s # <<>>
      BY <1>1, <2>2, <3>1
    <3>3. Tail(s) = SubSeq(s, 2, Len(s)) /\ Tail(t) = SubSeq(t, 2, Len(t))
      BY <1>1, <2>1, <3>2
    <3> QED BY <3>1, <3>2, <3>3
  <2>4. Carries(e, all, 0, 0, Tail(t) \o c)
    <3>1. 0 \in 0..Len(ms) /\ 0 \in Nat
      BY <1>1
    <3> QED BY <2>1, <2>2, <3>1, CarriesAppend DEF all, c
  <2> HIDE DEF s
  <2>5. Waits(e, h, all, gs, p, s)
    BY <2>1, <2>3, <2>4 DEF Waits
  <2> QED BY <1>5, <2>5 DEF FlowOf, all, s, c
<1> QED BY <1>4, <1>5

-----------------------------------------------------------------------------
(* The inductive invariant *)

Items(e) == buf[e] \o pipe[e]

Both == open["client"] /\ open["server"]

StreamTypes ==
  /\ pipe \in [Ends -> Seq(Item)] /\ buf \in [Ends -> Seq(Item)]
  /\ parser \in [Ends -> ParserType] /\ outSize \in [Ends -> {DefaultChunk, MaxChunk}]
  /\ sent \in [Ends -> Seq(MessageSet)] /\ got \in [Ends -> Seq(MessageSet)]

ConnTypes ==
  /\ hs \in [Ends -> {"C0C1", "S0S1S2", "C2", "COMPLETE"}]
  /\ open \in [Ends -> BOOLEAN] /\ reading \in [Ends -> BOOLEAN]
  /\ state \in [Ends -> {"HANDSHAKE", "CONNECT", "CREATE_STREAM", "PUBLISH"}]
  /\ streamId \in [Ends -> {0, StreamId}]
  /\ published \in BOOLEAN

PushTypes ==
  /\ manager \in {"new", "initialized", "opened", "running", "exiting", "closing", "joining", "closed", "crashed"}
  /\ exit \in BOOLEAN /\ connected \in BOOLEAN /\ hasKey \in BOOLEAN
  /\ pusher \in {"none", "open", "reset"}
  /\ thread \in [Threads -> {"off", "top", "frame", "push", "aac", "body", "done"}]
  /\ frames \in 0..MaxFrames

\* How far the handshake is.
Hands ==
  /\ hs["client"] \in {"S0S1S2", "COMPLETE"} /\ hs["server"] \in {"C0C1", "C2", "COMPLETE"}
  /\ hs["client"] = "S0S1S2" => sent["server"] = <<>> /\ hs["server"] # "COMPLETE"
  /\ hs["client"] = "S0S1S2" /\ hs["server"] = "C2" => Items("server") = <<>>
  /\ hs["server"] = "C0C1" => hs["client"] = "S0S1S2" /\ Items("client") = <<>>

Reading == \A e \in Ends : reading[e] => buf[e] # <<>>

\* Before there is a connection.
Unopened ==
  manager \in {"new", "initialized"} =>
    /\ \A e \in Ends : Items(e) = <<>> /\ sent[e] = <<>> /\ ~open[e]
    /\ hs["client"] = "S0S1S2" /\ hs["server"] = "C0C1"

\* How the dialogue goes on with the messages that have been handled: g of them by the client ...
ClientIs(h, g, at, id, size, pub) ==
  /\ at = IF h # "COMPLETE" THEN "HANDSHAKE" ELSE IF g < 4 THEN "CONNECT" ELSE IF g = 4 THEN "CREATE_STREAM" ELSE "PUBLISH"
  /\ id = IF g < 5 THEN 0 ELSE StreamId
  /\ size = IF h = "COMPLETE" THEN MaxChunk ELSE DefaultChunk
  /\ pub => g >= 6

\* ... and by the server.
ServerIs(g, at, id, size) ==
  /\ at \in {"HANDSHAKE", "PUBLISH"} /\ (at = "PUBLISH" => g >= 4)
  /\ id = IF g < 3 THEN 0 ELSE StreamId
  /\ size = IF g < 2 THEN DefaultChunk ELSE MaxChunk

\* How many messages the server has sent when it has handled g, and the client when it has got so far.
Answered(g) == IF g < 2 THEN 0 ELSE IF g = 2 THEN 4 ELSE IF g = 3 THEN 5 ELSE 6
Asked(at, pub, n) ==
  /\ at = "HANDSHAKE" => n = 0
  /\ at = "CONNECT" => n = 2
  /\ at = "CREATE_STREAM" => n = 3
  /\ at = "PUBLISH" /\ ~pub => n = 4
  /\ pub => n >= 4

Spoken == \A e \in Ends : SaysAll(e, sent[e])
ClientState == ClientIs(hs["client"], Len(got["client"]), state["client"], streamId["client"], outSize["client"], published)
ServerState == ServerIs(Len(got["server"]), state["server"], streamId["server"], outSize["server"])
Talking == Both => Len(sent["client"]) = Answered(Len(got["server"])) /\ Asked(state["client"], published, Len(sent["server"]))
Pushing == (\E t \in Threads : thread[t] \in {"push", "aac", "body"}) => published

FlowTo(e) == FlowOf(e, hs[e], sent[e], got[e], parser[e], Items(e))
Flow == \A e \in Ends : FlowTo(e)

PublishInv ==
  /\ StreamTypes /\ ConnTypes /\ PushTypes
  /\ Hands /\ Reading /\ Unopened
  /\ Spoken /\ ClientState /\ ServerState /\ Talking /\ Pushing
  /\ Flow

LEMMA EndsApart == "client" \in Ends /\ "server" \in Ends /\ \A e \in Ends : Peer(e) \in Ends /\ Peer(e) # e /\ Ends = {e, Peer(e)}
BY DEF Ends, Peer

\* Steps that leave the streams and the dialogue alone, and at most close connections.
LEMMA QuietStep ==
  ASSUME PublishInv, UNCHANGED <<streamVars, hs, reading, state, streamId, published>>, PushTypes',
         open' \in [Ends -> BOOLEAN], \A e \in Ends : open'[e] => open[e],
         manager' \in {"new", "initialized"} => manager \in {"new", "initialized"}, Pushing'
  PROVE  PublishInv'
<1>1. StreamTypes' /\ ConnTypes'
  BY DEF PublishInv, StreamTypes, ConnTypes, streamVars
<1>2. Hands' /\ Reading'
  BY DEF PublishInv, Hands, Reading, Items, streamVars
<1>3. Unopened'
  BY DEF PublishInv, Unopened, Items, streamVars
<1>4. Spoken' /\ ClientState' /\ ServerState'
  BY DEF PublishInv, Spoken, ClientState, ServerState, streamVars
<1>5. Talking'
  <2>1. Both' => Both
    BY EndsApart DEF Both
  <2> QED BY <2>1 DEF PublishInv, Talking, streamVars
<1>6. Flow'
  BY DEF PublishInv, Flow, FlowTo, Items, streamVars
<1> QED BY <1>1, <1>2, <1>3, <1>4, <1>5, <1>6 DEF PublishInv

\* The client's threads and its manager.
LEMMA ThreadType ==
  ASSUME PushTypes, NEW t \in Threads, NEW at \in {"off", "top", "frame", "push", "aac", "body", "done"}, Goto(t, at)
  PROVE  /\ thread' \in [Threads -> {"off", "top", "frame", "push", "aac", "body", "done"}]
         /\ \A u \in Threads : thread'[u] = IF u = t THEN at ELSE thread[u]
BY DEF PushTypes, Goto

LEMMA QuietThreads ==
  ASSUME PublishInv, NEW t \in Threads, LoopTop(t) \/ NoFrame(t) \/ (Warm /\ Push(t)) \/ Gone(t)
  PROVE  PublishInv'
<1> DEFINE kept == UNCHANGED <<streamVars, hs, reading, state, streamId, published>>
<1>0. PushTypes /\ Pushing /\ open \in [Ends -> BOOLEAN]
  BY DEF PublishInv, ConnTypes
<1>1. CASE LoopTop(t)
  <2>1. kept /\ open' = open /\ PushTypes' /\ Pushing' /\ manager' = manager
    <3>1. Goto(t, IF exit \/ ~connected THEN "done" ELSE "frame")
      BY <1>1 DEF LoopTop
    <3> QED BY <1>0, <1>1, <3>1, ThreadType DEF LoopTop, PushTypes, Pushing, connVars
  <2> QED BY <1>0, <2>1, QuietStep
<1>2. CASE NoFrame(t)
  <2>1. kept /\ open' = open /\ PushTypes' /\ Pushing' /\ manager' = manager
    <3>1. Goto(t, "top")
      BY <1>2 DEF NoFrame
    <3> QED BY <1>0, <1>2, <3>1, ThreadType DEF NoFrame, PushTypes, Pushing, connVars
  <2> QED BY <1>0, <2>1, QuietStep
<1>3. CASE Warm /\ Push(t)
  <2>1. kept /\ open' = open /\ manager' = manager
    BY <1>3 DEF Push, connVars
  <2>2. Pushing'
    BY <1>3, <2>1 DEF Pushing, Warm
  <2>3. PushTypes'
    <3>1. Goto(t, "push")
      BY <1>3 DEF Push
    <3>2. frames' \in 0..MaxFrames
      BY <1>0, <1>3, FramesAssumption DEF Push, PushTypes
    <3> QED BY <1>0, <1>3, <3>1, <3>2, ThreadType DEF Push, PushTypes
  <2> QED BY <1>0, <2>1, <2>2, <2>3, QuietStep
<1>4. CASE Gone(t)
  <2>1. kept /\ open' = open
    BY <1>4 DEF Gone, connVars
  <2>2. CASE manager' = "crashed" /\ UNCHANGED thread
    <3>1. PushTypes' /\ Pushing'
      BY <1>0, <1>4, <2>1, <2>2 DEF Gone, PushTypes, Pushing
    <3> QED BY <1>0, <2>1, <2>2, <3>1, QuietStep
  <2>3. CASE Goto(t, "top") /\ UNCHANGED manager
    <3>1. PushTypes' /\ Pushing'
      BY <1>0, <1>4, <2>1, <2>3, ThreadType DEF Gone, PushTypes, Pushing
    <3> QED BY <1>0, <2>1, <2>3, <3>1, QuietStep
  <2> QED BY <1>4, <2>2, <2>3 DEF Gone
<1> QED BY <1>1, <1>2, <1>3, <1>4

LEMMA QuietManager ==
  ASSUME PublishInv, PrepareCapture \/ StartThreads \/ CloseStart \/ ClosePusher \/ Stop \/ (OpenUrl /\ manager' = "closed")
  PROVE  PublishInv'
<1> DEFINE kept == UNCHANGED <<streamVars, hs, reading, state, streamId, published>>
<1>0. PushTypes /\ Pushing /\ open \in [Ends -> BOOLEAN]
  BY DEF PublishInv, ConnTypes
<1>1. CASE PrepareCapture
  <2>1. kept /\ open' = open /\ PushTypes' /\ Pushing' /\ manager \in {"new", "initialized"}
    BY <1>0, <1>1 DEF PrepareCapture, PushTypes, Pushing, connVars
  <2> QED BY <1>0, <2>1, QuietStep
<1>2. CASE StartThreads
  <2>1. kept /\ open' = open /\ manager' \notin {"new", "initialized"}
    BY <1>2 DEF StartThreads, connVars
  <2>2. PushTypes' /\ Pushing'
    BY <1>0, <1>2 DEF StartThreads, PushTypes, Pushing
  <2> QED BY <1>0, <2>1, <2>2, QuietStep
<1>3. CASE CloseStart
  <2>1. kept /\ open' = open /\ PushTypes' /\ Pushing' /\ manager' \notin {"new", "initialized"}
    BY <1>0, <1>3 DEF CloseStart, PushTypes, Pushing, connVars
  <2> QED BY <1>0, <2>1, QuietStep
<1>4. CASE ClosePusher
  <2>1. kept /\ PushTypes' /\ Pushing' /\ manager' \notin {"new", "initialized"}
    BY <1>0, <1>4 DEF ClosePusher, PushTypes, Pushing
  <2>2. open' \in [Ends -> BOOLEAN] /\ \A e \in Ends : open'[e] => open[e]
    BY <1>0, <1>4 DEF ClosePusher, Close
  <2> QED BY <2>1, <2>2, QuietStep
<1>5. CASE Stop
  <2>1. kept /\ open' = open /\ PushTypes' /\ Pushing' /\ manager' \notin {"new", "initialized"}
    BY <1>0, <1>5 DEF Stop, PushTypes, Pushing, connVars
  <2> QED BY <1>0, <2>1, QuietStep
<1>6. CASE OpenUrl /\ manager' = "closed"
  <2>1. open' = open /\ pipe' = pipe
    BY <1>6 DEF OpenUrl
  <2>2. kept /\ PushTypes' /\ Pushing' /\ manager' \notin {"new", "initialized"}
    BY <1>0, <1>6, <2>1 DEF OpenUrl, PushTypes, Pushing, streamVars
  <2> QED BY <1>0, <2>1, <2>2, QuietStep
<1> QED BY <1>1, <1>2, <1>3, <1>4, <1>5, <1>6

LEMMA QuietHangUp ==
  ASSUME PublishInv, NEW e \in Ends, HangUp(e)
  PROVE  PublishInv'
<1>1. /\ UNCHANGED <<streamVars, hs, reading, state, streamId, published>> /\ manager' = manager
      /\ UNCHANGED <<exit, connected, pusher, hasKey, thread, frames>>
  BY DEF HangUp, pushVars
<1>2. PushTypes' /\ Pushing'
  BY <1>1 DEF PublishInv, PushTypes, Pushing
<1>3. open' \in [Ends -> BOOLEAN] /\ \A f \in Ends : open'[f] => open[f]
  BY DEF HangUp, Close, PublishInv, ConnTypes
<1> QED BY <1>1, <1>2, <1>3, QuietStep

-----------------------------------------------------------------------------
(* Reading and sending *)

LEMMA ReadCuts ==
  ASSUME StreamTypes, NEW e \in Ends, ReadFromSocket(e)
  PROVE  /\ buf' \in [Ends -> Seq(Item)] /\ pipe' \in [Ends -> Seq(Item)]
         /\ buf'[e] # <<>> /\ \A f \in Ends \ {e} : buf'[f] = buf[f]
         /\ \A f \in Ends : buf'[f] \o pipe'[f] = buf[f] \o pipe[f]
<1> DEFINE b == buf[e]
           p == pipe[e]
<1>1. b \in Seq(Item) /\ p \in Seq(Item) /\ buf \in [Ends -> Seq(Item)] /\ pipe \in [Ends -> Seq(Item)]
  BY DEF StreamTypes
<1>2. PICK n \in 1..Len(p) : /\ buf' = [buf EXCEPT ![e] = b \o SubSeq(p, 1, n)]
                             /\ pipe' = [pipe EXCEPT ![e] = SubSeq(p, n + 1, Len(p))]
  BY DEF ReadFromSocket
<1> DEFINE x == SubSeq(p, 1, n)
           y == SubSeq(p, n + 1, Len(p))
<1>3. x \in Seq(Item) /\ y \in Seq(Item) /\ Len(x) = n /\ Len(y) = Len(p) - n /\ n \in Nat \ {0}
      /\ (\A k \in 1..n : x[k] = p[k]) /\ (\A k \in 1..(Len(p) - n) : y[k] = p[n + k])
  BY <1>1
<1>4. x \o y = p
  <2> HIDE DEF x, y, p
  <2>0. Len(p) \in Nat
    BY <1>1
  <2>a. x \o y \in Seq(Item) /\ Len(x \o y) = Len(x) + Len(y)
    BY <1>3, ItemsJoined
  <2>1. x \o y \in Seq(Item) /\ Len(x \o y) = Len(p) /\ Len(p) \in Nat
    BY <1>3, <2>0, <2>a
  <2>2. ASSUME NEW k \in 1..Len(p) PROVE (x \o y)[k] = p[k]
    <3>1. CASE k <= n
      <4>1. k \in 1..Len(x)
        BY <1>3, <3>1
      <4> QED BY <1>3, <4>1, ItemsJoined
    <3>2. CASE k > n
      <4> DEFINE j == k - n
      <4>1. j \in 1..Len(y) /\ n + j = k /\ j \in 1..(Len(p) - n)
        BY <1>3, <2>1, <3>2
      <4> HIDE DEF j
      <4>2. (x \o y)[n + j] = y[j]
        BY <1>3, <4>1, ItemsJoined
      <4> QED BY <1>3, <4>1, <4>2
    <3>3. k <= n \/ k > n
      BY <1>3, <2>1
    <3> QED BY <3>1, <3>2, <3>3
  <2> DEFINE z == x \o y
  <2>3. z \in Seq(Item) /\ p \in Seq(Item) /\ Len(z) = Len(p) /\ \A k \in 1..Len(p) : z[k] = p[k]
    BY <1>1, <2>1, <2>2
  <2> HIDE DEF z
  <2>4. z = p
    BY <2>3
  <2> QED BY <2>4 DEF z
<1> HIDE DEF x, y, b, p
<1>5. b \o x \in Seq(Item) /\ b \o x # <<>>
  <2>0. Len(b) \in Nat
    BY <1>1
  <2>1. b \o x \in Seq(Item) /\ Len(b \o x) = Len(b) + Len(x) /\ Len(b) \in Nat
    BY <1>1, <1>3, <2>0, ItemsJoined
  <2>2. Len(b \o x) # 0
    BY <1>3, <2>1
  <2>3. Len(<<>>) = 0
    OBVIOUS
  <2> QED BY <2>1, <2>2, <2>3
<1>6. buf'[e] = b \o x /\ pipe'[e] = y /\ \A f \in Ends \ {e} : buf'[f] = buf[f] /\ pipe'[f] = pipe[f]
  BY <1>1, <1>2 DEF x, y
<1>7. (b \o x) \o y = b \o p
  BY <1>1, <1>3, <1>4, ItemsAssociate
<1>8. buf' \in [Ends -> Seq(Item)] /\ pipe' \in [Ends -> Seq(Item)]
  BY <1>1, <1>2, <1>3, <1>5 DEF x, y
<1> QED BY <1>5, <1>6, <1>7, <1>8 DEF b, p

LEMMA ReadStep ==
  ASSUME PublishInv, NEW e \in Ends, HandleRead(e)
  PROVE  PublishInv'
<1>0. StreamTypes /\ ConnTypes
  BY DEF PublishInv
<1>1. /\ UNCHANGED <<parser, outSize, sent, got, hs, open, state, streamId, published>>
      /\ UNCHANGED <<manager, exit, connected, pusher, hasKey, thread, frames>>
      /\ reading' = [reading EXCEPT ![e] = TRUE]
  BY DEF HandleRead, pushVars
<1>2. /\ buf' \in [Ends -> Seq(Item)] /\ pipe' \in [Ends -> Seq(Item)]
      /\ buf'[e] # <<>> /\ \A f \in Ends \ {e} : buf'[f] = buf[f]
      /\ \A f \in Ends : buf'[f] \o pipe'[f] = buf[f] \o pipe[f]
  BY <1>0, ReadCuts DEF HandleRead
<1>3. StreamTypes' /\ ConnTypes' /\ PushTypes'
  BY <1>1, <1>2 DEF PublishInv, StreamTypes, ConnTypes, PushTypes
<1>4. \A f \in Ends : Items(f)' = Items(f)
  BY <1>2 DEF Items
<1>5. Reading'
  BY <1>0, <1>1, <1>2 DEF PublishInv, Reading, ConnTypes
<1>6. Hands' /\ Unopened'
  BY <1>1, <1>4, EndsApart DEF PublishInv, Hands, Unopened
<1>7. Spoken' /\ ClientState' /\ ServerState' /\ Talking' /\ Pushing'
  BY <1>1 DEF PublishInv, Spoken, ClientState, ServerState, Talking, Pushing, Both
<1>8. Flow'
  BY <1>1, <1>4 DEF PublishInv, Flow, FlowTo
<1> QED BY <1>3, <1>5, <1>6, <1>7, <1>8 DEF PublishInv

\* ms are the messages sent to f and t the items under way when some have gone to it.
Arrives(f, ms, t) ==
  ms \in Seq(MessageSet) /\ t \in Seq(Item) /\ SaysAll(f, ms) /\ FlowOf(f, hs[f], ms, got[f], parser[f], t)

LEMMA ArrivesNext ==
  ASSUME StreamTypes, NEW f \in Ends, NEW ms, NEW t, Arrives(f, ms, t), hs[f] = "COMPLETE" \/ ms # <<>>,
         NEW m \in MessageSet, Says(f, Len(ms) + 1, m),
         NEW size \in {DefaultChunk, MaxChunk}, size = SizeAt(f, Len(ms) + 1) \/ m.len = 1
  PROVE  /\ Arrives(f, Append(ms, m), t \o CreateChunk(m, size))
         /\ Append(ms, m) # <<>> /\ Len(Append(ms, m)) = Len(ms) + 1 /\ CreateChunk(m, size) \in Seq(Item)
<1> DEFINE all == Append(ms, m)
           c == CreateChunk(m, size)
<1>1. size \in Nat \ {0}
  BY ChunkAssumption DEF DefaultChunk
<1>2. c \in Seq(Item)
  BY <1>1, ChunkType
<1>3. ms \in Seq(MessageSet) /\ t \in Seq(Item) /\ got[f] \in Seq(MessageSet) /\ parser[f] \in ParserType
  BY DEF Arrives, StreamTypes
<1>4. FlowOf(f, hs[f], all, got[f], parser[f], t \o c)
  BY <1>1, <1>3, FlowAppend DEF Arrives
<1>5. all \in Seq(MessageSet) /\ Len(all) = Len(ms) + 1 /\ all[Len(ms) + 1] = m /\ all # <<>> /\ Len(ms) \in Nat
  BY <1>3
<1>6. \A i \in 1..Len(ms) : all[i] = ms[i]
  BY <1>3
<1> HIDE DEF all, c
<1>7. SaysAll(f, all)
  <2> SUFFICES ASSUME NEW i \in 1..Len(all) PROVE Says(f, i, all[i])
    BY DEF SaysAll
  <2>1. CASE i = Len(ms) + 1
    BY <1>5, <2>1
  <2>2. CASE i # Len(ms) + 1
    <3>1. i \in 1..Len(ms)
      BY <1>5, <2>2
    <3> QED BY <1>6, <3>1 DEF Arrives, SaysAll
  <2> QED BY <2>1, <2>2
<1>8. t \o c \in Seq(Item)
  BY <1>2, <1>3, ItemsJoined
<1> QED BY <1>2, <1>4, <1>5, <1>7, <1>8 DEF Arrives, all, c

\* What Deliver does.
LEMMA Delivers ==
  ASSUME StreamTypes, ConnTypes, NEW e \in Ends, NEW ms \in Seq(MessageSet), NEW items \in Seq(Item), Deliver(e, ms, items)
  PROVE  /\ sent' \in [Ends -> Seq(MessageSet)] /\ pipe' \in [Ends -> Seq(Item)]
         /\ sent'[e] = sent[e] /\ pipe'[e] = pipe[e]
         /\ Both => /\ sent'[Peer(e)] = sent[Peer(e)] \o ms
                    /\ buf[Peer(e)] \o pipe'[Peer(e)] = Items(Peer(e)) \o items
         /\ ~Both => UNCHANGED <<sent, pipe>>
<1> DEFINE f == Peer(e)
<1>1. /\ f \in Ends /\ f # e /\ (Both <=> open[e] /\ open[f])
  BY DEF Ends, Peer, Both
<1>2. sent \in [Ends -> Seq(MessageSet)] /\ pipe \in [Ends -> Seq(Item)] /\ buf[f] \in Seq(Item) /\ pipe[f] \in Seq(Item)
      /\ sent[f] \in Seq(MessageSet)
  BY <1>1 DEF StreamTypes
<1> HIDE DEF f
<1>3. CASE Both
  <2>1. /\ sent' = [sent EXCEPT ![f] = sent[f] \o ms]
        /\ pipe' = [pipe EXCEPT ![f] = pipe[f] \o items]
    BY <1>1, <1>3 DEF Deliver, f
  <2>2. sent[f] \o ms \in Seq(MessageSet) /\ pipe[f] \o items \in Seq(Item)
    BY <1>2
  <2>3. buf[f] \o (pipe[f] \o items) = (buf[f] \o pipe[f]) \o items
    BY <1>2, ItemsAssociate
  <2>4. sent'[f] = sent[f] \o ms /\ pipe'[f] = pipe[f] \o items /\ sent'[e] = sent[e] /\ pipe'[e] = pipe[e]
    BY <1>1, <1>2, <2>1
  <2>5. sent' \in [Ends -> Seq(MessageSet)] /\ pipe' \in [Ends -> Seq(Item)]
    BY <1>1, <1>2, <2>1, <2>2
  <2> QED BY <1>3, <2>3, <2>4, <2>5 DEF Items, f
<1>4. CASE ~Both
  <2>1. UNCHANGED <<sent, pipe>>
    BY <1>1, <1>4 DEF Deliver, f
  <2> QED BY <1>2, <1>4, <2>1 DEF f
<1> QED BY <1>3, <1>4

\* Send of one message.
LEMMA Sends ==
  ASSUME StreamTypes, ConnTypes, NEW e \in Ends, NEW m \in MessageSet, Send(e, m), SaysAll(Peer(e), sent[Peer(e)]), FlowTo(Peer(e)),
         Both => /\ hs[Peer(e)] = "COMPLETE" \/ sent[Peer(e)] # <<>>
                 /\ Says(Peer(e), Len(sent[Peer(e)]) + 1, m)
                 /\ outSize[e] = SizeAt(Peer(e), Len(sent[Peer(e)]) + 1) \/ m.len = 1
  PROVE  /\ sent' \in [Ends -> Seq(MessageSet)] /\ pipe' \in [Ends -> Seq(Item)]
         /\ sent'[e] = sent[e] /\ pipe'[e] = pipe[e]
         /\ Arrives(Peer(e), sent'[Peer(e)], buf[Peer(e)] \o pipe'[Peer(e)])
         /\ Len(sent'[Peer(e)]) = Len(sent[Peer(e)]) + (IF Both THEN 1 ELSE 0)
<1> DEFINE f == Peer(e)
           size == outSize[e]
<1>1. /\ f \in Ends /\ f # e
  BY EndsApart
<1>2. size \in {DefaultChunk, MaxChunk} /\ sent[f] \in Seq(MessageSet) /\ buf[f] \in Seq(Item) /\ pipe[f] \in Seq(Item)
  BY <1>1 DEF StreamTypes
<1>3. CreateChunk(m, size) \in Seq(Item) /\ <<m>> \in Seq(MessageSet)
  <2>1. size \in Nat \ {0}
    BY <1>2, ChunkAssumption DEF DefaultChunk
  <2> HIDE DEF size
  <2>2. CreateChunk(m, size) \in Seq(Item)
    BY <2>1, ChunkType
  <2> QED BY <2>2
<1>4. /\ sent' \in [Ends -> Seq(MessageSet)] /\ pipe' \in [Ends -> Seq(Item)]
      /\ sent'[e] = sent[e] /\ pipe'[e] = pipe[e]
      /\ Both => /\ sent'[f] = sent[f] \o <<m>>
                 /\ buf[f] \o pipe'[f] = Items(f) \o CreateChunk(m, size)
      /\ ~Both => UNCHANGED <<sent, pipe>>
  BY <1>3, Delivers DEF Send
<1>5. Arrives(f, sent[f], Items(f))
  <2>1. Items(f) \in Seq(Item)
    BY <1>2, ItemsJoined DEF Items
  <2> QED BY <1>2, <2>1 DEF Arrives, FlowTo
<1> HIDE DEF f, size
<1>6. CASE Both
  <2>1. sent[f] \o <<m>> = Append(sent[f], m)
    BY <1>2
  <2>2. /\ Arrives(f, Append(sent[f], m), Items(f) \o CreateChunk(m, size))
        /\ Len(Append(sent[f], m)) = Len(sent[f]) + 1
    BY <1>1, <1>2, <1>5, <1>6, ArrivesNext DEF f, size
  <2> QED BY <1>4, <1>6, <2>1, <2>2 DEF f
<1>7. CASE ~Both
  <2>1. Arrives(f, sent'[f], buf[f] \o pipe'[f])
    BY <1>4, <1>5, <1>7 DEF Items
  <2>2. Len(sent'[f]) = Len(sent[f]) + 0
    BY <1>2, <1>4, <1>7
  <2> QED BY <1>4, <1>7, <2>1, <2>2 DEF f
<1> QED BY <1>6, <1>7

\* What is known of a client that has been told that it publishes.
LEMMA PublisherIs ==
  ASSUME PublishInv, published
  PROVE  /\ hs["client"] = "COMPLETE" /\ hs["server"] # "C0C1" /\ manager \notin {"new", "initialized"}
         /\ Len(got["client"]) >= 6 /\ state["client"] = "PUBLISH"
         /\ streamId["client"] = StreamId /\ outSize["client"] = MaxChunk
         /\ Both => Len(sent["server"]) >= 4
<1>1. Len(got["client"]) >= 6 /\ Len(got["client"]) \in Nat
  BY EndsApart DEF PublishInv, ClientState, ClientIs, StreamTypes
<1>2. hs["client"] = "COMPLETE"
  <2>1. got["client"] # <<>>
    BY <1>1
  <2> QED BY <2>1, EndsApart DEF PublishInv, Flow, FlowTo, FlowOf, Waits
<1>3. state["client"] = "PUBLISH" /\ streamId["client"] = StreamId /\ outSize["client"] = MaxChunk
  <2>1. ClientIs(hs["client"], Len(got["client"]), state["client"], streamId["client"], outSize["client"], published)
    BY DEF PublishInv, ClientState
  <2>2. ~(Len(got["client"]) < 5) /\ ~(Len(got["client"]) < 4) /\ Len(got["client"]) # 4
    <3>1. \A n \in Nat : n >= 6 => ~(n < 5) /\ ~(n < 4) /\ n # 4
      OBVIOUS
    <3> QED BY <1>1, <3>1, Zenon
  <2> QED BY <1>2, <2>1, <2>2 DEF ClientIs
<1>4. hs["server"] # "C0C1" /\ manager \notin {"new", "initialized"}
  BY <1>2 DEF PublishInv, Hands, Unopened
<1>5. Both => Len(sent["server"]) >= 4
  BY DEF PublishInv, Talking, Asked
<1> QED BY <1>1, <1>2, <1>3, <1>4, <1>5

\* Nothing is sent, and a thread goes on.
LEMMA StreamsStay ==
  ASSUME PublishInv, UNCHANGED <<streamVars, connVars>>, PushTypes', manager' = manager, published
  PROVE  PublishInv'
<1>1. UNCHANGED <<streamVars, hs, reading, state, streamId, published>> /\ open' = open
  BY DEF connVars
<1>2. open' \in [Ends -> BOOLEAN] /\ Pushing'
  BY <1>1 DEF PublishInv, ConnTypes, Pushing
<1> QED BY <1>1, <1>2, QuietStep

\* A frame or a header is sent.
LEMMA SentStep ==
  ASSUME PublishInv, published, NEW m \in MediaMessages, Send("client", m), UNCHANGED <<buf, parser, outSize, got, connVars>>,
         PushTypes', manager' = manager
  PROVE  PublishInv'
<1>0. StreamTypes /\ ConnTypes /\ "client" \in Ends /\ "server" \in Ends /\ Peer("client") = "server" /\ Ends = {"client", "server"}
  BY DEF PublishInv, Ends, Peer
<1>1. UNCHANGED <<buf, parser, outSize, got, hs, open, reading, state, streamId, published>> /\ Send("client", m)
  BY DEF connVars
<1>2. /\ hs["client"] = "COMPLETE" /\ hs["server"] # "C0C1" /\ manager \notin {"new", "initialized"}
      /\ Len(got["client"]) >= 6 /\ state["client"] = "PUBLISH"
      /\ streamId["client"] = StreamId /\ outSize["client"] = MaxChunk
      /\ Both => Len(sent["server"]) >= 4
  BY PublisherIs
<1>3. m \in MessageSet
  BY MessagesAreTyped
<1>4. Len(sent["server"]) \in Nat /\ sent["server"] \in Seq(MessageSet)
  BY <1>0 DEF StreamTypes
<1>5. Both => /\ hs["server"] = "COMPLETE" \/ sent["server"] # <<>>
              /\ Says("server", Len(sent["server"]) + 1, m)
              /\ outSize["client"] = SizeAt("server", Len(sent["server"]) + 1)
  BY <1>2, <1>4 DEF Says, Asks, SizeAt
<1>6. SaysAll("server", sent["server"]) /\ FlowTo("server")
  BY <1>0 DEF PublishInv, Spoken, Flow
<1>7. /\ sent' \in [Ends -> Seq(MessageSet)] /\ pipe' \in [Ends -> Seq(Item)]
      /\ sent'["client"] = sent["client"] /\ pipe'["client"] = pipe["client"]
      /\ Arrives("server", sent'["server"], buf["server"] \o pipe'["server"])
      /\ Len(sent'["server"]) = Len(sent["server"]) + (IF Both THEN 1 ELSE 0)
  BY <1>0, <1>1, <1>3, <1>5, <1>6, Sends
<1>8. StreamTypes' /\ ConnTypes'
  BY <1>0, <1>1, <1>7 DEF StreamTypes, ConnTypes
<1>9. Hands' /\ Reading' /\ Unopened'
  <2>1. hs' = hs /\ manager' \notin {"new", "initialized"}
    BY <1>1, <1>2
  <2>2. Hands'
    BY <1>2, <2>1 DEF PublishInv, Hands
  <2>3. Reading'
    BY <1>1 DEF PublishInv, Reading
  <2> QED BY <2>1, <2>2, <2>3 DEF Unopened
<1>10. Spoken'
  BY <1>0, <1>7 DEF PublishInv, Spoken, Arrives
<1>11. ClientState' /\ ServerState' /\ Pushing'
  BY <1>1 DEF PublishInv, ClientState, ServerState, Pushing
<1>12. Talking'
  <2>1. Both' <=> Both
    BY <1>1 DEF Both
  <2>2. Both => Len(sent'["server"]) >= 4
    BY <1>2, <1>4, <1>7
  <2>3. Both => Asked(state["client"], published, Len(sent'["server"]))
    BY <1>2, <2>2 DEF Asked
  <2> QED BY <1>1, <1>7, <2>1, <2>3 DEF PublishInv, Talking
<1>13. Flow'
  <2>1. FlowTo("server")'
    BY <1>1, <1>7 DEF Arrives, FlowTo, Items
  <2>2. FlowTo("client")'
    BY <1>0, <1>1, <1>7 DEF PublishInv, Flow, FlowTo, Items
  <2> QED BY <1>0, <2>1, <2>2 DEF Flow
<1> QED BY <1>8, <1>9, <1>10, <1>11, <1>12, <1>13 DEF PublishInv

\* It is sent, or dropped.
LEMMA MediaStep ==
  ASSUME PublishInv, published, NEW m \in MediaMessages, SendMedia(m), PushTypes', manager' = manager
  PROVE  PublishInv'
<1>1. CASE Dropped /\ UNCHANGED <<buf, parser, outSize, got, connVars>>
  BY <1>1, StreamsStay DEF Dropped, streamVars
<1>2. CASE Send("client", m) /\ UNCHANGED <<buf, parser, outSize, got, connVars>>
  BY <1>2, SentStep
<1> QED BY <1>1, <1>2 DEF SendMedia

LEMMA PacketsAreMedia ==
  ASSUME streamId["client"] = StreamId
  PROVE  /\ \A key \in BOOLEAN : Media("Video", IF key THEN "key" ELSE "frame", 3) \in MediaMessages
         /\ Media("Video", "key", 3) \in MediaMessages
         /\ AvcSequenceHeader \in MediaMessages /\ AacSequenceHeader \in MediaMessages
         /\ Media("Audio", "frame", 1) \in MediaMessages
BY DEF Media, MediaMessages, Packet, AvcSequenceHeader, AacSequenceHeader

LEMMA EncoderStep ==
  ASSUME PublishInv, PushVideoFrame \/ AacHeader \/ KeyFrame \/ PushAudioFrame
  PROVE  PublishInv'
<1>0. PushTypes /\ "video" \in Threads /\ "audio" \in Threads
  BY DEF PublishInv, Threads
<1>1. \E t \in Threads : thread[t] \in {"push", "aac", "body"}
  BY <1>0 DEF PushVideoFrame, AacHeader, KeyFrame, PushAudioFrame
<1>2. published
  BY <1>1 DEF PublishInv, Pushing
<1>3. streamId["client"] = StreamId
  BY <1>2, PublisherIs
<1>4. CASE PushVideoFrame
  <2>1. manager' = manager /\ UNCHANGED <<exit, connected, pusher, frames>>
    BY <1>4 DEF PushVideoFrame
  <2>2. PICK key \in BOOLEAN :
          IF hasKey THEN SendMedia(Media("Video", IF key THEN "key" ELSE "frame", 3)) /\ Goto("video", "top") /\ UNCHANGED hasKey
          ELSE IF key THEN SendMedia(AvcSequenceHeader) /\ Goto("video", "aac") /\ hasKey' = TRUE
          ELSE Goto("video", "top") /\ UNCHANGED <<hasKey, streamVars, connVars>>
    BY <1>4 DEF PushVideoFrame
  <2>3. hasKey' \in BOOLEAN /\ thread' \in [Threads -> {"off", "top", "frame", "push", "aac", "body", "done"}]
    <3>1. Goto("video", "top") \/ Goto("video", "aac")
      BY <2>2
    <3>2. thread' \in [Threads -> {"off", "top", "frame", "push", "aac", "body", "done"}]
      BY <1>0, <3>1, ThreadType
    <3> QED BY <1>0, <2>2, <3>2 DEF PushTypes
  <2>4. PushTypes'
    BY <1>0, <2>1, <2>3 DEF PushTypes
  <2>5. CASE hasKey
    BY <1>2, <1>3, <2>1, <2>2, <2>4, <2>5, PacketsAreMedia, MediaStep
  <2>6. CASE ~hasKey /\ key
    BY <1>2, <1>3, <2>1, <2>2, <2>4, <2>6, PacketsAreMedia, MediaStep
  <2>7. CASE ~hasKey /\ ~key
    BY <1>2, <2>1, <2>2, <2>4, <2>7, StreamsStay
  <2> QED BY <2>5, <2>6, <2>7
<1>5. CASE AacHeader
  <2>1. manager' = manager /\ UNCHANGED <<exit, connected, pusher, hasKey, frames>> /\ Goto("video", "body")
        /\ SendMedia(AacSequenceHeader)
    BY <1>5 DEF AacHeader
  <2>2. PushTypes'
    BY <1>0, <2>1, ThreadType DEF PushTypes
  <2> QED BY <1>2, <1>3, <2>1, <2>2, PacketsAreMedia, MediaStep
<1>6. CASE KeyFrame
  <2>1. manager' = manager /\ UNCHANGED <<exit, connected, pusher, hasKey, frames>> /\ Goto("video", "top")
        /\ SendMedia(Media("Video", "key", 3))
    BY <1>6 DEF KeyFrame
  <2>2. PushTypes'
    BY <1>0, <2>1, ThreadType DEF PushTypes
  <2> QED BY <1>2, <1>3, <2>1, <2>2, PacketsAreMedia, MediaStep
<1>7. CASE PushAudioFrame
  <2>1. manager' = manager /\ UNCHANGED <<exit, connected, pusher, hasKey, frames>> /\ Goto("audio", "top")
        /\ IF hasKey THEN SendMedia(Media("Audio", "frame", 1)) ELSE UNCHANGED <<streamVars, connVars>>
    BY <1>7 DEF PushAudioFrame
  <2>2. PushTypes'
    BY <1>0, <2>1, ThreadType DEF PushTypes
  <2>3. CASE hasKey
    BY <1>2, <1>3, <2>1, <2>2, <2>3, PacketsAreMedia, MediaStep
  <2>4. CASE ~hasKey
    BY <1>2, <2>1, <2>2, <2>4, StreamsStay
  <2> QED BY <2>3, <2>4
<1> QED BY <1>4, <1>5, <1>6, <1>7

-----------------------------------------------------------------------------
(* The handshake *)

LEMMA PacketType1 == \A h \in {"C0C1", "S0S1S2", "C2"} : [kind |-> h] \in Item
BY DEF Item

LEMMA OneItem ==
  ASSUME NEW x \in Item
  PROVE  <<x>> \in Seq(Item) /\ <<x>> # <<>> /\ <<x>>[1] = x /\ Tail(<<x>>) = <<>>
OBVIOUS

\* A connection begins with C0 and C1 under way to the server.
LEMMA OpenStep ==
  ASSUME PublishInv, OpenUrl, manager' # "closed"
  PROVE  PublishInv'
<1>0. StreamTypes /\ ConnTypes /\ PushTypes /\ "client" \in Ends /\ "server" \in Ends /\ Ends = {"client", "server"}
  BY DEF PublishInv, Ends
<1>1. /\ manager = "initialized" /\ manager' = "opened"
      /\ open' = [e \in Ends |-> TRUE]
      /\ pipe' = [pipe EXCEPT !["server"] = <<BuildC0C1>>]
      /\ UNCHANGED <<buf, parser, outSize, sent, got, hs, reading, state, streamId, published, exit, connected, pusher, hasKey, thread, frames>>
  BY DEF OpenUrl
<1>2. /\ Items("client") = <<>> /\ Items("server") = <<>> /\ sent["client"] = <<>> /\ sent["server"] = <<>>
      /\ hs["client"] = "S0S1S2" /\ hs["server"] = "C0C1"
  BY <1>0, <1>1 DEF PublishInv, Unopened
<1>3. BuildC0C1 \in Item
  BY PacketType1 DEF BuildC0C1
<1>4. <<BuildC0C1>> \in Seq(Item) /\ <<BuildC0C1>> # <<>> /\ <<BuildC0C1>>[1] = BuildC0C1 /\ Tail(<<BuildC0C1>>) = <<>>
  BY <1>3, OneItem
<1>5. pipe' \in [Ends -> Seq(Item)] /\ pipe'["server"] = <<BuildC0C1>> /\ pipe'["client"] = pipe["client"]
  BY <1>0, <1>1, <1>4 DEF StreamTypes
<1>6. StreamTypes' /\ ConnTypes' /\ PushTypes'
  BY <1>0, <1>1, <1>5 DEF StreamTypes, ConnTypes, PushTypes
<1>7. buf["server"] = <<>> /\ buf["server"] \in Seq(Item)
  <2>1. buf["server"] \in Seq(Item) /\ pipe["server"] \in Seq(Item)
    BY <1>0 DEF StreamTypes
  <2>2. Len(buf["server"] \o pipe["server"]) = Len(buf["server"]) + Len(pipe["server"])
        /\ Len(buf["server"]) \in Nat /\ Len(pipe["server"]) \in Nat
    BY <2>1
  <2>3. Len(buf["server"] \o pipe["server"]) = 0
    BY <1>2 DEF Items
  <2>4. Len(buf["server"]) = 0
    <3>1. \A x, y \in Nat : x + y = 0 => x = 0
      OBVIOUS
    <3> QED BY <2>2, <2>3, <3>1, Zenon
  <2> QED BY <2>1, <2>4
<1>8. Items("client")' = <<>> /\ Items("server")' = <<BuildC0C1>>
  BY <1>1, <1>2, <1>4, <1>5, <1>7 DEF Items
<1>9. Hands' /\ Reading' /\ Unopened'
  BY <1>1, <1>2, <1>8 DEF PublishInv, Hands, Reading, Unopened
<1>10. Spoken' /\ ClientState' /\ ServerState' /\ Pushing'
  BY <1>1 DEF PublishInv, Spoken, ClientState, ServerState, Pushing
<1>11. FlowTo("client") /\ FlowTo("server")
  BY <1>0 DEF PublishInv, Flow
<1>12. got["client"] = <<>> /\ got["server"] = <<>>
  BY <1>2, <1>11 DEF FlowTo, FlowOf, Waits
<1>13. Talking'
  <2>1. ClientIs(hs["client"], Len(got["client"]), state["client"], streamId["client"], outSize["client"], published)
    BY DEF PublishInv, ClientState
  <2>2. Len(got["client"]) = 0 /\ Len(got["server"]) = 0 /\ Len(sent["client"]) = 0 /\ Len(sent["server"]) = 0
    BY <1>2, <1>12
  <2>3. state["client"] = "HANDSHAKE" /\ ~published
    BY <1>2, <2>1, <2>2 DEF ClientIs
  <2>4. Len(sent["client"]) = Answered(Len(got["server"])) /\ Asked(state["client"], published, Len(sent["server"]))
    BY <2>2, <2>3 DEF Answered, Asked
  <2> QED BY <1>1, <2>4 DEF Talking
<1>14. Flow'
  <2>1. FlowTo("client")'
    BY <1>1, <1>2, <1>8, <1>11 DEF FlowTo
  <2>2. Carries("server", <<>>, 0, 0, <<>>)
    <3>1. <<>> \in Seq(MessageSet) /\ Len(<<>>) = 0
      OBVIOUS
    <3> QED BY <1>0, <3>1, CarriesNothing
  <2>3. FlowTo("server")'
    BY <1>1, <1>2, <1>4, <1>8, <1>11, <2>2 DEF FlowTo, FlowOf, Waits, BuildC0C1
  <2> QED BY <1>0, <2>1, <2>3 DEF Flow
<1> QED BY <1>6, <1>9, <1>10, <1>13, <1>14 DEF PublishInv

\* A packet is taken of the buffer.
LEMMA PacketTaken ==
  ASSUME StreamTypes, NEW e \in Ends, buf[e] # <<>>, buf' = [buf EXCEPT ![e] = Tail(@)]
  PROVE  /\ buf' \in [Ends -> Seq(Item)] /\ buf'[e] = Tail(buf[e]) /\ \A f \in Ends \ {e} : buf'[f] = buf[f]
         /\ Items(e) # <<>> /\ Items(e)[1] = buf[e][1]
         /\ \A p \in Seq(Item) : Tail(buf[e] \o p) = buf'[e] \o p
         /\ Len(buf[e]) > 1 => buf'[e] # <<>>
<1>1. buf[e] \in Seq(Item) /\ pipe[e] \in Seq(Item) /\ buf \in [Ends -> Seq(Item)]
  BY DEF StreamTypes
<1> DEFINE b == buf[e]
<1>2. Len(b) \in Nat /\ Len(b) # 0 /\ Tail(b) \in Seq(Item) /\ Len(Tail(b)) = Len(b) - 1
  BY <1>1
<1>3. buf'[e] = Tail(b) /\ buf' \in [Ends -> Seq(Item)] /\ \A f \in Ends \ {e} : buf'[f] = buf[f]
  BY <1>1, <1>2
<1>4. ASSUME NEW p \in Seq(Item) PROVE b \o p # <<>> /\ (b \o p)[1] = b[1] /\ Tail(b \o p) = Tail(b) \o p
  <2>1. /\ b \o p \in Seq(Item) /\ Len(b \o p) = Len(b) + Len(p) /\ Len(p) \in Nat /\ (b \o p)[1] = b[1]
        /\ SubSeq(b \o p, 2, Len(b \o p)) = SubSeq(b, 2, Len(b)) \o p
    <3>1. 1 \in 0..Len(b) /\ 1 \in 1..Len(b) /\ 1 + 1 = 2
      BY <1>2
    <3> QED BY <1>1, <3>1, ItemsApart
  <2> DEFINE s == b \o p
  <2> HIDE DEF s, b
  <2>2. s # <<>>
    <3>1. Len(s) # 0
      BY <1>2, <2>1 DEF s
    <3> QED BY <3>1
  <2>3. Tail(s) = SubSeq(s, 2, Len(s)) /\ Tail(b) = SubSeq(b, 2, Len(b))
    BY <1>1, <1>2, <2>1, <2>2 DEF s
  <2> QED BY <2>1, <2>2, <2>3 DEF s
<1>5. Len(b) > 1 => Tail(b) # <<>>
  <2>1. Len(<<>>) = 0
    OBVIOUS
  <2> DEFINE z == Tail(b)
  <2>2. Len(z) = Len(b) - 1 /\ Len(b) \in Nat
    BY <1>2, Zenon
  <2> HIDE DEF b, z
  <2>3. Len(b) > 1 => Len(z) # 0
    <3>1. \A n \in Nat : n > 1 => n - 1 # 0
      OBVIOUS
    <3> QED BY <2>2, <3>1, Zenon
  <2>4. Len(b) > 1 => z # <<>>
    BY <2>1, <2>3
  <2> QED BY <2>4 DEF z
<1> QED BY <1>1, <1>3, <1>4, <1>5 DEF Items

LEMMA HandshakeStep ==
  ASSUME PublishInv, NEW e \in Ends, Handshake(e)
  PROVE  PublishInv'
<1>0. StreamTypes /\ ConnTypes /\ PushTypes /\ "client" \in Ends /\ "server" \in Ends /\ Ends = {"client", "server"}
      /\ Peer("client") = "server" /\ Peer("server") = "client"
  BY DEF PublishInv, Ends, Peer
<1>1. /\ open[e] /\ reading[e] /\ hs[e] # "COMPLETE" /\ buf[e] # <<>> /\ pipe[e] \in Seq(Item)
      /\ UNCHANGED <<manager, exit, connected, pusher, hasKey, thread, frames>>
  BY <1>0 DEF Handshake, PublishInv, Reading, pushVars, StreamTypes
<1>2. PushTypes' /\ manager' = manager /\ manager \notin {"new", "initialized"}
  BY <1>0, <1>1 DEF PushTypes, PublishInv, Unopened
<1>3. CASE buf[e][1] # [kind |-> hs[e]]
  <2>1. Close(e) /\ UNCHANGED <<streamVars, hs, reading, state, streamId, published>>
    BY <1>3 DEF Handshake
  <2>2. open' \in [Ends -> BOOLEAN] /\ \A f \in Ends : open'[f] => open[f]
    BY <1>0, <2>1 DEF Close, ConnTypes
  <2>3. Pushing'
    BY <1>1, <2>1 DEF PublishInv, Pushing
  <2> QED BY <1>2, <2>1, <2>2, <2>3, QuietStep
<1>4. CASE buf[e][1] = [kind |-> hs[e]]
  <2>1. /\ buf' = [buf EXCEPT ![e] = Tail(@)]
        /\ hs' = [hs EXCEPT ![e] = IF hs[e] = "C0C1" THEN "C2" ELSE "COMPLETE"]
        /\ reading' = [reading EXCEPT ![e] = hs[e] # "C0C1" /\ Len(buf[e]) > 1]
        /\ UNCHANGED <<parser, got, open, streamId, published>>
    BY <1>4 DEF Handshake
  <2>2. /\ buf' \in [Ends -> Seq(Item)] /\ buf'[e] = Tail(buf[e]) /\ \A f \in Ends \ {e} : buf'[f] = buf[f]
        /\ Items(e) # <<>> /\ Items(e)[1] = buf[e][1]
        /\ \A p \in Seq(Item) : Tail(buf[e] \o p) = buf'[e] \o p
        /\ Len(buf[e]) > 1 => buf'[e] # <<>>
    BY <1>0, <1>1, <2>1, PacketTaken
  <2>3. Reading'
    BY <1>0, <2>1, <2>2 DEF PublishInv, Reading, ConnTypes
  <2>4. Pushing'
    BY <1>1, <2>1 DEF PublishInv, Pushing
  <2>5. FlowTo("client") /\ FlowTo("server") /\ FlowTo(e)
    BY <1>0 DEF PublishInv, Flow
  <2>6. got[e] = <<>> /\ PIdle(parser[e]) /\ parser[e].in = DefaultChunk /\ Carries(e, sent[e], 0, 0, Tail(Items(e)))
    BY <1>1, <2>2, <2>5 DEF FlowTo, FlowOf, Waits
  <2>7. Tail(Items(e)) = buf'[e] \o pipe[e]
    BY <1>1, <2>2 DEF Items
  <2>8. SaysAll("client", sent["client"]) /\ SaysAll("server", sent["server"])
    BY <1>0 DEF PublishInv, Spoken
  <2>9. /\ ClientIs(hs["client"], Len(got["client"]), state["client"], streamId["client"], outSize["client"], published)
        /\ ServerIs(Len(got["server"]), state["server"], streamId["server"], outSize["server"])
        /\ Hands
    BY DEF PublishInv, ClientState, ServerState
  <2>10. Both' <=> Both
    BY <2>1 DEF Both
  <2>11. CASE hs[e] = "C0C1"
    <3>1. e = "server" /\ hs["server"] = "C0C1" /\ hs["client"] = "S0S1S2" /\ Items("client") = <<>> /\ sent["server"] = <<>>
      BY <1>0, <2>9, <2>11 DEF Hands
    <3>2. /\ Deliver("server", <<>>, <<[kind |-> "S0S1S2"]>>) /\ UNCHANGED <<outSize, state>>
      BY <1>4, <2>11, <3>1 DEF Handshake
    <3> DEFINE x == [kind |-> "S0S1S2"]
    <3>3. x \in Item /\ <<x>> \in Seq(Item) /\ <<x>> # <<>> /\ <<x>>[1] = x /\ Tail(<<x>>) = <<>> /\ <<>> \in Seq(MessageSet)
      BY PacketType1, OneItem
    <3>4. /\ sent' \in [Ends -> Seq(MessageSet)] /\ pipe' \in [Ends -> Seq(Item)]
          /\ sent'["server"] = sent["server"] /\ pipe'["server"] = pipe["server"]
          /\ Both => /\ sent'["client"] = sent["client"] \o <<>>
                     /\ buf["client"] \o pipe'["client"] = Items("client") \o <<x>>
          /\ ~Both => UNCHANGED <<sent, pipe>>
      <4> DEFINE nothing == <<>>
                 one == <<x>>
      <4>1. Deliver("server", nothing, one) /\ nothing \in Seq(MessageSet) /\ one \in Seq(Item)
        BY <3>2, <3>3
      <4> HIDE DEF nothing, one
      <4>2. /\ sent' \in [Ends -> Seq(MessageSet)] /\ pipe' \in [Ends -> Seq(Item)]
            /\ sent'["server"] = sent["server"] /\ pipe'["server"] = pipe["server"]
            /\ Both => /\ sent'["client"] = sent["client"] \o nothing
                       /\ buf["client"] \o pipe'["client"] = Items("client") \o one
            /\ ~Both => UNCHANGED <<sent, pipe>>
        BY <1>0, <4>1, Delivers
      <4> QED BY <4>2 DEF nothing, one
    <3> HIDE DEF x
    <3>5. /\ sent'["client"] = <<>> /\ sent["client"] = <<>>
          /\ buf["client"] \o pipe'["client"] = IF Both THEN <<x>> ELSE <<>>
      <4>1. sent["client"] = <<>>
        BY <2>5, <3>1 DEF FlowTo, FlowOf, Waits
      <4>2. CASE Both
        <5>1. <<>> \o <<x>> = <<x>> /\ <<>> \o <<>> = <<>>
          BY <3>3
        <5> QED BY <3>1, <3>4, <4>1, <4>2, <5>1
      <4>3. CASE ~Both
        BY <3>1, <3>4, <4>1, <4>3 DEF Items
      <4> QED BY <4>1, <4>2, <4>3
    <3>6. hs' \in [Ends -> {"C0C1", "S0S1S2", "C2", "COMPLETE"}] /\ hs'["server"] = "C2" /\ hs'["client"] = "S0S1S2"
      BY <1>0, <2>1, <3>1 DEF ConnTypes
    <3>7. Items("server")' = <<>>
      <4>1. Carries("server", <<>>, 0, 0, Tail(Items("server"))) /\ Tail(Items("server")) \in Seq(Item)
        <5>1. buf'["server"] \o pipe["server"] \in Seq(Item)
          BY <1>1, <2>2, <3>1, ItemsJoined
        <5> QED BY <2>6, <2>7, <3>1, <5>1
      <4>2. <<>> \in Seq(MessageSet) /\ Len(<<>>) = 0 /\ 0 \in 0..0
        OBVIOUS
      <4> DEFINE nothing == <<>>
                 t == Tail(Items("server"))
      <4>a. /\ nothing \in Seq(MessageSet) /\ Len(nothing) = 0 /\ 0 \in 0..Len(nothing) /\ 0 \in Nat /\ ~(0 < Len(nothing))
            /\ t \in Seq(Item) /\ Carries("server", nothing, 0, 0, t)
        BY <4>1, <4>2
      <4> HIDE DEF nothing, t
      <4>b. 0 = Len(nothing) => t = <<>> /\ 0 = 0
        <5>1. Carries("server", nothing, Len(nothing), 0, t)
          BY <4>a
        <5>2. t = <<>>
          BY <1>0, <4>a, <5>1, CarriesNone
        <5> QED BY <5>2
      <4>3. Tail(Items("server")) = <<>>
        BY <4>a, <4>b DEF t
      <4> QED BY <2>7, <3>1, <3>4, <4>3 DEF Items
    <3>8. StreamTypes' /\ ConnTypes'
      BY <1>0, <2>1, <2>2, <3>2, <3>4, <3>6 DEF StreamTypes, ConnTypes
    <3>9. Hands' /\ Unopened'
      BY <1>2, <3>1, <3>4, <3>6, <3>7 DEF Hands, Unopened
    <3>10. Spoken'
      BY <1>0, <2>8, <3>4, <3>5 DEF Spoken
    <3>11. ClientState' /\ ServerState' /\ Talking'
      BY <2>1, <2>9, <2>10, <3>1, <3>2, <3>4, <3>5, <3>6 DEF ClientState, ServerState, Talking, PublishInv
    <3>12. Flow'
      <4>1. FlowTo("server")'
        BY <2>1, <2>6, <3>1, <3>4, <3>6, <3>7 DEF FlowTo, FlowOf, Waits
      <4>2. Items("client")' = IF Both THEN <<x>> ELSE <<>>
        BY <1>0, <2>2, <3>1, <3>5 DEF Items
      <4>3. Carries("client", <<>>, 0, 0, <<>>)
        <5>1. <<>> \in Seq(MessageSet) /\ Len(<<>>) = 0
          OBVIOUS
        <5> QED BY <1>0, <5>1, CarriesNothing
      <4>4. got["client"] = <<>> /\ PIdle(parser["client"]) /\ parser["client"].in = DefaultChunk
        BY <2>5, <3>1 DEF FlowTo, FlowOf, Waits
      <4>5. FlowTo("client")'
        BY <2>1, <3>3, <3>5, <3>6, <4>2, <4>3, <4>4 DEF FlowTo, FlowOf, Waits, x
      <4> QED BY <1>0, <4>1, <4>5 DEF Flow
    <3> QED BY <1>2, <2>3, <2>4, <3>8, <3>9, <3>10, <3>11, <3>12 DEF PublishInv
  <2>12. CASE hs[e] = "C2"
    <3>1. e = "server" /\ hs["server"] = "C2" /\ hs["client"] = "COMPLETE"
      BY <1>0, <2>2, <2>9, <2>12 DEF Hands
    <3>2. UNCHANGED <<outSize, state, sent, pipe>>
      BY <1>4, <2>12 DEF Handshake
    <3>3. hs' \in [Ends -> {"C0C1", "S0S1S2", "C2", "COMPLETE"}] /\ hs'["server"] = "COMPLETE" /\ hs'["client"] = "COMPLETE"
      BY <1>0, <2>1, <3>1 DEF ConnTypes
    <3>4. StreamTypes' /\ ConnTypes'
      BY <1>0, <2>1, <2>2, <3>2, <3>3 DEF StreamTypes, ConnTypes
    <3>5. Hands' /\ Unopened'
      BY <1>2, <3>3 DEF Hands, Unopened
    <3>6. Spoken' /\ ClientState' /\ ServerState' /\ Talking'
      BY <2>1, <2>9, <2>10, <3>1, <3>2, <3>3 DEF PublishInv, Spoken, ClientState, ServerState, Talking
    <3>7. Flow'
      <4>1. Items("server")' = Tail(Items("server"))
        BY <2>7, <3>1, <3>2 DEF Items
      <4>2. Len(sent["server"]) \in Nat /\ Len(<<>>) = 0
        BY <1>0 DEF StreamTypes
      <4>3. ReadsOn("server", sent["server"], got["server"], parser["server"], Tail(Items("server")))
        <5>1. Matches(got["server"], sent["server"])
          BY <2>6, <3>1, <4>2 DEF Matches
        <5>2. parser["server"].in = SizeAt("server", Len(got["server"]) + 1)
          BY <2>6, <3>1, <4>2 DEF SizeAt
        <5>3. Carries("server", sent["server"], Len(got["server"]), 0, Tail(Items("server")))
          BY <2>6, <3>1, <4>2
        <5>4. ParserAt(parser["server"], sent["server"][Len(got["server"]) + 1], 0) /\ PIdle(parser["server"]) /\ 0 \in Nat
          BY <2>6, <3>1 DEF ParserAt
        <5> QED BY <5>1, <5>2, <5>3, <5>4 DEF ReadsOn
      <4>4. FlowTo("server")'
        BY <2>1, <3>2, <3>3, <4>1, <4>3 DEF FlowTo, FlowOf
      <4>5. FlowTo("client")'
        BY <1>0, <2>1, <2>2, <2>5, <3>1, <3>2, <3>3 DEF FlowTo, Items
      <4> QED BY <1>0, <4>4, <4>5 DEF Flow
    <3> QED BY <1>2, <2>3, <2>4, <3>4, <3>5, <3>6, <3>7 DEF PublishInv
  <2>13. CASE hs[e] = "S0S1S2"
    <3>1. e = "client" /\ hs["client"] = "S0S1S2" /\ sent["server"] = <<>> /\ hs["server"] = "C2" /\ Items("server") = <<>>
      <4>1. e = "client" /\ hs["client"] = "S0S1S2"
        BY <1>0, <2>9, <2>13 DEF Hands
      <4>2. Items("client") # <<>>
        BY <2>2, <4>1
      <4> QED BY <2>9, <4>1, <4>2 DEF Hands
    <3>2. Resize("client", <<>>, <<[kind |-> "C2"]>>, Invoke("client", Connect)) /\ state' = [state EXCEPT !["client"] = "CONNECT"]
      BY <1>4, <2>13, <3>1 DEF Handshake
    <3> DEFINE x == [kind |-> "C2"]
               c1 == CreateChunk(SizeIs, MaxChunk)
               c2 == CreateChunk(Request(Connect, 0), MaxChunk)
    <3>3. x \in Item /\ <<x>> \in Seq(Item) /\ <<x>> # <<>> /\ <<x>>[1] = x /\ Tail(<<x>>) = <<>> /\ <<>> \in Seq(MessageSet)
      BY PacketType1, OneItem
    <3>4. streamId["client"] = 0
      BY <2>6, <2>9, <3>1 DEF ClientIs
    <3>5. Invoke("client", Connect) = Request(Connect, 0)
      BY <3>4 DEF Invoke, Request
    <3>6. /\ outSize' = [outSize EXCEPT !["client"] = MaxChunk]
          /\ Deliver("client", <<>> \o <<SizeIs, Request(Connect, 0)>>, <<x>> \o c1 \o c2)
      BY <3>2, <3>5 DEF Resize
    <3>7. SizeIs \in MessageSet /\ Request(Connect, 0) \in MessageSet
      BY MessagesAreTyped
    <3>8. c1 \in Seq(Item) /\ c2 \in Seq(Item)
      <4>1. MaxChunk \in Nat \ {0}
        BY ChunkAssumption
      <4>2. c1 \in Seq(Item)
        BY <3>7, <4>1, ChunkType
      <4>3. c2 \in Seq(Item)
        BY <3>7, <4>1, ChunkType
      <4> QED BY <4>2, <4>3
    <3> HIDE DEF x
    <3> DEFINE ms == <<SizeIs, Request(Connect, 0)>>
               cs == <<x>> \o c1 \o c2
    <3>9. /\ ms \in Seq(MessageSet) /\ <<>> \o ms = ms /\ cs \in Seq(Item) /\ cs # <<>> /\ cs[1] = x /\ Tail(cs) = c1 \o c2
      <4>1. ms \in Seq(MessageSet) /\ <<>> \o ms = ms
        BY <3>7
      <4> HIDE DEF c1, c2
      <4>2. c1 \o c2 \in Seq(Item) /\ cs = <<x>> \o (c1 \o c2)
        BY <3>3, <3>8, ItemsAssociate, ItemsJoined
      <4> DEFINE y == c1 \o c2
      <4> HIDE DEF y, cs
      <4>3. cs = <<x>> \o y /\ y \in Seq(Item)
        BY <4>2 DEF y
      <4>4. cs \in Seq(Item) /\ cs # <<>> /\ cs[1] = x /\ Tail(cs) = y
        BY <3>3, <4>3
      <4> QED BY <4>1, <4>4 DEF y
    <3> HIDE DEF ms, cs
    <3>10. /\ sent' \in [Ends -> Seq(MessageSet)] /\ pipe' \in [Ends -> Seq(Item)]
           /\ sent'["client"] = sent["client"] /\ pipe'["client"] = pipe["client"]
           /\ Both => /\ sent'["server"] = sent["server"] \o ms
                      /\ buf["server"] \o pipe'["server"] = Items("server") \o cs
           /\ ~Both => UNCHANGED <<sent, pipe>>
      <4>1. Deliver("client", ms, cs)
        BY <3>6, <3>9 DEF ms, cs
      <4> QED BY <1>0, <3>9, <4>1, Delivers
    <3>11. sent'["server"] = (IF Both THEN ms ELSE <<>>) /\ buf["server"] \o pipe'["server"] = (IF Both THEN cs ELSE <<>>)
      <4>1. <<>> \o ms = ms /\ <<>> \o cs = cs
        BY <3>9
      <4> QED BY <3>1, <3>10, <4>1 DEF Items
    <3>12. hs' \in [Ends -> {"C0C1", "S0S1S2", "C2", "COMPLETE"}] /\ hs'["client"] = "COMPLETE" /\ hs'["server"] = "C2"
      BY <1>0, <2>1, <3>1 DEF ConnTypes
    <3>13. StreamTypes' /\ ConnTypes'
      BY <1>0, <2>1, <2>2, <3>2, <3>6, <3>10, <3>12 DEF StreamTypes, ConnTypes
    <3>14. Hands' /\ Unopened'
      BY <1>2, <3>12 DEF Hands, Unopened
    <3>15. Len(ms) = 2 /\ ms[1] = SizeIs /\ ms[2] = Request(Connect, 0) /\ SaysAll("server", ms) /\ SaysAll("server", <<>>)
      <4>1. Len(ms) = 2 /\ ms[1] = SizeIs /\ ms[2] = Request(Connect, 0)
        BY DEF ms
      <4>2. Says("server", 1, SizeIs) /\ Says("server", 2, Request(Connect, 0))
        BY DEF Says, Asks
      <4> QED BY <4>1, <4>2 DEF SaysAll
    <3>16. Spoken'
      BY <1>0, <2>8, <3>10, <3>11, <3>15 DEF Spoken
    <3>17. ClientState' /\ ServerState' /\ Talking'
      <4>1. state'["client"] = "CONNECT" /\ state'["server"] = state["server"]
            /\ outSize'["client"] = MaxChunk /\ outSize'["server"] = outSize["server"]
        BY <1>0, <3>2, <3>6 DEF ConnTypes, StreamTypes
      <4>2. Len(got["client"]) = 0 /\ ~published
        BY <2>6, <2>9, <3>1 DEF ClientIs
      <4>3. ClientIs("COMPLETE", 0, "CONNECT", 0, MaxChunk, FALSE)
        BY DEF ClientIs
      <4>8. hs'["client"] = "COMPLETE" /\ Len(got'["client"]) = 0 /\ state'["client"] = "CONNECT" /\ streamId'["client"] = 0
            /\ outSize'["client"] = MaxChunk /\ published' = FALSE
        BY <1>0, <2>1, <3>4, <3>12, <4>1, <4>2 DEF ConnTypes
      <4>9. ClientIs(hs'["client"], Len(got'["client"]), state'["client"], streamId'["client"], outSize'["client"], published')
        BY <4>3, <4>8
      <4>4. ClientState'
        BY <4>9 DEF ClientState
      <4>5. ServerState'
        BY <2>1, <2>9, <4>1 DEF ServerState
      <4>6. Both => Len(sent'["server"]) = 2
        BY <3>11, <3>15
      <4>7. Asked("CONNECT", published, 2)
        BY <4>2 DEF Asked
      <4> QED BY <2>1, <2>10, <3>10, <4>1, <4>4, <4>5, <4>6, <4>7 DEF PublishInv, Talking
    <3>18. Flow'
      <4>1. Items("client")' = Tail(Items("client"))
        BY <2>7, <3>1, <3>10 DEF Items
      <4>2. Len(sent["client"]) \in Nat /\ Len(<<>>) = 0
        BY <1>0 DEF StreamTypes
      <4>3. ReadsOn("client", sent["client"], got["client"], parser["client"], Tail(Items("client")))
        <5>1. Matches(got["client"], sent["client"])
          BY <2>6, <3>1, <4>2 DEF Matches
        <5>2. parser["client"].in = SizeAt("client", Len(got["client"]) + 1)
          BY <2>6, <3>1, <4>2 DEF SizeAt
        <5>3. Carries("client", sent["client"], Len(got["client"]), 0, Tail(Items("client")))
          BY <2>6, <3>1, <4>2
        <5>4. ParserAt(parser["client"], sent["client"][Len(got["client"]) + 1], 0) /\ PIdle(parser["client"]) /\ 0 \in Nat
          BY <2>6, <3>1 DEF ParserAt
        <5> QED BY <5>1, <5>2, <5>3, <5>4 DEF ReadsOn
      <4>4. FlowTo("client")'
        BY <2>1, <3>10, <3>12, <4>1, <4>3 DEF FlowTo, FlowOf
      <4>5. got["server"] = <<>> /\ PIdle(parser["server"]) /\ parser["server"].in = DefaultChunk
        BY <2>5, <3>1 DEF FlowTo, FlowOf, Waits
      <4>6. Carries("server", ms, 0, 0, c1 \o c2)
        <5>1. Carries("server", <<>>, 0, 0, <<>>)
          <6>1. <<>> \in Seq(MessageSet) /\ Len(<<>>) = 0
            OBVIOUS
          <6> QED BY <1>0, <6>1, CarriesNothing
        <5>2. Carries("server", Append(<<>>, SizeIs), 0, 0, <<>> \o c1)
          <6>1. <<>> \in Seq(MessageSet) /\ Len(<<>>) = 0 /\ 0 \in 0..0 /\ <<>> \in Seq(Item) /\ MaxChunk \in Nat \ {0} /\ 0 \in Nat
            BY ChunkAssumption
          <6>2. SizeIs.len = 1
            BY DEF SizeIs, Control
          <6> QED BY <1>0, <3>7, <5>1, <6>1, <6>2, CarriesAppend
        <5>3. Append(<<>>, SizeIs) = <<SizeIs>> /\ <<>> \o c1 = c1 /\ <<SizeIs>> \in Seq(MessageSet) /\ Len(<<SizeIs>>) = 1
          BY <3>7, <3>8
        <5>4. Carries("server", Append(<<SizeIs>>, Request(Connect, 0)), 0, 0, c1 \o c2)
          <6>1. 0 \in 0..1 /\ MaxChunk \in Nat \ {0} /\ 0 \in Nat /\ MaxChunk = SizeAt("server", 1 + 1)
            BY ChunkAssumption DEF SizeAt
          <6>2. Carries("server", <<SizeIs>>, 0, 0, c1)
            BY <5>2, <5>3
          <6> QED BY <1>0, <3>7, <3>8, <5>3, <6>1, <6>2, CarriesAppend
        <5>5. Append(<<SizeIs>>, Request(Connect, 0)) = ms
          <6>1. Append(<<SizeIs>>, Request(Connect, 0)) = <<SizeIs, Request(Connect, 0)>>
            BY <3>7, PairOf
          <6> QED BY <6>1 DEF ms
        <5> QED BY <5>4, <5>5
      <4>7. Items("server")' = IF Both THEN cs ELSE <<>>
        BY <1>0, <2>2, <3>1, <3>11 DEF Items
      <4>8. FlowTo("server")'
        <5>1. CASE Both
          BY <2>1, <3>9, <3>11, <3>12, <4>5, <4>6, <4>7, <5>1 DEF FlowTo, FlowOf, Waits, x
        <5>2. CASE ~Both
          BY <2>1, <3>11, <3>12, <4>5, <4>7, <5>2 DEF FlowTo, FlowOf, Waits
        <5> QED BY <5>1, <5>2
      <4> QED BY <1>0, <4>4, <4>8 DEF Flow
    <3> QED BY <1>2, <2>3, <2>4, <3>13, <3>14, <3>16, <3>17, <3>18 DEF PublishInv
  <2> QED BY <1>0, <1>1, <2>11, <2>12, <2>13 DEF ConnTypes
<1> QED BY <1>3, <1>4

-----------------------------------------------------------------------------
(* Messages are taken of the buffer *)

\* What a turn of HandleChunk leaves to what the message is answered with.
ReaderDid(e) ==
  /\ open[e] /\ hs[e] = "COMPLETE" /\ UNCHANGED <<hs, pushVars>>
  /\ open' \in [Ends -> BOOLEAN] /\ \A f \in Ends : open'[f] => open[f]
  /\ reading' \in [Ends -> BOOLEAN] /\ Reading'
  /\ buf' \in [Ends -> Seq(Item)] /\ parser' \in [Ends -> ParserType] /\ got' \in [Ends -> Seq(MessageSet)]
  /\ \A f \in Ends \ {e} : buf'[f] = buf[f] /\ parser'[f] = parser[f] /\ got'[f] = got[f]
  /\ ReadsOn(e, sent[e], got'[e], parser'[e], buf'[e] \o pipe[e])

\* The message m, the next one of those sent to e, is handled.
Handles(e, m, ok) ==
  /\ m \in MessageSet /\ Says(e, Len(got[e]) + 1, m) /\ Len(got'[e]) = Len(got[e]) + 1
  /\ HandleMessage(e, m, ok)

LEMMA TakenOf ==
  ASSUME NEW b \in Seq(Item), NEW u \in 0..Len(b), u < Len(b)
  PROVE  SubSeq(b, u + 1, Len(b)) # <<>>
<1> DEFINE x == SubSeq(b, u + 1, Len(b))
<1>1. Len(x) = Len(b) - u /\ Len(b) \in Nat
  OBVIOUS
<1>2. Len(<<>>) = 0
  OBVIOUS
<1> HIDE DEF x
<1>3. Len(x) # 0
  BY <1>1
<1>4. x # <<>>
  BY <1>2, <1>3
<1> QED BY <1>4 DEF x

LEMMA MessagesJoined ==
  ASSUME NEW gs \in Seq(MessageSet), NEW m \in MessageSet
  PROVE  /\ gs \o <<>> = gs /\ gs \o <<m>> = Append(gs, m)
         /\ Append(gs, m) \in Seq(MessageSet) /\ Len(Append(gs, m)) = Len(gs) + 1
<1>1. gs \o <<>> = gs
  OBVIOUS
<1>2. gs \o <<m>> = Append(gs, m)
  OBVIOUS
<1>3. Append(gs, m) \in Seq(MessageSet) /\ Len(Append(gs, m)) = Len(gs) + 1
  OBVIOUS
<1> QED BY <1>1, <1>2, <1>3

LEMMA ChunkReads ==
  ASSUME PublishInv, NEW e \in Ends, HandleChunk(e)
  PROVE  /\ ReaderDid(e)
         /\ \/ got' = got /\ Stays
            \/ \E m, ok : Handles(e, m, ok)
<1> DEFINE b == buf[e]
           p == parser[e]
           gs == got[e]
           ms == sent[e]
           r == Parse(p, b)
           rest == SubSeq(b, r.used + 1, Len(b))
           next == ms[Len(gs) + 1]
<1>0. StreamTypes /\ ConnTypes
  BY DEF PublishInv
<1>1. /\ open[e] /\ reading[e] /\ hs[e] = "COMPLETE" /\ UNCHANGED <<hs, pushVars>>
      /\ buf' = [buf EXCEPT ![e] = rest]
      /\ reading' = [reading EXCEPT ![e] = r.used > 0 /\ r.used < Len(b)]
      /\ got' = [got EXCEPT ![e] = gs \o r.msgs]
      /\ parser' = [parser EXCEPT ![e] = InSize(r)]
  BY DEF HandleChunk
<1>2. IF r.msgs = <<>> THEN UNCHANGED open /\ Stays
      ELSE \E m \in {r.msgs[1]}, ok \in BOOLEAN : HandleMessage(e, m, ok) /\ (IF ok THEN UNCHANGED open ELSE Close(e))
  BY DEF HandleChunk
<1>3. /\ ms \in Seq(MessageSet) /\ gs \in Seq(MessageSet) /\ p \in ParserType /\ b \in Seq(Item) /\ pipe[e] \in Seq(Item)
      /\ b # <<>> /\ SaysAll(e, ms)
  BY <1>0, <1>1 DEF PublishInv, StreamTypes, Reading, Spoken
<1>4. ReadsOn(e, ms, gs, p, b \o pipe[e])
  BY <1>1 DEF PublishInv, Flow, FlowTo, FlowOf, Items
<1>5. /\ r.used \in 0..Len(b) /\ rest \in Seq(Item) /\ InSize(r) \in ParserType
      /\ Len(gs) < Len(ms)
      /\ \/ r.msgs = <<>> /\ ReadsOn(e, ms, gs, InSize(r), rest \o pipe[e])
         \/ r.msgs = <<next>> /\ ReadsOn(e, ms, Append(gs, next), InSize(r), rest \o pipe[e])
  BY <1>3, <1>4, ReaderTakes
<1>6. r.used < Len(b) => rest # <<>>
  BY <1>3, <1>5, TakenOf
<1>7. next \in MessageSet /\ Says(e, Len(gs) + 1, next) /\ Len(gs) \in Nat
  <2>1. Len(gs) \in Nat /\ Len(ms) \in Nat
    BY <1>3
  <2>2. Len(gs) + 1 \in 1..Len(ms)
    BY <1>5, <2>1
  <2> QED BY <1>3, <2>1, <2>2 DEF SaysAll
<1>8. /\ gs \o <<>> = gs /\ gs \o <<next>> = Append(gs, next)
      /\ Append(gs, next) \in Seq(MessageSet) /\ Len(Append(gs, next)) = Len(gs) + 1
  BY <1>3, <1>7, MessagesJoined
<1>9. r.msgs = <<next>> => r.msgs # <<>> /\ r.msgs[1] = next
  <2>1. <<next>> # <<>> /\ <<next>>[1] = next
    OBVIOUS
  <2> HIDE DEF next, r
  <2> QED BY <2>1
<1>10. /\ buf' \in [Ends -> Seq(Item)] /\ buf'[e] = rest /\ parser' \in [Ends -> ParserType] /\ parser'[e] = InSize(r)
       /\ \A f \in Ends \ {e} : buf'[f] = buf[f] /\ parser'[f] = parser[f] /\ got'[f] = got[f]
  <2> HIDE DEF rest, r
  <2> QED BY <1>0, <1>1, <1>5 DEF StreamTypes
<1> HIDE DEF rest, r, b, gs, ms, p, next
<1>11. reading' \in [Ends -> BOOLEAN] /\ Reading'
  <2>1. reading' \in [Ends -> BOOLEAN]
    BY <1>0, <1>1 DEF ConnTypes
  <2>2. \A f \in Ends : reading'[f] => buf'[f] # <<>>
    BY <1>0, <1>1, <1>6, <1>10 DEF PublishInv, Reading, ConnTypes
  <2> QED BY <2>1, <2>2 DEF Reading
<1>12. open' \in [Ends -> BOOLEAN] /\ \A f \in Ends : open'[f] => open[f]
  <2>1. open' = open \/ Close(e)
    BY <1>2
  <2> QED BY <1>0, <2>1 DEF Close, ConnTypes
<1>13. got'[e] = gs \o r.msgs
  BY <1>0, <1>1 DEF StreamTypes
<1>14. CASE r.msgs = <<>>
  <2>1. got' = got /\ Stays
    <3>1. got' = [got EXCEPT ![e] = got[e]]
      BY <1>1, <1>8, <1>14 DEF gs
    <3> QED BY <1>0, <1>2, <1>14, <3>1 DEF StreamTypes
  <2>2. ReadsOn(e, sent[e], got'[e], parser'[e], buf'[e] \o pipe[e])
    BY <1>5, <1>9, <1>10, <1>14, <2>1 DEF gs, ms
  <2>3. got' \in [Ends -> Seq(MessageSet)]
    BY <1>0, <2>1 DEF StreamTypes
  <2> QED BY <1>1, <1>10, <1>11, <1>12, <2>1, <2>2, <2>3 DEF ReaderDid
<1>15. CASE r.msgs # <<>>
  <2>1. r.msgs = <<next>> /\ ReadsOn(e, ms, Append(gs, next), InSize(r), rest \o pipe[e])
    BY <1>5, <1>15
  <2>2. got'[e] = Append(gs, next)
    BY <1>8, <1>13, <2>1
  <2>3. ReadsOn(e, sent[e], got'[e], parser'[e], buf'[e] \o pipe[e])
    BY <1>10, <2>1, <2>2 DEF ms
  <2>4. got' \in [Ends -> Seq(MessageSet)]
    <3>1. got' = [got EXCEPT ![e] = Append(gs, next)]
      BY <1>1, <1>8, <2>1
    <3> QED BY <1>0, <1>8, <3>1 DEF StreamTypes
  <2>5. PICK ok \in BOOLEAN : HandleMessage(e, next, ok)
    BY <1>2, <1>9, <1>15, <2>1
  <2>6. Handles(e, next, ok)
    BY <1>7, <1>8, <2>2, <2>5 DEF Handles, gs
  <2> QED BY <1>1, <1>10, <1>11, <1>12, <2>3, <2>4, <2>6 DEF ReaderDid
<1> QED BY <1>14, <1>15

\* What the answer of e may change, so that the invariant is kept.
AnswersWell(e) ==
  /\ sent' \in [Ends -> Seq(MessageSet)] /\ pipe' \in [Ends -> Seq(Item)]
  /\ sent'[e] = sent[e] /\ pipe'[e] = pipe[e]
  /\ Arrives(Peer(e), sent'[Peer(e)], buf[Peer(e)] \o pipe'[Peer(e)])
  /\ outSize' \in [Ends -> {DefaultChunk, MaxChunk}]
  /\ state' \in [Ends -> {"HANDSHAKE", "CONNECT", "CREATE_STREAM", "PUBLISH"}]
  /\ streamId' \in [Ends -> {0, StreamId}]
  /\ published' \in BOOLEAN /\ (published => published')
  /\ ClientState' /\ ServerState'
  /\ Both => Len(sent'["client"]) = Answered(Len(got'["server"])) /\ Asked(state'["client"], published', Len(sent'["server"]))

LEMMA AnswerKeeps ==
  ASSUME PublishInv, NEW e \in Ends, ReaderDid(e), AnswersWell(e)
  PROVE  PublishInv'
<1> DEFINE f == Peer(e)
<1>0. StreamTypes /\ ConnTypes /\ PushTypes /\ f \in Ends /\ f # e /\ Ends = {e, f} /\ Ends = {"client", "server"}
  BY EndsApart DEF PublishInv, Ends
<1>1. StreamTypes'
  BY DEF ReaderDid, AnswersWell, StreamTypes
<1>2. ConnTypes'
  BY <1>0 DEF ReaderDid, AnswersWell, ConnTypes
<1>3. PushTypes' /\ manager' = manager /\ thread' = thread
  BY <1>0 DEF ReaderDid, PushTypes, pushVars
<1>4. hs' = hs /\ manager \notin {"new", "initialized"}
  BY DEF ReaderDid, PublishInv, Unopened
<1>5. hs["client"] = "COMPLETE" /\ hs["server"] # "C0C1"
  BY <1>0 DEF ReaderDid, PublishInv, Hands
<1>6. Hands' /\ Unopened'
  BY <1>3, <1>4, <1>5 DEF PublishInv, Hands, Unopened
<1>7. Reading'
  BY DEF ReaderDid
<1>8. Spoken'
  BY <1>0 DEF AnswersWell, Arrives, PublishInv, Spoken
<1>9. Talking'
  <2>1. Both' => Both
    BY <1>0 DEF ReaderDid, Both
  <2> QED BY <2>1 DEF AnswersWell, Talking
<1>10. Pushing'
  BY <1>3 DEF AnswersWell, PublishInv, Pushing
<1>11. Flow'
  <2>1. FlowTo(e)'
    BY <1>4 DEF ReaderDid, AnswersWell, FlowTo, FlowOf, Items
  <2>2. buf'[f] = buf[f] /\ parser'[f] = parser[f] /\ got'[f] = got[f]
    BY <1>0 DEF ReaderDid
  <2>3. FlowOf(f, hs[f], sent'[f], got[f], parser[f], buf[f] \o pipe'[f])
    BY DEF AnswersWell, Arrives
  <2>4. FlowTo(f)'
    BY <1>4, <2>2, <2>3 DEF FlowTo, Items
  <2> QED BY <1>0, <2>1, <2>4 DEF Flow
<1> QED BY <1>1, <1>2, <1>3, <1>6, <1>7, <1>8, <1>9, <1>10, <1>11 DEF PublishInv, AnswersWell

\* Nothing is sent.
LEMMA PeerStays ==
  ASSUME PublishInv, NEW e \in Ends, UNCHANGED <<sent, pipe>>
  PROVE  /\ sent' \in [Ends -> Seq(MessageSet)] /\ pipe' \in [Ends -> Seq(Item)]
         /\ sent'[e] = sent[e] /\ pipe'[e] = pipe[e]
         /\ Arrives(Peer(e), sent'[Peer(e)], buf[Peer(e)] \o pipe'[Peer(e)])
<1> DEFINE f == Peer(e)
<1>0. StreamTypes /\ f \in Ends
  BY EndsApart DEF PublishInv
<1>1. buf[f] \in Seq(Item) /\ pipe[f] \in Seq(Item) /\ sent[f] \in Seq(MessageSet)
  BY <1>0 DEF StreamTypes
<1>2. Items(f) \in Seq(Item)
  BY <1>1, ItemsJoined DEF Items
<1>3. SaysAll(f, sent[f]) /\ FlowTo(f)
  BY <1>0 DEF PublishInv, Spoken, Flow
<1>4. Arrives(f, sent[f], Items(f))
  BY <1>1, <1>2, <1>3 DEF Arrives, FlowTo
<1> QED BY <1>0, <1>4 DEF StreamTypes, Items

\* A turn that answers nothing and leaves the dialogue where it is.
LEMMA StaysKeeps ==
  ASSUME PublishInv, NEW e \in Ends, ReaderDid(e), Stays, ClientState', ServerState',
         Both => Len(sent["client"]) = Answered(Len(got'["server"])) /\ Asked(state["client"], published, Len(sent["server"]))
  PROVE  PublishInv'
<1>1. UNCHANGED <<sent, pipe>> /\ UNCHANGED <<state, streamId, published, outSize>>
  BY DEF Stays
<1>2. /\ sent' \in [Ends -> Seq(MessageSet)] /\ pipe' \in [Ends -> Seq(Item)]
      /\ sent'[e] = sent[e] /\ pipe'[e] = pipe[e]
      /\ Arrives(Peer(e), sent'[Peer(e)], buf[Peer(e)] \o pipe'[Peer(e)])
  BY <1>1, PeerStays
<1>3. /\ outSize' \in [Ends -> {DefaultChunk, MaxChunk}]
      /\ state' \in [Ends -> {"HANDSHAKE", "CONNECT", "CREATE_STREAM", "PUBLISH"}]
      /\ streamId' \in [Ends -> {0, StreamId}] /\ published' \in BOOLEAN
  BY <1>1 DEF PublishInv, StreamTypes, ConnTypes
<1>4. AnswersWell(e)
  BY <1>1, <1>2, <1>3 DEF AnswersWell
<1> QED BY <1>4, AnswerKeeps

\* Nothing whole is there.
LEMMA NothingHandled ==
  ASSUME PublishInv, NEW e \in Ends, ReaderDid(e), got' = got, Stays
  PROVE  PublishInv'
<1>1. UNCHANGED <<hs, got, state, streamId, published, outSize>>
  BY DEF ReaderDid, Stays
<1>2. ClientState' /\ ServerState'
  BY <1>1 DEF PublishInv, ClientState, ServerState
<1>3. Both => Len(sent["client"]) = Answered(Len(got'["server"])) /\ Asked(state["client"], published, Len(sent["server"]))
  BY <1>1 DEF PublishInv, Talking
<1> QED BY <1>2, <1>3, StaysKeeps

\* What is handled is a message, so that it is none of those that nothing is made of.
LEMMA HandledOf ==
  ASSUME NEW e \in Ends, NEW m, NEW ok, Handles(e, m, ok)
  PROVE  /\ m.type = "SetChunkSize" => Stays
         /\ m.type # "SetChunkSize" => IF e = "client" THEN ClientHandles(m, ok) ELSE ServerHandles(m, ok)
<1>1. m # Lost
  BY DEF Handles, MessageSet, Types, Lost
<1>2. HandleMessage(e, m, ok)
  BY DEF Handles
<1> QED BY <1>1, <1>2 DEF HandleMessage

LEMMA ClientNow ==
  ASSUME NEW g, NEW at, NEW id, NEW size, NEW pub, ClientIs("COMPLETE", g, at, id, size, pub),
         hs'["client"] = "COMPLETE", Len(got'["client"]) = g, state'["client"] = at, streamId'["client"] = id,
         outSize'["client"] = size, published' = pub
  PROVE  ClientState'
<1>1. ClientIs(hs'["client"], Len(got'["client"]), state'["client"], streamId'["client"], outSize'["client"], published')
  OBVIOUS
<1> QED BY <1>1 DEF ClientState

LEMMA ServerNow ==
  ASSUME NEW g, NEW at, NEW id, NEW size, ServerIs(g, at, id, size),
         Len(got'["server"]) = g, state'["server"] = at, streamId'["server"] = id, outSize'["server"] = size
  PROVE  ServerState'
<1>1. ServerIs(Len(got'["server"]), state'["server"], streamId'["server"], outSize'["server"])
  OBVIOUS
<1> QED BY <1>1 DEF ServerState

\* The client's next request, when it has sent k messages.
LEMMA Asking ==
  ASSUME NEW k \in 2..3, NEW n, n = k, NEW m, Says("server", k + 1, m)
  PROVE  Says("server", n + 1, m) /\ MaxChunk = SizeAt("server", n + 1)
BY DEF SizeAt

LEMMA ClientTakes ==
  ASSUME PublishInv, ReaderDid("client"), NEW m, NEW ok, Handles("client", m, ok)
  PROVE  PublishInv'
<1> DEFINE g == Len(got["client"])
<1>0. /\ StreamTypes /\ ConnTypes /\ "client" \in Ends /\ "server" \in Ends /\ Ends = {"client", "server"}
      /\ Peer("client") = "server" /\ "client" # "server"
  BY DEF PublishInv, Ends, Peer
<1>1. /\ hs["client"] = "COMPLETE" /\ hs' = hs /\ got'["server"] = got["server"] /\ g \in Nat
  BY <1>0 DEF ReaderDid, StreamTypes
<1>2. Len(got'["client"]) = g + 1 /\ Answers(g + 1, m)
  BY DEF Handles, Says
<1>3. ClientIs("COMPLETE", g, state["client"], streamId["client"], outSize["client"], published)
  BY <1>1 DEF PublishInv, ClientState
<1>4. /\ m.type = "SetChunkSize" => Stays
      /\ m.type # "SetChunkSize" => ClientHandles(m, ok)
  BY <1>0, HandledOf
<1>5. ServerIs(Len(got["server"]), state["server"], streamId["server"], outSize["server"])
  BY DEF PublishInv, ServerState
<1>6. Both => Len(sent["client"]) = Answered(Len(got["server"])) /\ Asked(state["client"], published, Len(sent["server"]))
  BY DEF PublishInv, Talking
<1>7. SaysAll("server", sent["server"]) /\ FlowTo("server") /\ sent["server"] \in Seq(MessageSet)
  BY <1>0 DEF PublishInv, Spoken, Flow, StreamTypes
<1>8. Len(sent["server"]) \in Nat
  BY <1>7
<1>9. \A n : n >= 1 /\ Len(sent["server"]) = n => sent["server"] # <<>>
  <2>1. Len(<<>>) = 0
    OBVIOUS
  <2> QED BY <1>8, <2>1
<1> HIDE DEF g
<1>10. g + 1 \in 1..6
  BY <1>1, <1>2 DEF Answers
<1>11. CASE g + 1 <= 3
  <2>1. state["client"] = "CONNECT" /\ streamId["client"] = 0 /\ outSize["client"] = MaxChunk /\ ~published
    BY <1>1, <1>3, <1>11 DEF ClientIs
  <2>2. Stays
    <3>1. m = SizeIs \/ m = Control("AckSize", 0) \/ m = Control("Bandwidth", 0)
      BY <1>1, <1>2, <1>11 DEF Answers
    <3>2. m.type \in {"SetChunkSize", "AckSize", "Bandwidth"}
      BY <3>1 DEF SizeIs, Control
    <3> QED BY <1>4, <3>2 DEF ClientHandles
  <2>3. ClientIs("COMPLETE", g + 1, "CONNECT", 0, MaxChunk, FALSE)
    BY <1>1, <1>11 DEF ClientIs
  <2>4. UNCHANGED <<state, streamId, published, outSize>>
    BY <2>2 DEF Stays
  <2>5. ClientState' /\ ServerState'
    <3>1. published' = FALSE /\ state'["client"] = "CONNECT" /\ streamId'["client"] = 0 /\ outSize'["client"] = MaxChunk
      BY <1>0, <2>1, <2>4 DEF ConnTypes
    <3>2. ClientState'
      BY <1>1, <1>2, <2>3, <3>1, ClientNow
    <3>3. ServerState'
      BY <1>1, <1>5, <2>4, ServerNow
    <3> QED BY <3>2, <3>3
  <2> QED BY <1>0, <1>1, <1>6, <2>2, <2>5, StaysKeeps
<1>12. CASE g + 1 = 4
  <2>1. state["client"] = "CONNECT" /\ streamId["client"] = 0 /\ outSize["client"] = MaxChunk /\ ~published
    BY <1>1, <1>3, <1>12 DEF ClientIs
  <2>2. m = Answer1
    BY <1>2, <1>12 DEF Answers
  <2>3. m.type = "Invoke" /\ Method(m) = "_result" /\ Code(m.body) = "NetConnection.Connect.Success"
    <3>1. m.type = "Invoke" /\ Method(m) = "_result"
      BY <2>2 DEF Answer1, Request, Method, Str
    <3> QED BY <2>2, <3>1, Meanings
  <2>4. HandleResult(m.body)
    BY <1>4, <2>3 DEF ClientHandles
  <2>5. /\ state' = [state EXCEPT !["client"] = "CREATE_STREAM"]
        /\ Send("client", Invoke("client", CreateStream))
        /\ UNCHANGED <<streamId, published, outSize>>
    BY <2>1, <2>3, <2>4 DEF HandleResult
  <2>6. Invoke("client", CreateStream) = Request(CreateStream, 0) /\ Request(CreateStream, 0) \in MessageSet
    BY <2>1, MessagesAreTyped DEF Invoke, Request
  <2>7. Both => Len(sent["server"]) = 2
    BY <1>6, <2>1 DEF Asked
  <2>8. Both => /\ hs["server"] = "COMPLETE" \/ sent["server"] # <<>>
                /\ Says("server", Len(sent["server"]) + 1, Request(CreateStream, 0))
                /\ outSize["client"] = SizeAt("server", Len(sent["server"]) + 1)
    <3>1. Says("server", 2 + 1, Request(CreateStream, 0)) /\ 2 \in 2..3
      BY DEF Says, Asks
    <3>2. Both => sent["server"] # <<>>
      BY <1>9, <2>7
    <3> QED BY <2>1, <2>7, <3>1, <3>2, Asking
  <2>9. /\ sent' \in [Ends -> Seq(MessageSet)] /\ pipe' \in [Ends -> Seq(Item)]
        /\ sent'["client"] = sent["client"] /\ pipe'["client"] = pipe["client"]
        /\ Arrives("server", sent'["server"], buf["server"] \o pipe'["server"])
        /\ Len(sent'["server"]) = Len(sent["server"]) + (IF Both THEN 1 ELSE 0)
    BY <1>0, <1>7, <2>5, <2>6, <2>8, Sends
  <2>10. /\ state'["client"] = "CREATE_STREAM" /\ state'["server"] = state["server"]
         /\ state' \in [Ends -> {"HANDSHAKE", "CONNECT", "CREATE_STREAM", "PUBLISH"}]
    BY <1>0, <2>5 DEF ConnTypes
  <2>11. ClientIs("COMPLETE", 4, "CREATE_STREAM", 0, MaxChunk, FALSE)
    BY DEF ClientIs
  <2>12. ClientState' /\ ServerState'
    <3>1. published' = FALSE /\ state'["client"] = "CREATE_STREAM" /\ streamId'["client"] = 0 /\ outSize'["client"] = MaxChunk
      BY <1>0, <2>1, <2>5, <2>10 DEF ConnTypes
    <3>2. ClientState'
      BY <1>1, <1>2, <1>12, <2>11, <3>1, ClientNow
    <3>3. ServerState'
      BY <1>1, <1>5, <2>5, <2>10, ServerNow
    <3> QED BY <3>2, <3>3
  <2>13. Both => Len(sent'["client"]) = Answered(Len(got'["server"])) /\ Asked(state'["client"], published', Len(sent'["server"]))
    <3>1. Both => Len(sent'["server"]) = 3
      <4>1. 2 + 1 = 3
        OBVIOUS
      <4> QED BY <2>7, <2>9, <4>1, Zenon
    <3>2. Asked("CREATE_STREAM", FALSE, 3)
      BY DEF Asked
    <3>3. published' = FALSE
      BY <1>0, <2>1, <2>5 DEF ConnTypes
    <3> QED BY <1>1, <1>6, <2>9, <2>10, <3>1, <3>2, <3>3
  <2>14. AnswersWell("client")
    BY <1>0, <2>1, <2>5, <2>9, <2>10, <2>12, <2>13 DEF AnswersWell, ConnTypes, StreamTypes
  <2> QED BY <1>0, <2>14, AnswerKeeps
<1>13. CASE g + 1 = 5
  <2>1. state["client"] = "CREATE_STREAM" /\ streamId["client"] = 0 /\ outSize["client"] = MaxChunk /\ ~published
    BY <1>1, <1>3, <1>13 DEF ClientIs
  <2>2. m = Answer2
    BY <1>2, <1>13 DEF Answers
  <2>3. m.type = "Invoke" /\ Method(m) = "_result" /\ Number(m.body) = StreamId /\ StreamId > 0
    <3>1. m.type = "Invoke" /\ Method(m) = "_result"
      BY <2>2 DEF Answer2, Request, Method, Str
    <3> QED BY <2>2, <3>1, Meanings, StreamAssumption
  <2>4. HandleResult(m.body)
    BY <1>4, <2>3 DEF ClientHandles
  <2>5. /\ streamId' = [streamId EXCEPT !["client"] = StreamId]
        /\ state' = [state EXCEPT !["client"] = "PUBLISH"]
        /\ Send("client", [Invoke("client", PublishStream) EXCEPT !.stream = StreamId])
        /\ UNCHANGED <<published, outSize>>
    BY <2>1, <2>3, <2>4 DEF HandleResult
  <2>6. /\ [Invoke("client", PublishStream) EXCEPT !.stream = StreamId] = Request(PublishStream, StreamId)
        /\ Request(PublishStream, StreamId) \in MessageSet
    BY MessagesAreTyped DEF Invoke, Request
  <2>7. Both => Len(sent["server"]) = 3
    BY <1>6, <2>1 DEF Asked
  <2>8. Both => /\ hs["server"] = "COMPLETE" \/ sent["server"] # <<>>
                /\ Says("server", Len(sent["server"]) + 1, Request(PublishStream, StreamId))
                /\ outSize["client"] = SizeAt("server", Len(sent["server"]) + 1)
    <3>1. Says("server", 3 + 1, Request(PublishStream, StreamId)) /\ 3 \in 2..3
      BY DEF Says, Asks
    <3>2. Both => sent["server"] # <<>>
      BY <1>9, <2>7
    <3> QED BY <2>1, <2>7, <3>1, <3>2, Asking
  <2>9. /\ sent' \in [Ends -> Seq(MessageSet)] /\ pipe' \in [Ends -> Seq(Item)]
        /\ sent'["client"] = sent["client"] /\ pipe'["client"] = pipe["client"]
        /\ Arrives("server", sent'["server"], buf["server"] \o pipe'["server"])
        /\ Len(sent'["server"]) = Len(sent["server"]) + (IF Both THEN 1 ELSE 0)
    BY <1>0, <1>7, <2>5, <2>6, <2>8, Sends
  <2>10. /\ state'["client"] = "PUBLISH" /\ state'["server"] = state["server"]
         /\ streamId'["client"] = StreamId /\ streamId'["server"] = streamId["server"]
         /\ state' \in [Ends -> {"HANDSHAKE", "CONNECT", "CREATE_STREAM", "PUBLISH"}]
         /\ streamId' \in [Ends -> {0, StreamId}]
    BY <1>0, <2>5 DEF ConnTypes
  <2>11. ClientIs("COMPLETE", 5, "PUBLISH", StreamId, MaxChunk, FALSE)
    BY DEF ClientIs
  <2>12. ClientState' /\ ServerState'
    <3>1. published' = FALSE /\ state'["client"] = "PUBLISH" /\ streamId'["client"] = StreamId /\ outSize'["client"] = MaxChunk
      BY <1>0, <2>1, <2>5, <2>10 DEF ConnTypes
    <3>2. ClientState'
      BY <1>1, <1>2, <1>13, <2>11, <3>1, ClientNow
    <3>3. ServerState'
      BY <1>1, <1>5, <2>5, <2>10, ServerNow
    <3> QED BY <3>2, <3>3
  <2>13. Both => Len(sent'["client"]) = Answered(Len(got'["server"])) /\ Asked(state'["client"], published', Len(sent'["server"]))
    <3>1. Both => Len(sent'["server"]) = 4
      <4>1. 3 + 1 = 4
        OBVIOUS
      <4> QED BY <2>7, <2>9, <4>1, Zenon
    <3>2. Asked("PUBLISH", FALSE, 4)
      BY DEF Asked
    <3>3. published' = FALSE
      BY <1>0, <2>1, <2>5 DEF ConnTypes
    <3> QED BY <1>1, <1>6, <2>9, <2>10, <3>1, <3>2, <3>3
  <2>14. AnswersWell("client")
    BY <1>0, <2>1, <2>5, <2>9, <2>10, <2>12, <2>13 DEF AnswersWell, ConnTypes, StreamTypes
  <2> QED BY <1>0, <2>14, AnswerKeeps
<1>14. CASE g + 1 = 6
  <2>1. state["client"] = "PUBLISH" /\ streamId["client"] = StreamId /\ outSize["client"] = MaxChunk /\ ~published
    BY <1>1, <1>3, <1>14 DEF ClientIs
  <2>2. PICK code \in Codes : m = Status(code)
    BY <1>2, <1>14 DEF Answers
  <2>3. m.type = "Invoke" /\ Method(m) = "onStatus"
    BY <2>2 DEF Status, Request, Method, Str
  <2>4. HandleOnStatus(m.body, ok)
    BY <1>4, <2>3 DEF ClientHandles
  <2>5. published' \in BOOLEAN /\ UNCHANGED <<state, streamId, outSize, sent, pipe>>
    BY <1>0, <2>4 DEF HandleOnStatus, ConnTypes
  <2>6. ClientIs("COMPLETE", 6, "PUBLISH", StreamId, MaxChunk, published')
    BY <2>5 DEF ClientIs
  <2>7. ClientState' /\ ServerState'
    BY <1>1, <1>2, <1>5, <1>14, <2>1, <2>5, <2>6 DEF ClientState, ServerState
  <2>8. Both => Len(sent'["client"]) = Answered(Len(got'["server"])) /\ Asked(state'["client"], published', Len(sent'["server"]))
    <3>1. Both => Len(sent["server"]) = 4
      BY <1>6, <2>1 DEF Asked
    <3>2. Asked("PUBLISH", published', 4)
      BY DEF Asked
    <3> QED BY <1>1, <1>6, <2>1, <2>5, <3>1, <3>2
  <2>9. /\ sent' \in [Ends -> Seq(MessageSet)] /\ pipe' \in [Ends -> Seq(Item)]
        /\ sent'["client"] = sent["client"] /\ pipe'["client"] = pipe["client"]
        /\ Arrives(Peer("client"), sent'[Peer("client")], buf[Peer("client")] \o pipe'[Peer("client")])
    BY <1>0, <2>5, PeerStays
  <2>10. AnswersWell("client")
    BY <1>0, <2>1, <2>5, <2>7, <2>8, <2>9 DEF AnswersWell, ConnTypes, StreamTypes
  <2> QED BY <1>0, <2>10, AnswerKeeps
<1>15. g + 1 <= 3 \/ g + 1 = 4 \/ g + 1 = 5 \/ g + 1 = 6
  BY <1>1, <1>10
<1> QED BY <1>11, <1>12, <1>13, <1>14, <1>15

\* The invocations the server handles, and what it answers with.
LEMMA ServerHandlesOf ==
  ASSUME NEW m, NEW ok, ServerHandles(m, ok), m.type = "Invoke"
  PROVE  HandleInvoke(m, ok)
BY DEF ServerHandles

\* The four messages that answer connect.
LEMMA ConnectIsAnswered ==
  ASSUME PublishInv, HandleConnection(Connect), streamId["server"] = 0, outSize["server"] = DefaultChunk,
         hs["client"] = "COMPLETE", Both => Len(sent["client"]) = 0
  PROVE  /\ sent' \in [Ends -> Seq(MessageSet)] /\ pipe' \in [Ends -> Seq(Item)]
         /\ sent'["server"] = sent["server"] /\ pipe'["server"] = pipe["server"]
         /\ Arrives("client", sent'["client"], buf["client"] \o pipe'["client"])
         /\ Both => Len(sent'["client"]) = 4
         /\ outSize' = [outSize EXCEPT !["server"] = MaxChunk] /\ UNCHANGED <<state, streamId, published>>
<1> DEFINE ack == Control("AckSize", 0)
           bandwidth == Control("Bandwidth", 0)
           first == CreateChunk(ack, DefaultChunk)
           second == CreateChunk(bandwidth, DefaultChunk)
           third == CreateChunk(SizeIs, MaxChunk)
           fourth == CreateChunk(Answer1, MaxChunk)
           ms == <<ack, bandwidth>> \o <<SizeIs, Answer1>>
           items == first \o second \o third \o fourth
<1>0. /\ StreamTypes /\ ConnTypes /\ "client" \in Ends /\ "server" \in Ends /\ Ends = {"client", "server"}
      /\ Peer("server") = "client"
  BY DEF PublishInv, Ends, Peer
<1>1. Invoke("server", <<Str("_result"), Num(Number(Connect)), Obj("none"), Obj("NetConnection.Connect.Success")>>) = Answer1
  BY Meanings DEF Invoke, Answer1, Request
<1>2. /\ Resize("server", <<ack, bandwidth>>, first \o second, Answer1) /\ UNCHANGED <<state, streamId, published>>
  BY <1>1 DEF HandleConnection
<1>3. /\ outSize' = [outSize EXCEPT !["server"] = MaxChunk] /\ Deliver("server", ms, items)
  BY <1>2 DEF Resize
<1>4. ack \in MessageSet /\ bandwidth \in MessageSet /\ SizeIs \in MessageSet /\ Answer1 \in MessageSet
  BY MessagesAreTyped
<1>5. DefaultChunk \in Nat \ {0} /\ MaxChunk \in Nat \ {0}
  BY ChunkAssumption DEF DefaultChunk
<1>6. first \in Seq(Item) /\ second \in Seq(Item) /\ third \in Seq(Item) /\ fourth \in Seq(Item)
  <2>1. first \in Seq(Item)
    BY <1>4, <1>5, ChunkType
  <2>2. second \in Seq(Item)
    BY <1>4, <1>5, ChunkType
  <2>3. third \in Seq(Item)
    BY <1>4, <1>5, ChunkType
  <2>4. fourth \in Seq(Item)
    BY <1>4, <1>5, ChunkType
  <2> QED BY <2>1, <2>2, <2>3, <2>4
<1>7. /\ Says("client", 1, ack) /\ Says("client", 2, bandwidth) /\ Says("client", 3, SizeIs) /\ Says("client", 4, Answer1)
      /\ SizeAt("client", 1) = DefaultChunk /\ SizeAt("client", 2) = DefaultChunk /\ SizeIs.len = 1
      /\ SizeAt("client", 4) = MaxChunk
  BY DEF Says, Answers, SizeAt, SizeIs, Control
<1>8. ms \in Seq(MessageSet) /\ ms = Append(Append(Append(Append(<<>>, ack), bandwidth), SizeIs), Answer1)
  <2> HIDE DEF ack, bandwidth
  <2>1. /\ <<ack, bandwidth>> \o <<SizeIs, Answer1>> \in Seq(MessageSet)
        /\ <<ack, bandwidth>> \o <<SizeIs, Answer1>>
             = Append(Append(Append(Append(<<>>, ack), bandwidth), SizeIs), Answer1)
    <3> DEFINE Goal(a, b, c, d) ==
          /\ <<a, b>> \o <<c, d>> \in Seq(MessageSet)
          /\ <<a, b>> \o <<c, d>> = Append(Append(Append(Append(<<>>, a), b), c), d)
    <3>1. \A a, b, c, d \in MessageSet : Goal(a, b, c, d)
      BY FourOf
    <3> HIDE DEF Goal
    <3>2. Goal(ack, bandwidth, SizeIs, Answer1)
      BY <1>4, <3>1, Zenon
    <3> QED BY <3>2, Zenon DEF Goal
  <2> QED BY <2>1, Zenon
<1> HIDE DEF ms, ack, bandwidth, first, second, third, fourth
<1>9. items \in Seq(Item) /\ \A t \in Seq(Item) : t \o items = (((t \o first) \o second) \o third) \o fourth
  <2>1. first \o second \in Seq(Item) /\ (first \o second) \o third \in Seq(Item) /\ items \in Seq(Item)
    <3>1. \A a, b \in Seq(Item) : a \o b \in Seq(Item)
      OBVIOUS
    <3>2. first \o second \in Seq(Item)
      BY <1>6, <3>1, Zenon
    <3>3. (first \o second) \o third \in Seq(Item)
      BY <1>6, <3>1, <3>2, Zenon
    <3> QED BY <1>6, <3>1, <3>2, <3>3, Zenon
  <2>2. ASSUME NEW t \in Seq(Item) PROVE t \o items = (((t \o first) \o second) \o third) \o fourth
    <3>a. \A x, y \in Seq(Item) : t \o (x \o y) = (t \o x) \o y
      BY ItemsAssociate, Zenon
    <3>1. t \o (((first \o second) \o third) \o fourth) = (t \o ((first \o second) \o third)) \o fourth
      BY <1>6, <2>1, <3>a, Zenon
    <3>2. t \o ((first \o second) \o third) = (t \o (first \o second)) \o third
      BY <1>6, <2>1, <3>a, Zenon
    <3>3. t \o (first \o second) = (t \o first) \o second
      BY <1>6, <3>a, Zenon
    <3> QED BY <3>1, <3>2, <3>3, Zenon
  <2> QED BY <2>1, <2>2
<1> HIDE DEF items
<1>10. /\ sent' \in [Ends -> Seq(MessageSet)] /\ pipe' \in [Ends -> Seq(Item)]
       /\ sent'["server"] = sent["server"] /\ pipe'["server"] = pipe["server"]
       /\ Both => /\ sent'["client"] = sent["client"] \o ms
                  /\ buf["client"] \o pipe'["client"] = Items("client") \o items
       /\ ~Both => UNCHANGED <<sent, pipe>>
  BY <1>0, <1>3, <1>8, <1>9, Delivers
<1>11. CASE Both
  <2> DEFINE t == Items("client")
             m1 == Append(<<>>, ack)
             m2 == Append(m1, bandwidth)
             m3 == Append(m2, SizeIs)
             t1 == t \o first
             t2 == t1 \o second
             t3 == t2 \o third
  <2>1. sent["client"] = <<>> /\ <<>> \o ms = ms
    <3>1. sent["client"] \in Seq(MessageSet) /\ Len(sent["client"]) = 0
      BY <1>0, <1>11 DEF StreamTypes
    <3> QED BY <1>8, <3>1
  <2>2. Arrives("client", <<>>, t) /\ t \in Seq(Item)
    <3>1. buf["client"] \in Seq(Item) /\ pipe["client"] \in Seq(Item)
      BY <1>0 DEF StreamTypes
    <3>2. t \in Seq(Item)
      BY <3>1, ItemsJoined DEF Items
    <3>3. SaysAll("client", sent["client"]) /\ FlowTo("client") /\ sent["client"] \in Seq(MessageSet)
      BY <1>0 DEF PublishInv, Spoken, Flow, StreamTypes
    <3> QED BY <2>1, <3>2, <3>3 DEF Arrives, FlowTo
  <2>3. ms = Append(m3, Answer1)
    BY <1>8
  <2>4. t \o items = t3 \o fourth
    BY <1>9, <2>2
  <2>5. Len(<<>>) = 0 /\ DefaultChunk \in {DefaultChunk, MaxChunk} /\ MaxChunk \in {DefaultChunk, MaxChunk}
    OBVIOUS
  <2> HIDE DEF t
  <2>6. Arrives("client", m1, t1) /\ Len(m1) = 1
    <3> DEFINE none == <<>>
    <3>1. Arrives("client", none, t) /\ Len(none) = 0 /\ 0 + 1 = 1
      BY <2>2, <2>5
    <3> HIDE DEF none
    <3>3. Says("client", Len(none) + 1, ack) /\ DefaultChunk = SizeAt("client", Len(none) + 1)
      BY <1>7, <3>1
    <3>2. Arrives("client", Append(none, ack), t1) /\ Len(Append(none, ack)) = Len(none) + 1
      BY <1>0, <1>4, <2>5, <3>1, <3>3, ArrivesNext DEF first
    <3> QED BY <3>1, <3>2 DEF none
  <2> HIDE DEF m1, t1
  <2>7. Arrives("client", m2, t2) /\ Len(m2) = 2
    <3>1. 1 + 1 = 2
      OBVIOUS
    <3>3. Says("client", Len(m1) + 1, bandwidth) /\ DefaultChunk = SizeAt("client", Len(m1) + 1)
      BY <1>7, <2>6, <3>1
    <3>2. Arrives("client", Append(m1, bandwidth), t2) /\ Len(Append(m1, bandwidth)) = Len(m1) + 1
      BY <1>0, <1>4, <2>5, <2>6, <3>3, ArrivesNext DEF second
    <3> QED BY <2>6, <3>1, <3>2
  <2> HIDE DEF m2, t2
  <2>8. Arrives("client", m3, t3) /\ Len(m3) = 3
    <3>1. 2 + 1 = 3
      OBVIOUS
    <3>2. Arrives("client", Append(m2, SizeIs), t3) /\ Len(Append(m2, SizeIs)) = Len(m2) + 1
      BY <1>0, <1>4, <1>7, <2>5, <2>7, <3>1, ArrivesNext DEF third
    <3> QED BY <2>7, <3>1, <3>2
  <2> HIDE DEF m3, t3
  <2>9. Arrives("client", ms, t3 \o fourth) /\ Len(ms) = 4
    <3>1. 3 + 1 = 4
      OBVIOUS
    <3>2. Arrives("client", Append(m3, Answer1), t3 \o fourth) /\ Len(Append(m3, Answer1)) = Len(m3) + 1
      BY <1>0, <1>4, <1>7, <2>5, <2>8, <3>1, ArrivesNext DEF fourth
    <3> QED BY <2>3, <2>8, <3>1, <3>2
  <2> QED BY <1>2, <1>3, <1>10, <1>11, <2>1, <2>4, <2>9 DEF t
<1>12. CASE ~Both
  <2>1. Arrives("client", sent'["client"], buf["client"] \o pipe'["client"])
    BY <1>0, <1>10, <1>12, PeerStays
  <2> QED BY <1>2, <1>3, <1>10, <1>12, <2>1
<1> QED BY <1>11, <1>12

LEMMA ServerTakes ==
  ASSUME PublishInv, ReaderDid("server"), NEW m, NEW ok, Handles("server", m, ok)
  PROVE  PublishInv'
<1> DEFINE g == Len(got["server"])
           n == Len(sent["client"])
<1>0. /\ StreamTypes /\ ConnTypes /\ "client" \in Ends /\ "server" \in Ends /\ Ends = {"client", "server"}
      /\ Peer("server") = "client" /\ "client" # "server"
  BY DEF PublishInv, Ends, Peer
<1>1. /\ hs["server"] = "COMPLETE" /\ hs' = hs /\ got'["client"] = got["client"] /\ g \in Nat
  BY <1>0 DEF ReaderDid, StreamTypes
<1>2. Len(got'["server"]) = g + 1 /\ Asks(g + 1, m) /\ m \in MessageSet
  BY DEF Handles, Says
<1>3. ServerIs(g, state["server"], streamId["server"], outSize["server"])
  BY DEF PublishInv, ServerState
<1>4. /\ m.type = "SetChunkSize" => Stays
      /\ m.type # "SetChunkSize" => ServerHandles(m, ok)
  BY <1>0, HandledOf
<1>5. hs["client"] = "COMPLETE"
  BY <1>1 DEF PublishInv, Hands
<1>6. ClientIs("COMPLETE", Len(got["client"]), state["client"], streamId["client"], outSize["client"], published)
  BY <1>5 DEF PublishInv, ClientState
<1>7. Both => n = Answered(g) /\ Asked(state["client"], published, Len(sent["server"]))
  BY DEF PublishInv, Talking
<1>8. SaysAll("client", sent["client"]) /\ FlowTo("client") /\ sent["client"] \in Seq(MessageSet)
  BY <1>0 DEF PublishInv, Spoken, Flow, StreamTypes
<1>9. n \in Nat
  BY <1>8
<1> HIDE DEF g, n
<1>10. ASSUME state'["client"] = state["client"], streamId'["client"] = streamId["client"],
              outSize'["client"] = outSize["client"], published' = published
       PROVE  ClientState'
  BY <1>1, <1>5, <1>6, <1>10, ClientNow
<1>11. CASE g + 1 = 1
  <2>1. g = 0
    BY <1>1, <1>11
  <2>2. m = SizeIs
    BY <1>2, <1>11 DEF Asks
  <2>3. Stays
    BY <1>4, <2>2 DEF SizeIs, Control
  <2>4. UNCHANGED <<state, streamId, published, outSize>>
    BY <2>3 DEF Stays
  <2>5. ServerIs(1, state["server"], streamId["server"], outSize["server"])
    BY <1>3, <2>1 DEF ServerIs
  <2>6. ServerState' /\ ClientState'
    BY <1>2, <1>10, <1>11, <2>4, <2>5, ServerNow
  <2>7. Both => n = Answered(1)
    BY <1>7, <2>1 DEF Answered
  <2> QED BY <1>0, <1>2, <1>7, <1>11, <2>3, <2>6, <2>7, StaysKeeps DEF n
<1>12. CASE g + 1 = 2
  <2>1. g = 1
    BY <1>1, <1>12
  <2>2. m = Request(Connect, 0)
    BY <1>2, <1>12 DEF Asks
  <2>3. m.type = "Invoke" /\ m.stream = 0 /\ Method(m) = "connect" /\ m.body = Connect
    BY <2>2 DEF Request, Method, Str, Connect
  <2>4. HandleConnection(Connect)
    <3>1. HandleInvoke(m, ok)
      BY <1>4, <2>3, ServerHandlesOf
    <3> QED BY <2>3, <3>1 DEF HandleInvoke
  <2>5. streamId["server"] = 0 /\ outSize["server"] = DefaultChunk /\ state["server"] = "HANDSHAKE"
    BY <1>3, <2>1 DEF ServerIs
  <2>6. Both => n = 0
    BY <1>7, <2>1 DEF Answered
  <2>7. /\ sent' \in [Ends -> Seq(MessageSet)] /\ pipe' \in [Ends -> Seq(Item)]
        /\ sent'["server"] = sent["server"] /\ pipe'["server"] = pipe["server"]
        /\ Arrives("client", sent'["client"], buf["client"] \o pipe'["client"])
        /\ Both => Len(sent'["client"]) = 4
        /\ outSize' = [outSize EXCEPT !["server"] = MaxChunk] /\ UNCHANGED <<state, streamId, published>>
    BY <1>5, <2>4, <2>5, <2>6, ConnectIsAnswered DEF n
  <2>8. outSize'["server"] = MaxChunk /\ outSize'["client"] = outSize["client"] /\ outSize' \in [Ends -> {DefaultChunk, MaxChunk}]
    BY <1>0, <2>7 DEF StreamTypes
  <2>9. ServerIs(2, "HANDSHAKE", 0, MaxChunk)
    BY DEF ServerIs
  <2>10. ServerState' /\ ClientState'
    BY <1>2, <1>10, <1>12, <2>5, <2>7, <2>8, <2>9, ServerNow
  <2>11. Answered(2) = 4
    BY DEF Answered
  <2>12. AnswersWell("server")
    BY <1>0, <1>2, <1>7, <1>12, <2>7, <2>8, <2>10, <2>11 DEF AnswersWell, ConnTypes
  <2> QED BY <1>0, <2>12, AnswerKeeps
<1>13. CASE g + 1 = 3
  <2>1. g = 2
    BY <1>1, <1>13
  <2>2. m = Request(CreateStream, 0)
    BY <1>2, <1>13 DEF Asks
  <2>3. m.type = "Invoke" /\ m.stream = 0 /\ Method(m) = "createStream" /\ m.body = CreateStream
    BY <2>2 DEF Request, Method, Str, CreateStream
  <2>4. HandleCreateStream(CreateStream)
    <3>1. HandleInvoke(m, ok)
      BY <1>4, <2>3, ServerHandlesOf
    <3> QED BY <2>3, <3>1 DEF HandleInvoke
  <2>5. streamId["server"] = 0 /\ outSize["server"] = MaxChunk /\ state["server"] = "HANDSHAKE"
    BY <1>3, <2>1 DEF ServerIs
  <2>6. Both => n = 4
    BY <1>7, <2>1 DEF Answered
  <2>7. /\ Send("server", Answer2)
        /\ streamId' = [streamId EXCEPT !["server"] = StreamId]
        /\ UNCHANGED <<state, published, outSize>>
    <3>1. Invoke("server", <<Str("_result"), Num(Number(CreateStream)), Null, Num(StreamId)>>) = Answer2
      BY <2>5, Meanings DEF Invoke, Answer2, Request
    <3> QED BY <2>4, <3>1 DEF HandleCreateStream
  <2>8. Both => Says("client", n + 1, Answer2) /\ outSize["server"] = SizeAt("client", n + 1)
    <3>1. Says("client", 5, Answer2) /\ SizeAt("client", 5) = MaxChunk /\ 4 + 1 = 5
      BY DEF Says, Answers, SizeAt
    <3> QED BY <2>5, <2>6, <3>1
  <2>9. /\ sent' \in [Ends -> Seq(MessageSet)] /\ pipe' \in [Ends -> Seq(Item)]
        /\ sent'["server"] = sent["server"] /\ pipe'["server"] = pipe["server"]
        /\ Arrives("client", sent'["client"], buf["client"] \o pipe'["client"])
        /\ Len(sent'["client"]) = n + (IF Both THEN 1 ELSE 0)
    <3>1. Answer2 \in MessageSet
      BY MessagesAreTyped
    <3> QED BY <1>0, <1>5, <1>8, <2>7, <2>8, <3>1, Sends DEF n
  <2>10. Both => Len(sent'["client"]) = 5
    <3>1. 4 + 1 = 5
      OBVIOUS
    <3> QED BY <2>6, <2>9, <3>1, Zenon
  <2>11. /\ streamId'["server"] = StreamId /\ streamId'["client"] = streamId["client"] /\ streamId' \in [Ends -> {0, StreamId}]
    BY <1>0, <2>7 DEF ConnTypes
  <2>12. ServerIs(3, "HANDSHAKE", StreamId, MaxChunk)
    BY DEF ServerIs
  <2>13. ServerState' /\ ClientState'
    BY <1>2, <1>10, <1>13, <2>5, <2>7, <2>11, <2>12, ServerNow
  <2>14. Answered(3) = 5
    BY DEF Answered
  <2>15. AnswersWell("server")
    BY <1>0, <1>2, <1>7, <1>13, <2>7, <2>9, <2>10, <2>11, <2>13, <2>14 DEF AnswersWell, ConnTypes, StreamTypes
  <2> QED BY <1>0, <2>15, AnswerKeeps
<1>14. CASE g + 1 = 4
  <2>1. g = 3
    BY <1>1, <1>14
  <2>2. m = Request(PublishStream, StreamId)
    BY <1>2, <1>14 DEF Asks
  <2>3. m.type = "Invoke" /\ m.stream = StreamId /\ StreamId # 0 /\ Method(m) = "publish"
    BY <2>2, StreamAssumption DEF Request, Method, Str, PublishStream
  <2>4. streamId["server"] = StreamId /\ outSize["server"] = MaxChunk /\ state["server"] = "HANDSHAKE"
    BY <1>3, <2>1 DEF ServerIs
  <2>5. HandlePublish(ok)
    <3>1. HandleInvoke(m, ok)
      BY <1>4, <2>3, ServerHandlesOf
    <3> QED BY <2>3, <2>4, <3>1 DEF HandleInvoke
  <2>6. Both => n = 5
    BY <1>7, <2>1 DEF Answered
  <2> DEFINE code == IF ok THEN "NetStream.Publish.Start" ELSE "NetStream.Publish.BadName"
  <2>7. /\ Send("server", Status(code)) /\ code \in Codes
        /\ state' = IF ok THEN [state EXCEPT !["server"] = "PUBLISH"] ELSE state
        /\ UNCHANGED <<streamId, published, outSize>>
    <3>1. Invoke("server", <<Str("onStatus"), Num(0), Null, Obj(code)>>) = Status(code)
      BY <2>4 DEF Invoke, Status, Request
    <3>2. Send("server", Invoke("server", <<Str("onStatus"), Num(0), Null, Obj(code)>>))
      BY <2>4, <2>5 DEF HandlePublish
    <3>3. code \in Codes
      BY DEF Codes
    <3> QED BY <2>5, <3>1, <3>2, <3>3 DEF HandlePublish
  <2> HIDE DEF code
  <2>8. Both => Says("client", n + 1, Status(code)) /\ outSize["server"] = SizeAt("client", n + 1)
    <3>1. Says("client", 6, Status(code)) /\ SizeAt("client", 6) = MaxChunk /\ 5 + 1 = 6
      BY <2>7 DEF Says, Answers, SizeAt
    <3> QED BY <2>4, <2>6, <3>1
  <2>9. /\ sent' \in [Ends -> Seq(MessageSet)] /\ pipe' \in [Ends -> Seq(Item)]
        /\ sent'["server"] = sent["server"] /\ pipe'["server"] = pipe["server"]
        /\ Arrives("client", sent'["client"], buf["client"] \o pipe'["client"])
        /\ Len(sent'["client"]) = n + (IF Both THEN 1 ELSE 0)
    <3>1. Status(code) \in MessageSet
      BY <2>7, MessagesAreTyped
    <3> QED BY <1>0, <1>5, <1>8, <2>7, <2>8, <3>1, Sends DEF n
  <2>10. Both => Len(sent'["client"]) = 6
    <3>1. 5 + 1 = 6
      OBVIOUS
    <3> QED BY <2>6, <2>9, <3>1, Zenon
  <2>11. /\ state'["server"] \in {"HANDSHAKE", "PUBLISH"} /\ state'["client"] = state["client"]
         /\ state' \in [Ends -> {"HANDSHAKE", "CONNECT", "CREATE_STREAM", "PUBLISH"}]
    BY <1>0, <2>4, <2>7 DEF ConnTypes
  <2>12. ServerIs(4, state'["server"], StreamId, MaxChunk)
    BY <2>11 DEF ServerIs
  <2>13. ServerState' /\ ClientState'
    BY <1>2, <1>10, <1>14, <2>4, <2>7, <2>11, <2>12, ServerNow
  <2>14. Answered(4) = 6
    BY DEF Answered
  <2>15. AnswersWell("server")
    BY <1>0, <1>2, <1>7, <1>14, <2>7, <2>9, <2>10, <2>11, <2>13, <2>14 DEF AnswersWell, ConnTypes, StreamTypes
  <2> QED BY <1>0, <2>15, AnswerKeeps
<1>15. CASE g + 1 > 4
  <2>1. m \in MediaMessages
    BY <1>2, <1>15 DEF Asks
  <2>2. m.type \in {"Video", "Audio"}
    BY <2>1 DEF MediaMessages, Packet
  <2>3. Stays
    <3>1. ServerHandles(m, ok)
      BY <1>4, <2>2
    <3>2. HandleMedia(ok)
      BY <2>2, <3>1 DEF ServerHandles
    <3> QED BY <3>2 DEF HandleMedia
  <2>4. UNCHANGED <<state, streamId, published, outSize>>
    BY <2>3 DEF Stays
  <2>5. ServerIs(g + 1, state["server"], streamId["server"], outSize["server"]) /\ Answered(g + 1) = 6 /\ Answered(g) = 6
    BY <1>1, <1>3, <1>15 DEF ServerIs, Answered
  <2>6. ServerState' /\ ClientState'
    BY <1>2, <1>10, <2>4, <2>5, ServerNow
  <2> QED BY <1>0, <1>2, <1>7, <2>3, <2>5, <2>6, StaysKeeps DEF n
<1>16. g + 1 = 1 \/ g + 1 = 2 \/ g + 1 = 3 \/ g + 1 = 4 \/ g + 1 > 4
  BY <1>1
<1> QED BY <1>11, <1>12, <1>13, <1>14, <1>15, <1>16

\* A turn of bHandleChunk.
LEMMA ChunkStep ==
  ASSUME PublishInv, NEW e \in Ends, HandleChunk(e)
  PROVE  PublishInv'
<1>1. /\ ReaderDid(e)
      /\ \/ got' = got /\ Stays
         \/ \E m, ok : Handles(e, m, ok)
  BY ChunkReads
<1>2. CASE got' = got /\ Stays
  BY <1>1, <1>2, NothingHandled
<1>3. CASE \E m, ok : Handles(e, m, ok)
  <2>1. PICK m, ok : Handles(e, m, ok)
    BY <1>3
  <2>2. CASE e = "client"
    BY <1>1, <2>1, <2>2, ClientTakes
  <2>3. CASE e = "server"
    BY <1>1, <2>1, <2>3, ServerTakes
  <2> QED BY <2>2, <2>3 DEF Ends
<1> QED BY <1>1, <1>2, <1>3

-----------------------------------------------------------------------------
(* The theorems *)

LEMMA PublishInit == Init => PublishInv
<1> SUFFICES ASSUME Init PROVE PublishInv
  OBVIOUS
<1>0. "client" \in Ends /\ "server" \in Ends /\ Ends = {"client", "server"} /\ "client" # "server"
  BY DEF Ends
<1>1. /\ pipe = [e \in Ends |-> <<>>] /\ buf = pipe /\ sent = pipe /\ got = pipe
      /\ parser = [e \in Ends |-> [state |-> "HEADER", csid |-> -1, in |-> DefaultChunk,
                                   msgs |-> [c \in Csids |-> [len |-> 0, type |-> "none", stream |-> 0, data |-> <<>>]]]]
      /\ outSize = [e \in Ends |-> DefaultChunk]
  BY DEF Init, StreamInit
<1>2. /\ hs = [e \in Ends |-> IF e = "client" THEN "S0S1S2" ELSE "C0C1"]
      /\ open = [e \in Ends |-> FALSE] /\ reading = open
      /\ state = [e \in Ends |-> "HANDSHAKE"] /\ streamId = [e \in Ends |-> 0] /\ published = FALSE
      /\ manager = "new" /\ exit = FALSE /\ connected = FALSE /\ pusher = "none" /\ hasKey = FALSE
      /\ thread = [t \in Threads |-> "off"] /\ frames = 0
  BY DEF Init
<1>3. \A e \in Ends : PIdle(parser[e]) /\ parser[e].in = DefaultChunk /\ parser[e] \in ParserType
  <2> DEFINE slot == [len |-> 0, type |-> "none", stream |-> 0, data |-> <<>>]
             slots == [c \in Csids |-> slot]
             p == [state |-> "HEADER", csid |-> -1, in |-> DefaultChunk, msgs |-> slots]
  <2>1. slot \in Slots /\ slot.data = <<>>
    <3>1. <<>> \in Seq(Item)
      OBVIOUS
    <3> QED BY <3>1 DEF Slots
  <2>2. \A e \in Ends : parser[e] = p
    BY <1>1
  <2> HIDE DEF slot
  <2>3. slots \in [Csids -> Slots] /\ \A c \in Csids : slots[c] = slot
    BY <2>1
  <2> HIDE DEF slots
  <2>4. p \in ParserType /\ p.state = "HEADER" /\ p.csid = -1 /\ p.in = DefaultChunk /\ p.msgs = slots
    BY <2>3 DEF ParserType
  <2>5. PIdle(p)
    BY <2>1, <2>3, <2>4 DEF PIdle
  <2> QED BY <2>2, <2>4, <2>5
<1>4. \A e \in Ends : pipe[e] = <<>> /\ buf[e] = <<>> /\ sent[e] = <<>> /\ got[e] = <<>> /\ Items(e) = <<>>
  <2>1. <<>> \o <<>> = <<>>
    OBVIOUS
  <2> QED BY <1>1, <2>1 DEF Items
<1>5. StreamTypes
  <2>1. <<>> \in Seq(Item) /\ <<>> \in Seq(MessageSet)
    OBVIOUS
  <2>2. parser \in [Ends -> ParserType]
    BY <1>1, <1>3
  <2> QED BY <1>1, <2>1, <2>2 DEF StreamTypes
<1>6. ConnTypes
  BY <1>2 DEF ConnTypes
<1>7. PushTypes
  <2>1. frames \in 0..MaxFrames
    BY <1>2, FramesAssumption
  <2>2. thread \in [Threads -> {"off", "top", "frame", "push", "aac", "body", "done"}]
    BY <1>2
  <2> QED BY <1>2, <2>1, <2>2 DEF PushTypes
<1>8. Hands /\ Reading /\ Unopened /\ Pushing
  BY <1>0, <1>2, <1>4 DEF Hands, Reading, Unopened, Pushing
<1>9. Len(<<>>) = 0
  OBVIOUS
<1>10. Spoken
  <2> SUFFICES ASSUME NEW e \in Ends PROVE SaysAll(e, sent[e])
    BY DEF Spoken
  <2> DEFINE none == sent[e]
  <2>1. Len(none) = 0
    BY <1>4, <1>9
  <2> HIDE DEF none
  <2>2. 1..Len(none) = {}
    BY <2>1
  <2>3. SaysAll(e, none)
    BY <2>2 DEF SaysAll
  <2> QED BY <2>3 DEF none
<1>11. ClientState
  <2>1. ClientIs("S0S1S2", 0, "HANDSHAKE", 0, DefaultChunk, FALSE)
    BY DEF ClientIs
  <2>2. hs["client"] = "S0S1S2" /\ Len(got["client"]) = 0 /\ state["client"] = "HANDSHAKE" /\ streamId["client"] = 0
        /\ outSize["client"] = DefaultChunk
    BY <1>0, <1>1, <1>2, <1>4, <1>9
  <2> QED BY <1>2, <2>1, <2>2 DEF ClientState
<1>12. ServerState
  <2>1. ServerIs(0, "HANDSHAKE", 0, DefaultChunk)
    BY DEF ServerIs
  <2>2. Len(got["server"]) = 0 /\ state["server"] = "HANDSHAKE" /\ streamId["server"] = 0 /\ outSize["server"] = DefaultChunk
    BY <1>0, <1>1, <1>2, <1>4, <1>9
  <2> QED BY <2>1, <2>2 DEF ServerState
<1>13. Talking
  BY <1>0, <1>2 DEF Talking, Both
<1>14. Flow
  BY <1>0, <1>2, <1>3, <1>4 DEF Flow, FlowTo, FlowOf, Waits
<1> QED BY <1>5, <1>6, <1>7, <1>8, <1>10, <1>11, <1>12, <1>13, <1>14 DEF PublishInv

LEMMA PublishStep == PublishInv /\ [Next]_vars => PublishInv'
<1> SUFFICES ASSUME PublishInv, [Next]_vars PROVE PublishInv'
  OBVIOUS
<1>0. "video" \in Threads /\ "audio" \in Threads
  BY DEF Threads
<1>1. CASE UNCHANGED vars
  <2>1. /\ UNCHANGED <<streamVars, hs, open, reading, state, streamId, published>>
        /\ UNCHANGED <<manager, exit, connected, pusher, hasKey, thread, frames>>
    BY <1>1 DEF vars, connVars, pushVars
  <2>2. PushTypes' /\ Pushing' /\ open' \in [Ends -> BOOLEAN]
    BY <2>1 DEF PublishInv, PushTypes, Pushing, ConnTypes
  <2> QED BY <2>1, <2>2, QuietStep
<1>2. ASSUME NEW e \in Ends, Reactor(e) \/ HangUp(e) PROVE PublishInv'
  <2>1. CASE HandleRead(e)
    BY <2>1, ReadStep
  <2>2. CASE Handshake(e)
    BY <2>2, HandshakeStep
  <2>3. CASE HandleChunk(e)
    BY <2>3, ChunkStep
  <2>4. CASE HangUp(e)
    BY <2>4, QuietHangUp
  <2> QED BY <1>2, <2>1, <2>2, <2>3, <2>4 DEF Reactor
<1>3. CASE PrepareCapture \/ StartThreads \/ CloseStart \/ Closing
  BY <1>3, QuietManager DEF Closing
<1>4. CASE OpenUrl
  <2>1. CASE manager' = "closed"
    BY <1>4, <2>1, QuietManager
  <2>2. CASE manager' # "closed"
    BY <1>4, <2>2, OpenStep
  <2> QED BY <2>1, <2>2
<1>5. CASE VideoThread
  <2>1. CASE Thread("video")
    BY <1>0, <2>1, QuietThreads DEF Thread
  <2>2. CASE PushVideoFrame \/ AacHeader \/ KeyFrame
    BY <2>2, EncoderStep
  <2> QED BY <1>5, <2>1, <2>2 DEF VideoThread
<1>6. CASE AudioThread
  <2>1. CASE Thread("audio")
    BY <1>0, <2>1, QuietThreads DEF Thread
  <2>2. CASE PushAudioFrame
    BY <2>2, EncoderStep
  <2> QED BY <1>6, <2>1, <2>2 DEF AudioThread
<1> QED BY <1>1, <1>2, <1>3, <1>4, <1>5, <1>6 DEF Next

\* The inductive invariant: how far the handshake is, what has been said in which order, how far the dialogue
\* has brought either end, and that what is under way to an end is what is left of the messages sent to it.
THEOREM PublishInvariant == Spec => []PublishInv
<1>1. Spec => Init /\ [][Next]_vars
  BY PTL DEF Spec
<1> QED BY <1>1, PublishInit, PublishStep, PTL

\* Every variable has its type: neither parser leaves its states, no chunk size but the two there are is set on
\* either side, and no stream id but the server's is ever taken over (CRtmpChunk, CRtmpConnection, CRtmpPushManager).
THEOREM TypeCorrect == Spec => []TypeOK
<1>1. PublishInv => TypeOK
  BY DEF PublishInv, StreamTypes, ConnTypes, PushTypes, TypeOK, ParserType
<1> QED BY <1>1, PublishInvariant, PTL

LEMMA PrefixIs ==
  ASSUME NEW gs \in Seq(MessageSet), NEW ms \in Seq(MessageSet), Matches(gs, ms)
  PROVE  IsPrefix(gs, ms)
<1> DEFINE x == SubSeq(gs, 1, Len(gs))
           y == SubSeq(ms, 1, Len(gs))
<1>1. Len(gs) \in Nat /\ Len(ms) \in Nat /\ Len(gs) <= Len(ms)
  BY DEF Matches
<1>2. x \in Seq(MessageSet) /\ Len(x) = Len(gs) /\ \A k \in 1..Len(gs) : x[k] = gs[k]
  BY <1>1
<1>3. y \in Seq(MessageSet) /\ Len(y) = Len(gs) /\ \A k \in 1..Len(gs) : y[k] = ms[k]
  BY <1>1
<1> HIDE DEF x, y
<1>4. \A k \in 1..Len(gs) : x[k] = y[k]
  BY <1>2, <1>3 DEF Matches
<1>5. x = y
  BY <1>2, <1>3, <1>4, SeqEqual, Zenon
<1> QED BY <1>1, <1>5 DEF IsPrefix, x, y

\* What CRtmpChunk puts together at either end is what the other end sent, whole and in order, wherever the reads
\* cut the stream and for every chunk size (nParse, SetInChunkSize, SendRtmpChunks).
THEOREM StreamsAreWhole == Spec => []InOrderAndWhole
<1>1. PublishInv => InOrderAndWhole
  <2> SUFFICES ASSUME PublishInv, NEW e \in Ends PROVE IsPrefix(got[e], sent[e])
    BY DEF InOrderAndWhole
  <2>1. got[e] \in Seq(MessageSet) /\ sent[e] \in Seq(MessageSet)
    BY DEF PublishInv, StreamTypes
  <2>2. FlowTo(e)
    BY DEF PublishInv, Flow
  <2>3. Matches(got[e], sent[e])
    <3>1. CASE hs[e] = "COMPLETE"
      BY <2>2, <3>1 DEF FlowTo, FlowOf, ReadsOn
    <3>2. CASE hs[e] # "COMPLETE"
      <4>1. got[e] = <<>>
        BY <2>2, <3>2 DEF FlowTo, FlowOf, Waits
      <4>2. Len(got[e]) = 0 /\ Len(sent[e]) \in Nat
        BY <2>1, <4>1
      <4> QED BY <4>2 DEF Matches
    <3> QED BY <3>1, <3>2
  <2> QED BY <2>1, <2>3, PrefixIs
<1> QED BY <1>1, PublishInvariant, PTL
=============================================================================
