-------------------------- MODULE Signaling_proofs --------------------------
(***************************************************************************)
(* Proofs about the signalling server, alone and with its clients.         *)
(*                                                                         *)
(* The server alone: for any number of reactors, whom the manager finds,   *)
(* that partners are distinct and that the manager implements the          *)
(* directory; for one reactor, that a client that is busy has a partner;   *)
(* and, for one reactor and orderly clients, that leaving is final and     *)
(* reaches every partner.                                                  *)
(*                                                                         *)
(* With its clients (RemoteControl, which extends Signaling; of its        *)
(* variables the first parts say nothing): the server takes a client for a *)
(* pusher or a puller only when the client takes itself for one.  What     *)
(* fixes a client's state travels: the one JOIN of a client is in one      *)
(* place at a time, on its way to the server, in the server's handler or   *)
(* on its way back, and as long as it is the client has not decided what   *)
(* it is; a request for a stream is a puller's, and an address a pusher's, *)
(* wherever it is.                                                         *)
(***************************************************************************)
EXTENDS RemoteControl, SequenceTheorems, FiniteSetTheorems, TLAPS

(* Facts about m_vecObjectes *)

\* Without takes one element out and keeps the order of the others.
LEMMA WithoutCuts ==
  ASSUME NEW S, NEW s \in Seq(S), NEW k \in Range(s)
  PROVE  \E j \in 1..Len(s) :
           /\ s[j] = k
           /\ Without(s, k) \in Seq(S)
           /\ Len(Without(s, k)) = Len(s) - 1
           /\ \A y \in 1..(Len(s) - 1) : Without(s, k)[y] = s[IF y < j THEN y ELSE y + 1]
<1>1. PICK i \in DOMAIN s : s[i] = k
  BY DEF Range
<1> DEFINE j == CHOOSE x \in DOMAIN s : s[x] = k
<1>2. j \in 1..Len(s)
  BY <1>1
<1>a. s[j] = k
  BY <1>1
<1> HIDE DEF j
<1>3. /\ SubSeq(s, 1, j - 1) \in Seq(S)
      /\ SubSeq(s, j + 1, Len(s)) \in Seq(S)
  BY <1>2
<1> DEFINE p == SubSeq(s, 1, j - 1)
           q == SubSeq(s, j + 1, Len(s))
<1>4. Without(s, k) = p \o q
  BY DEF Without, RemoveAt, j
<1>5. Len(s) \in Nat /\ DOMAIN s = 1..Len(s)
  OBVIOUS
<1>6. /\ Len(p) = j - 1
      /\ \A x \in 1..(j - 1) : p[x] = s[x]
      /\ Len(q) = Len(s) - j
      /\ \A x \in 1..(Len(s) - j) : q[x] = s[x + j]
  <2>1. /\ \A x \in 1..(j - 1) : s[x] \in S
        /\ \A x \in (j + 1)..Len(s) : s[x] \in S
        /\ j \in Int /\ j - 1 \in Int /\ j + 1 \in Int /\ 1 \in Int /\ Len(s) \in Int
    BY <1>2, <1>5
  <2>2. /\ Len(p) = IF 1 <= j - 1 THEN (j - 1) - 1 + 1 ELSE 0
        /\ \A x \in 1..((j - 1) - 1 + 1) : p[x] = s[1 + x - 1]
    BY <2>1, SubSeqProperties
  <2>3. /\ Len(q) = IF j + 1 <= Len(s) THEN Len(s) - (j + 1) + 1 ELSE 0
        /\ \A x \in 1..(Len(s) - (j + 1) + 1) : q[x] = s[j + 1 + x - 1]
    BY <2>1, SubSeqProperties
  <2>4. \A x \in 1..(j - 1) : p[x] = s[x]
    BY <2>2, <1>2, <1>5
  <2>5. \A x \in 1..(Len(s) - j) : q[x] = s[x + j]
    <3> SUFFICES ASSUME NEW x \in 1..(Len(s) - j) PROVE q[x] = s[x + j]
      OBVIOUS
    <3>1. x \in 1..(Len(s) - (j + 1) + 1) /\ j + 1 + x - 1 = x + j
      BY <1>2, <1>5
    <3> QED BY <3>1, <2>3
  <2>6. Len(p) = j - 1 /\ Len(q) = Len(s) - j
    <3>1. \A n \in Nat : \A c \in 1..n : /\ (IF 1 <= c - 1 THEN (c - 1) - 1 + 1 ELSE 0) = c - 1
                                      /\ (IF c + 1 <= n THEN n - (c + 1) + 1 ELSE 0) = n - c
      OBVIOUS
    <3> QED BY <1>2, <1>5, <2>2, <2>3, <3>1, Zenon
  <2> HIDE DEF p, q
  <2> QED BY <2>4, <2>5, <2>6
<1> HIDE DEF p, q
<1>7. /\ p \o q \in Seq(S)
      /\ Len(p \o q) = Len(p) + Len(q)
      /\ \A y \in 1..(Len(p) + Len(q)) : (p \o q)[y] = IF y <= Len(p) THEN p[y] ELSE q[y - Len(p)]
  BY <1>3 DEF p, q
<1>8. ASSUME NEW y \in 1..(Len(s) - 1) PROVE (p \o q)[y] = s[IF y < j THEN y ELSE y + 1]
  <2>1. CASE y < j
    BY <1>2, <1>5, <1>6, <1>7, <2>1
  <2>2. CASE ~(y < j)
    <3>1. y - Len(p) \in 1..(Len(s) - j) /\ y - Len(p) + j = y + 1 /\ ~(y <= Len(p))
      BY <1>2, <1>5, <1>6, <2>2
    <3>2. (p \o q)[y] = q[y - Len(p)] /\ q[y - Len(p)] = s[y - Len(p) + j]
      BY <1>2, <1>5, <1>6, <1>7, <3>1
    <3> QED BY <2>2, <3>1, <3>2
  <2> QED BY <2>1, <2>2
<1>9. Len(p \o q) = Len(s) - 1
  BY <1>2, <1>5, <1>6, <1>7
<1> QED BY <1>2, <1>a, <1>4, <1>7, <1>8, <1>9

LEMMA WithoutFacts ==
  ASSUME NEW S, NEW s \in Seq(S), NEW k
  PROVE  /\ Without(s, k) \in Seq(S)
         /\ Range(Without(s, k)) \subseteq Range(s)
<1>1. CASE k \notin Range(s)
  BY <1>1 DEF Without
<1>2. CASE k \in Range(s)
  <2>1. PICK j \in 1..Len(s) :
          /\ Without(s, k) \in Seq(S)
          /\ Len(Without(s, k)) = Len(s) - 1
          /\ \A y \in 1..(Len(s) - 1) : Without(s, k)[y] = s[IF y < j THEN y ELSE y + 1]
    BY <1>2, WithoutCuts
  <2>2. ASSUME NEW y \in DOMAIN Without(s, k) PROVE Without(s, k)[y] \in Range(s)
    <3>1. y \in 1..(Len(s) - 1)
      BY <2>1
    <3>2. (IF y < j THEN y ELSE y + 1) \in DOMAIN s
      BY <3>1
    <3> QED BY <2>1, <3>1, <3>2 DEF Range
  <2> QED BY <2>1, <2>2 DEF Range
<1> QED BY <1>1, <1>2

\* No element of the sequence is there twice.
Distinct(s) == \A i, j \in DOMAIN s : s[i] = s[j] => i = j

\* What AddClient and RemoveClient keep: with no code twice, one erase takes a code out for good.
LEMMA WithoutDistinct ==
  ASSUME NEW S, NEW s \in Seq(S), NEW k, Distinct(s)
  PROVE  Distinct(Without(s, k)) /\ k \notin Range(Without(s, k))
<1>1. CASE k \notin Range(s)
  BY <1>1 DEF Without
<1>2. CASE k \in Range(s)
  <2> DEFINE w == Without(s, k)
  <2>1. PICK j \in 1..Len(s) :
          /\ s[j] = k
          /\ w \in Seq(S)
          /\ Len(w) = Len(s) - 1
          /\ \A y \in 1..(Len(s) - 1) : w[y] = s[IF y < j THEN y ELSE y + 1]
    BY <1>2, WithoutCuts
  <2> HIDE DEF w
  <2> DEFINE at(y) == IF y < j THEN y ELSE y + 1
  <2>2. \A y \in DOMAIN w : y \in Nat /\ at(y) \in DOMAIN s /\ at(y) # j /\ w[y] = s[at(y)]
    BY <2>1
  <2>3. \A y, z \in DOMAIN w : at(y) = at(z) => y = z
    BY <2>2
  <2> HIDE DEF at
  <2>4. Distinct(w)
    BY <2>2, <2>3 DEF Distinct
  <2>5. \A y \in DOMAIN w : w[y] # k
    BY <2>1, <2>2 DEF Distinct
  <2> QED BY <2>4, <2>5 DEF w, Range
<1> QED BY <1>1, <1>2

LEMMA AddDistinct ==
  ASSUME NEW S, NEW s \in Seq(S), NEW k \in S, Distinct(s)
  PROVE  /\ Distinct(AddClient(s, k))
         /\ Range(AddClient(s, k)) = Range(s) \cup {k}
<1>1. CASE k \in Range(s)
  BY <1>1 DEF AddClient
<1>2. CASE k \notin Range(s)
  <2>1. /\ AddClient(s, k) = Append(s, k)
        /\ Len(Append(s, k)) = Len(s) + 1
        /\ DOMAIN Append(s, k) = 1..(Len(s) + 1) /\ DOMAIN s = 1..Len(s) /\ Len(s) \in Nat
        /\ \A y \in 1..Len(s) : Append(s, k)[y] = s[y]
        /\ Append(s, k)[Len(s) + 1] = k
    BY <1>2 DEF AddClient
  <2> DEFINE t == Append(s, k)
  <2> HIDE DEF t
  <2>2. \A y \in DOMAIN t : (y \in DOMAIN s /\ t[y] = s[y]) \/ (y = Len(s) + 1 /\ t[y] = k)
    BY <2>1 DEF t
  <2>3. Distinct(t)
    BY <1>2, <2>2 DEF Distinct, Range
  <2>4. Range(t) = Range(s) \cup {k}
    BY <2>1, <2>2 DEF Range, t
  <2> QED BY <2>1, <2>3, <2>4 DEF t
<1> QED BY <1>1, <1>2

LEMMA AddClientFacts ==
  ASSUME NEW s \in Seq(Ids), NEW k \in Ids
  PROVE  AddClient(s, k) \in Seq(Ids) /\ AddClient(s, k) # <<>>
BY DEF AddClient, Range

-----------------------------------------------------------------------------
(* The invariant of Spec, for any number of reactors *)

\* What a handler may rely on while its frame is open: it runs on the reactor of its connection,
\* whose life and role no other thread changes in a way that matters to it.
FramesInv ==
  \A r \in Reactors : frame[r].op # "idle" =>
    LET f == frame[r]
    IN  /\ f.conn \in Conns /\ ReactorOf[f.conn] = r
        /\ f.op # "close" => life[f.conn] = "open"
        /\ f.op = "close" => life[f.conn] = "closing"
        /\ f.op = "join" => role[f.conn] = "NONE"
        /\ f.op \in {"control", "watch"} => f.peer \in Conns
        /\ f.op \in {"clear", "close"} => role[f.conn] \in {"CLOSE", "IDLE"}

GInv == TypeOK /\ FramesInv /\ RegisteredAreOpen /\ (OneReactor => BusyHavePartners)

LEMMA SettleFacts ==
  ASSUME NEW lives \in [Conns -> Lives], NEW targets, NEW frames,
         NEW entries \in [Codes -> Conns \cup {NoConn}],
         Settle(lives, targets, frames, entries)
  PROVE  /\ life' \in [Conns -> Lives]
         /\ \A o \in Conns : life'[o] = lives[o] \/ (lives[o] = "closed" /\ life'[o] = "gone")
         /\ registry' \in [Codes -> Conns \cup {NoConn}]
         /\ \A k \in Codes : registry'[k] = entries[k] \/ registry'[k] = NoConn
         /\ target' = targets
         /\ frame' = frames
BY DEF Settle, Lives

LEMMA IdleFrame == Idle \in Frame /\ Idle.op = "idle"
BY DEF Idle, Frame, Ids

LEMMA LoopType ==
  ASSUME TypeOK, NEW c \in Conns, NEW op \in {"create", "clear", "close"}
  PROVE  Loop(op, c) \in Frame /\ Loop(op, c).op = op /\ Loop(op, c).conn = c
<1>1. Len(objs[c]) \in Nat
  BY DEF TypeOK
<1> QED BY <1>1 DEF Loop, Frame, Ids

LEMMA RequestType ==
  ASSUME NEW c \in Conns, NEW op \in {"join", "control", "watch"}, NEW k \in Ids,
         NEW o \in Conns \cup {NoConn}
  PROVE  /\ Request(op, c, k, o) \in Frame
         /\ Request(op, c, k, o).op = op
         /\ Request(op, c, k, o).conn = c
         /\ Request(op, c, k, o).peer = o
BY DEF Request, Frame

LEMMA SendType ==
  ASSUME NEW ms \in SUBSET Message, Send(ms)
  PROVE  outbox' \subseteq Message
BY DEF Send

LEMMA MsgType ==
  ASSUME NEW c \in Conns, NEW cmd \in {"JOIN", "OBTAINSTREAM", "CREATESTREAM", "PLAYSTREAM", "DELETESTREAM", "KEY"},
         NEW ok \in BOOLEAN, NEW n \in Nat
  PROVE  Msg(c, cmd, ok, n) \in Message
BY DEF Msg, Message

LEMMA ReplyType ==
  ASSUME NEW c \in Conns, NEW cmd \in {"JOIN", "OBTAINSTREAM"}, NEW ok \in BOOLEAN, Reply(c, cmd, ok)
  PROVE  outbox' \subseteq Message
<1>1. {Msg(c, cmd, ok, 0)} \in SUBSET Message
  BY MsgType
<1> QED BY <1>1, SendType DEF Reply

LEMMA QueryType ==
  ASSUME TypeOK, NEW k
  PROVE  /\ QueryConn(k) \in Conns \cup {NoConn}
         /\ QueryConn(k) # NoConn => k \in Codes /\ registry[k] = QueryConn(k)
BY DEF TypeOK, QueryConn

LEMMA SlotType ==
  ASSUME TypeOK, NEW c \in Conns, NEW i, NEW k \in Slot(objs[c], i)
  PROVE  /\ k \in Ids
         /\ OneReactor /\ k # NoCode => objs[c] # <<>>
BY DEF TypeOK, Slot, Ids

LEMMA RemoveClientFacts ==
  ASSUME TypeOK, NEW o \in Conns, NEW k, RemoveClient(o, k)
  PROVE  /\ objs' \in [Conns -> Seq(Ids)]
         /\ role' \in [Conns -> Roles]
         /\ \A c \in Conns \ {o} : objs'[c] = objs[c] /\ role'[c] = role[c]
         /\ Range(objs'[o]) \subseteq Range(objs[o])
         /\ role'[o] = role[o] \/ role'[o] = "IDLE"
         /\ role'[o] # "IDLE" /\ objs[o] # <<>> => objs'[o] # <<>>
<1>1. objs[o] \in Seq(Ids)
  BY DEF TypeOK
<1>2. Without(objs[o], k) \in Seq(Ids) /\ Range(Without(objs[o], k)) \subseteq Range(objs[o])
  BY <1>1, WithoutFacts
<1>3. objs' = [objs EXCEPT ![o] = Without(objs[o], k)]
  BY DEF RemoveClient
<1>4. role' = [role EXCEPT ![o] = IF objs[o] # <<>> /\ Without(objs[o], k) = <<>> THEN "IDLE" ELSE role[o]]
  BY DEF RemoveClient
<1> QED BY <1>2, <1>3, <1>4 DEF TypeOK, Roles

LEMMA InitGInv == Init => GInv
BY IdleFrame DEF Init, GInv, TypeOK, FramesInv, RegisteredAreOpen, BusyHavePartners, Lives, Roles, Ids

\* RegisteredAreOpen for one entry of the manager.
RegisteredOpen(o, k) ==
  /\ life[o] \in {"open", "closing"}
  /\ code[o] = k
  /\ role[o] # "NONE"
  /\ (role[o] = "CLOSE" \/ life[o] = "closing") => Clearing(o)

LEMMA RegisteredPrime ==
  ASSUME registry' \in [Codes -> Conns \cup {NoConn}],
         \A k \in Codes, o \in Conns : registry'[k] = o => RegisteredOpen(o, k)'
  PROVE  RegisteredAreOpen'
BY DEF RegisteredAreOpen, RegisteredOpen, Clearing

LEMMA AcceptGInv == ASSUME GInv, NEW c \in Conns, Accept(c) PROVE GInv'
<1>1. life' = [life EXCEPT ![c] = "open"] /\ life[c] = "new"
  BY DEF Accept
<1>2. TypeOK'
  BY <1>1 DEF Accept, GInv, TypeOK, Lives
<1>3. FramesInv'
  BY <1>1 DEF Accept, GInv, TypeOK, FramesInv
<1>4. RegisteredAreOpen'
  BY <1>1 DEF Accept, GInv, TypeOK, RegisteredAreOpen, Clearing
<1>5. (OneReactor => BusyHavePartners)'
  BY DEF Accept, GInv, BusyHavePartners
<1> QED BY <1>2, <1>3, <1>4, <1>5 DEF GInv

LEMMA StartClearGInv ==
  ASSUME GInv, NEW c \in Conns, Ready(c),
         \/ StartClear(c, "close", [life EXCEPT ![c] = "closing"])
         \/ StartClear(c, "clear", life)
  PROVE  GInv'
<1> DEFINE r == ReactorOf[c]
<1>0. PICK op \in {"clear", "close"}, lives \in [Conns -> Lives] :
        /\ StartClear(c, op, lives)
        /\ lives = IF op = "close" THEN [life EXCEPT ![c] = "closing"] ELSE life
  BY DEF GInv, TypeOK, Lives
<1> DEFINE f == Loop(op, c)
<1>1. r \in Reactors /\ frame[r].op = "idle" /\ life[c] = "open"
  BY ReactorAssumption DEF Ready
<1>2. f \in Frame /\ f.op = op /\ f.conn = c
  BY LoopType DEF GInv
<1> HIDE DEF f
<1>3. /\ role' = [role EXCEPT ![c] = "CLOSE"]
      /\ Settle(lives, [target EXCEPT ![c] = NoConn], [frame EXCEPT ![r] = f], registry)
      /\ outbox' = {} /\ code' = code /\ addr' = addr /\ objs' = objs
  BY <1>0 DEF StartClear, f
<1>4. /\ life' \in [Conns -> Lives]
      /\ \A o \in Conns : life'[o] = lives[o] \/ (lives[o] = "closed" /\ life'[o] = "gone")
      /\ registry' \in [Codes -> Conns \cup {NoConn}]
      /\ \A k \in Codes : registry'[k] = registry[k] \/ registry'[k] = NoConn
      /\ target' = [target EXCEPT ![c] = NoConn]
      /\ frame' = [frame EXCEPT ![r] = f]
  BY <1>3, SettleFacts DEF GInv, TypeOK
<1>5. TypeOK'
  BY <1>2, <1>3, <1>4 DEF GInv, TypeOK, Roles
<1>6. FramesInv'
  BY <1>0, <1>1, <1>2, <1>3, <1>4 DEF GInv, TypeOK, FramesInv, Lives
<1>7. RegisteredAreOpen'
  <2> SUFFICES ASSUME NEW k \in Codes, NEW o \in Conns, registry'[k] = o
               PROVE  RegisteredOpen(o, k)'
    BY <1>4, RegisteredPrime
  <2>1. registry[k] = o
    BY <1>4, ConnsAssumption DEF GInv, TypeOK
  <2>2. /\ life[o] \in {"open", "closing"} /\ code[o] = k /\ role[o] # "NONE"
        /\ (role[o] = "CLOSE" \/ life[o] = "closing") => Clearing(o)
    BY <2>1, ConnsAssumption DEF GInv, RegisteredAreOpen
  <2>3. life'[o] = lives[o] /\ lives[o] \in {"open", "closing"} /\ (o # c => lives[o] = life[o])
    BY <1>0, <1>4, <2>1, <2>2 DEF GInv, TypeOK
  <2>4. code'[o] = k /\ role'[o] # "NONE" /\ (o # c => role'[o] = role[o])
    BY <1>3, <2>1, <2>2 DEF GInv, TypeOK
  <2>5. Clearing(c)'
    BY <1>0, <1>1, <1>2, <1>4 DEF Clearing, GInv, TypeOK
  <2>6. Clearing(o) => Clearing(o)'
    BY <1>1, <1>4 DEF Clearing, GInv, TypeOK
  <2> QED BY <2>1, <2>2, <2>3, <2>4, <2>5, <2>6 DEF RegisteredOpen
<1>8. (OneReactor => BusyHavePartners)'
  BY <1>3 DEF GInv, TypeOK, BusyHavePartners
<1> QED BY <1>5, <1>6, <1>7, <1>8 DEF GInv

\* A step that only answers, and one that only opens a frame.
LEMMA ReplyGInv ==
  ASSUME GInv, UNCHANGED <<life, role, code, addr, target, objs, registry, frame>>, outbox' \subseteq Message
  PROVE  GInv'
BY DEF GInv, TypeOK, FramesInv, RegisteredAreOpen, Clearing, BusyHavePartners

LEMMA OpenFrameGInv ==
  ASSUME GInv, NEW c \in Conns, Ready(c),
         NEW f \in Frame, f.conn = c, f.op \in {"join", "control", "watch", "create"},
         f.op = "join" => role[c] = "NONE",
         f.op \in {"control", "watch"} => f.peer \in Conns,
         frame' = [frame EXCEPT ![ReactorOf[c]] = f],
         UNCHANGED <<life, role, code, target, objs, registry>>,
         addr' \in [Conns -> BOOLEAN],
         outbox' = {}
  PROVE  GInv'
<1> DEFINE r == ReactorOf[c]
<1>1. r \in Reactors /\ frame[r].op = "idle" /\ life[c] = "open"
  BY ReactorAssumption DEF Ready
<1>2. frame' \in [Reactors -> Frame]
  BY DEF GInv, TypeOK
<1>3. TypeOK'
  BY <1>2 DEF GInv, TypeOK
<1>4. \A x \in Reactors : frame'[x] = IF x = r THEN f ELSE frame[x]
  BY DEF GInv, TypeOK
<1>5. FramesInv'
  BY <1>1, <1>4 DEF GInv, FramesInv
<1>6. ASSUME NEW o PROVE Clearing(o) => Clearing(o)'
  BY <1>1, <1>4 DEF Clearing
<1>7. RegisteredAreOpen'
  BY <1>6 DEF GInv, RegisteredAreOpen
<1>8. (OneReactor => BusyHavePartners)'
  BY DEF GInv, BusyHavePartners
<1> QED BY <1>3, <1>5, <1>7, <1>8 DEF GInv

LEMMA JoinCheckGInv == ASSUME GInv, NEW c \in Conns, NEW k \in Ids, JoinCheck(c, k) PROVE GInv'
<1>1. k \in Ids /\ Ready(c) /\ UNCHANGED <<life, role, code, addr, target, objs, registry>>
  BY DEF JoinCheck
<1>2. CASE Reply(c, "JOIN", FALSE) /\ frame' = frame
  BY <1>1, <1>2, ReplyType, ReplyGInv
<1>3. CASE /\ MayJoin(c, k)
           /\ frame' = [frame EXCEPT ![ReactorOf[c]] = Request("join", c, k, NoConn)]
           /\ outbox' = {}
  <2> DEFINE f == Request("join", c, k, NoConn)
  <2>1. f \in Frame /\ f.op = "join" /\ f.conn = c
    BY <1>1, RequestType
  <2>2. role[c] = "NONE" /\ addr' \in [Conns -> BOOLEAN]
    BY <1>1, <1>3 DEF MayJoin, GInv, TypeOK
  <2> QED BY <1>1, <1>3, <2>1, <2>2, OpenFrameGInv
<1> QED BY <1>2, <1>3 DEF JoinCheck

LEMMA ObtainCheckGInv == ASSUME GInv, NEW c \in Conns, NEW k \in Ids, ObtainCheck(c, k) PROVE GInv'
<1> DEFINE o == QueryConn(k)
           branch == ObtainBranch(c, o)
<1>1. k \in Ids /\ Ready(c) /\ UNCHANGED <<life, role, code, addr, target, objs, registry>>
  BY DEF ObtainCheck
<1>2. CASE Reply(c, "OBTAINSTREAM", FALSE) /\ frame' = frame
  BY <1>1, <1>2, ReplyType, ReplyGInv
<1>3. CASE /\ branch # "error"
           /\ frame' = [frame EXCEPT ![ReactorOf[c]] = Request(branch, c, k, o)]
           /\ outbox' = {}
  <2> DEFINE f == Request(branch, c, k, o)
  <2>1. branch \in {"control", "watch"} /\ o \in Conns
    BY <1>3, QueryType DEF ObtainBranch, GInv
  <2>2. f \in Frame /\ f.op = branch /\ f.conn = c /\ f.peer = o
    BY <1>1, <2>1, RequestType
  <2>3. addr' \in [Conns -> BOOLEAN]
    BY <1>1 DEF GInv, TypeOK
  <2> HIDE DEF branch, o
  <2> QED BY <1>1, <1>3, <2>1, <2>2, <2>3, OpenFrameGInv
<1> QED BY <1>2, <1>3 DEF ObtainCheck

LEMMA CreateStreamGInv ==
  ASSUME GInv, NEW c \in Conns, NEW hasAddr \in BOOLEAN, CreateStream(c, hasAddr)
  PROVE  GInv'
<1> DEFINE f == Loop("create", c)
<1>1. /\ Ready(c)
      /\ UNCHANGED <<life, role, code, target, objs, registry>>
      /\ addr' \in [Conns -> BOOLEAN]
      /\ outbox' = {}
  BY DEF CreateStream, GInv, TypeOK
<1>2. CASE frame' = frame
  BY <1>1, <1>2 DEF GInv, TypeOK, FramesInv, RegisteredAreOpen, Clearing, BusyHavePartners
<1>3. CASE frame' = [frame EXCEPT ![ReactorOf[c]] = f]
  <2>1. f \in Frame /\ f.op = "create" /\ f.conn = c
    BY LoopType DEF GInv
  <2> QED BY <1>1, <1>3, <2>1, OpenFrameGInv
<1> QED BY <1>2, <1>3 DEF CreateStream

LEMMA ForwardGInv == ASSUME GInv, NEW c \in Conns, Forward(c) PROVE GInv'
<1>1. target[c] \in Conns
  BY DEF Forward, GInv, TypeOK
<1>2. outbox' \subseteq Message
  BY <1>1, MsgType, SendType DEF Forward
<1> QED BY <1>2 DEF Forward, GInv, TypeOK, FramesInv, RegisteredAreOpen, Clearing, BusyHavePartners

LEMMA JoinAddGInv == ASSUME GInv, NEW r \in Reactors, JoinAdd(r) PROVE GInv'
<1> DEFINE f == frame[r]
           c == f.conn
<1>1. f \in Frame /\ f.op = "join" /\ c \in Conns /\ ReactorOf[c] = r
      /\ life[c] = "open" /\ role[c] = "NONE" /\ f.id \in Ids
  BY DEF JoinAdd, GInv, TypeOK, FramesInv, Frame
<1>2. /\ code' = [code EXCEPT ![c] = f.id]
      /\ role' = [role EXCEPT ![c] = "IDLE"]
      /\ registry' = [j \in Codes |-> IF j = f.id /\ registry[j] = NoConn THEN c ELSE registry[j]]
      /\ frame' = [frame EXCEPT ![r] = Idle]
      /\ UNCHANGED <<life, addr, target, objs>>
  BY DEF JoinAdd, AddConn
<1>3. outbox' \subseteq Message
  BY <1>1, ReplyType DEF JoinAdd
<1>4. TypeOK'
  BY <1>1, <1>2, <1>3, IdleFrame DEF GInv, TypeOK, Roles
<1>5. FramesInv'
  BY <1>1, <1>2, IdleFrame DEF GInv, TypeOK, FramesInv
<1>6. RegisteredAreOpen'
  <2> SUFFICES ASSUME NEW k \in Codes, NEW o \in Conns, registry'[k] = o
               PROVE  RegisteredOpen(o, k)'
    BY <1>4, RegisteredPrime DEF TypeOK
  <2>1. CASE o = c
    <3>1. registry[k] # c
      BY <1>1, ConnsAssumption DEF GInv, RegisteredAreOpen
    <3>2. k = f.id
      BY <1>2, <2>1, <3>1
    <3> QED BY <1>1, <1>2, <2>1, <3>2 DEF RegisteredOpen, GInv, TypeOK
  <2>2. CASE o # c
    <3>1. registry[k] = o
      BY <1>2, <2>2
    <3>2. RegisteredOpen(o, k)
      BY <3>1, ConnsAssumption DEF GInv, RegisteredAreOpen, RegisteredOpen
    <3>3. Clearing(o) => Clearing(o)'
      BY <1>1, <1>2 DEF Clearing, GInv, TypeOK
    <3> QED BY <1>1, <1>2, <2>2, <3>2, <3>3 DEF RegisteredOpen, GInv, TypeOK
  <2> QED BY <2>1, <2>2
<1>7. (OneReactor => BusyHavePartners)'
  BY <1>1, <1>2 DEF GInv, TypeOK, BusyHavePartners
<1> QED BY <1>4, <1>5, <1>6, <1>7 DEF GInv

LEMMA ClearStepGInv == ASSUME GInv, NEW r \in Reactors, ClearStep(r) PROVE GInv'
<1> DEFINE f == frame[r]
           c == f.conn
<1>0. PICK k \in Slot(objs[c], f.i) :
        \/ QueryConn(k) = NoConn /\ outbox' = {} /\ UNCHANGED <<objs, role>>
        \/ /\ QueryConn(k) # NoConn
           /\ RemoveClient(QueryConn(k), code[c])
           /\ Send({Msg(QueryConn(k), "DELETESTREAM", TRUE, Remaining(QueryConn(k)))})
  BY DEF ClearStep
<1> DEFINE o == QueryConn(k)
<1>1. f \in Frame /\ f.op \in {"clear", "close"} /\ c \in Conns /\ f.i \in Nat
  BY DEF ClearStep, GInv, TypeOK, FramesInv, Frame
<1>2. UNCHANGED <<life, code, addr, target, registry>>
  BY DEF ClearStep
<1>a. frame' = [frame EXCEPT ![r] = [f EXCEPT !.i = f.i + 1]]
  BY DEF ClearStep
<1>3. frame' \in [Reactors -> Frame]
  <2>1. [f EXCEPT !.i = f.i + 1] \in Frame
    BY <1>1 DEF Frame
  <2> HIDE DEF f
  <2> QED BY <1>a, <2>1 DEF GInv, TypeOK
<1>4. \A x \in Reactors : /\ frame'[x].op = frame[x].op
                          /\ frame'[x].conn = frame[x].conn
                          /\ frame'[x].peer = frame[x].peer
  BY <1>1, <1>a DEF GInv, TypeOK, Frame
<1>5. \A x \in Conns : Clearing(x)' <=> Clearing(x)
  BY <1>4 DEF Clearing
<1>6. CASE o = NoConn
  <2>1. outbox' = {} /\ UNCHANGED <<objs, role>>
    BY <1>0, <1>6
  <2>2. TypeOK'
    BY <1>2, <1>3, <2>1 DEF GInv, TypeOK
  <2>3. FramesInv'
    BY <1>2, <1>4, <2>1 DEF GInv, FramesInv
  <2>4. RegisteredAreOpen'
    BY <1>2, <1>5, <2>1, ConnsAssumption DEF GInv, TypeOK, RegisteredAreOpen
  <2>5. (OneReactor => BusyHavePartners)'
    BY <2>1 DEF GInv, BusyHavePartners
  <2> QED BY <2>2, <2>3, <2>4, <2>5 DEF GInv
<1>7. CASE o # NoConn
  <2>1. RemoveClient(o, code[c]) /\ Send({Msg(o, "DELETESTREAM", TRUE, Remaining(o))})
    BY <1>0, <1>7
  <2>2. o \in Conns /\ role[o] # "NONE"
    BY <1>7, QueryType DEF GInv, RegisteredAreOpen
  <2> HIDE DEF o
  <2>3. /\ objs' \in [Conns -> Seq(Ids)]
        /\ role' \in [Conns -> Roles]
        /\ \A x \in Conns \ {o} : objs'[x] = objs[x] /\ role'[x] = role[x]
        /\ role'[o] = role[o] \/ role'[o] = "IDLE"
        /\ role'[o] # "IDLE" /\ objs[o] # <<>> => objs'[o] # <<>>
    BY <2>1, <2>2, RemoveClientFacts DEF GInv
  <2>4. Msg(o, "DELETESTREAM", TRUE, Remaining(o)) \in Message
    <3>1. objs'[o] \in Seq(Ids)
      BY <2>2, <2>3
    <3>2. Remaining(o) \in Nat
      BY <3>1 DEF Remaining
    <3> QED BY <2>2, <3>2, MsgType
  <2>5. TypeOK'
    BY <1>2, <1>3, <2>1, <2>3, <2>4, SendType DEF GInv, TypeOK
  <2>6. FramesInv'
    BY <1>2, <1>4, <2>2, <2>3 DEF GInv, FramesInv
  <2>7. RegisteredAreOpen'
    BY <1>2, <1>5, <2>2, <2>3, ConnsAssumption DEF GInv, TypeOK, RegisteredAreOpen
  <2>8. (OneReactor => BusyHavePartners)'
    BY <2>2, <2>3 DEF GInv, BusyHavePartners
  <2> QED BY <2>5, <2>6, <2>7, <2>8 DEF GInv
<1> QED BY <1>6, <1>7

LEMMA ClearEndGInv == ASSUME GInv, NEW r \in Reactors, ClearEnd(r) PROVE GInv'
<1> DEFINE c == frame[r].conn
           lives == IF frame[r].op = "close" THEN [life EXCEPT ![c] = "closed"] ELSE life
<1>1. /\ frame[r].op \in {"clear", "close"}
      /\ c \in Conns
      /\ ReactorOf[c] = r
      /\ role[c] \in {"CLOSE", "IDLE"}
  BY DEF ClearEnd, GInv, FramesInv
<1>2. lives \in [Conns -> Lives]
  BY DEF GInv, TypeOK, Lives
<1>3. RemoveConn(code[c]) \in [Codes -> Conns \cup {NoConn}]
  BY DEF RemoveConn, GInv, TypeOK
<1>4. /\ objs' = [objs EXCEPT ![c] = <<>>]
      /\ outbox' = {}
      /\ UNCHANGED <<role, code, addr>>
      /\ Settle(lives, target, [frame EXCEPT ![r] = Idle], RemoveConn(code[c]))
  BY DEF ClearEnd
<1>5. /\ life' \in [Conns -> Lives]
      /\ \A o \in Conns : life'[o] = lives[o] \/ (lives[o] = "closed" /\ life'[o] = "gone")
      /\ registry' \in [Codes -> Conns \cup {NoConn}]
      /\ \A k \in Codes : registry'[k] = RemoveConn(code[c])[k] \/ registry'[k] = NoConn
      /\ target' = target
      /\ frame' = [frame EXCEPT ![r] = Idle]
  BY <1>2, <1>3, <1>4, SettleFacts
<1>6. \A o \in Conns \ {c} : lives[o] = life[o]
  BY DEF GInv, TypeOK
<1> HIDE DEF lives
<1>a. \A x \in Reactors : frame'[x] = IF x = r THEN Idle ELSE frame[x]
  BY <1>5 DEF GInv, TypeOK
<1>b. frame' \in [Reactors -> Frame] /\ objs' \in [Conns -> Seq(Ids)]
  <2>1. frame' \in [Reactors -> Frame]
    BY <1>5, IdleFrame DEF GInv, TypeOK
  <2>2. <<>> \in Seq(Ids) /\ objs' = [objs EXCEPT ![c] = <<>>] /\ objs \in [Conns -> Seq(Ids)]
    BY <1>4 DEF GInv, TypeOK
  <2>3. objs' \in [Conns -> Seq(Ids)]
    BY <2>2
  <2> QED BY <2>1, <2>3
<1>c. UNCHANGED <<role, code, addr, target>> /\ outbox' = {}
  BY <1>4, <1>5
<1>7. TypeOK'
  BY <1>5, <1>b, <1>c DEF GInv, TypeOK
<1>8. FramesInv'
  <2> SUFFICES ASSUME NEW x \in Reactors, x # r, frame[x].op # "idle", frame'[x] = frame[x]
               PROVE  /\ frame[x].conn # c
                      /\ frame[x].conn \in Conns
                      /\ life'[frame[x].conn] = life[frame[x].conn]
    BY <1>a, <1>c, IdleFrame DEF GInv, FramesInv
  <2>1. frame[x].conn \in Conns /\ frame[x].conn # c /\ life[frame[x].conn] # "closed"
    BY <1>1 DEF GInv, FramesInv
  <2> QED BY <1>5, <1>6, <2>1
<1>9. RegisteredAreOpen'
  <2> SUFFICES ASSUME NEW k \in Codes, NEW o \in Conns, registry'[k] = o
               PROVE  RegisteredOpen(o, k)'
    BY <1>5, RegisteredPrime
  <2>1. registry[k] = o /\ k # code[c]
    BY <1>5, ConnsAssumption DEF RemoveConn
  <2>2. RegisteredOpen(o, k)
    BY <2>1, ConnsAssumption DEF GInv, RegisteredAreOpen, RegisteredOpen
  <2>3. o # c /\ life'[o] = life[o]
    BY <1>5, <1>6, <2>1, <2>2 DEF RegisteredOpen
  <2>4. Clearing(o) => Clearing(o)'
    BY <1>1, <1>5, <2>3 DEF Clearing, GInv, TypeOK
  <2> QED BY <1>4, <2>2, <2>3, <2>4 DEF RegisteredOpen
<1>10. (OneReactor => BusyHavePartners)'
  BY <1>1, <1>4 DEF GInv, TypeOK, BusyHavePartners
<1> QED BY <1>7, <1>8, <1>9, <1>10 DEF GInv

LEMMA ObtainLinkGInv == ASSUME GInv, NEW r \in Reactors, ObtainLink(r) PROVE GInv'
<1> DEFINE f == frame[r]
           c == f.conn
           o == f.peer
           targets == IF f.op = "control" THEN [target EXCEPT ![c] = o] ELSE target
<1>1. /\ f.op \in {"control", "watch"}
      /\ c \in Conns /\ o \in Conns
      /\ ReactorOf[c] = r /\ life[c] = "open"
      /\ f.id \in Ids
  BY DEF ObtainLink, GInv, TypeOK, FramesInv, Frame
<1>2. /\ role' = [role EXCEPT ![c] = "PULLER"]
      /\ UNCHANGED <<code, addr>>
      /\ Settle(life, targets, [frame EXCEPT ![r] = Idle], registry)
  BY DEF ObtainLink
<1>3. targets \in [Conns -> Conns \cup {NoConn}]
  BY <1>1 DEF GInv, TypeOK
<1> HIDE DEF targets
<1>4. /\ objs' \in [Conns -> Seq(Ids)]
      /\ objs'[c] # <<>>
      /\ \A x \in Conns : objs[x] # <<>> => objs'[x] # <<>>
  <2> DEFINE s == [objs EXCEPT ![c] = AddClient(objs[c], f.id)]
  <2>1. AddClient(objs[c], f.id) \in Seq(Ids) /\ AddClient(objs[c], f.id) # <<>>
    <3>1. objs[c] \in Seq(Ids)
      BY <1>1 DEF GInv, TypeOK
    <3> QED BY <1>1, <3>1, AddClientFacts
  <2>2. s \in [Conns -> Seq(Ids)] /\ s[c] # <<>> /\ \A x \in Conns \ {c} : s[x] = objs[x]
    BY <1>1, <2>1 DEF GInv, TypeOK
  <2>3. objs' = [s EXCEPT ![o] = AddClient(s[o], code[c])]
    BY DEF ObtainLink
  <2> HIDE DEF s
  <2>4. AddClient(s[o], code[c]) \in Seq(Ids) /\ AddClient(s[o], code[c]) # <<>>
    <3>1. s[o] \in Seq(Ids) /\ code[c] \in Ids
      BY <1>1, <2>2 DEF GInv, TypeOK
    <3> QED BY <3>1, AddClientFacts
  <2> QED BY <1>1, <2>2, <2>3, <2>4
<1>5. /\ life' \in [Conns -> Lives]
      /\ \A x \in Conns : life'[x] = life[x] \/ (life[x] = "closed" /\ life'[x] = "gone")
      /\ registry' \in [Codes -> Conns \cup {NoConn}]
      /\ \A k \in Codes : registry'[k] = registry[k] \/ registry'[k] = NoConn
      /\ target' = targets
      /\ frame' = [frame EXCEPT ![r] = Idle]
  BY <1>2, <1>3, SettleFacts DEF GInv, TypeOK
<1>6. outbox' \subseteq Message
  <2>1. \A x \in Conns, cmd \in {"CREATESTREAM", "OBTAINSTREAM", "PLAYSTREAM"} : Msg(x, cmd, TRUE, 0) \in Message
    BY MsgType
  <2>2. CASE f.op = "control"
    <3>1. Send({Msg(o, "CREATESTREAM", TRUE, 0), Msg(c, "OBTAINSTREAM", TRUE, 0)})
      BY <2>2 DEF ObtainLink
    <3> QED BY <1>1, <2>1, <3>1, SendType
  <2>3. CASE f.op # "control"
    <3>1. Send({Msg(c, "PLAYSTREAM", TRUE, 0)})
      BY <2>3 DEF ObtainLink
    <3> QED BY <1>1, <2>1, <3>1, SendType
  <2> QED BY <2>2, <2>3
<1>7. TypeOK'
  BY <1>2, <1>3, <1>4, <1>5, <1>6, IdleFrame DEF GInv, TypeOK, Roles
<1>8. FramesInv'
  BY <1>1, <1>2, <1>5, IdleFrame DEF GInv, TypeOK, FramesInv
<1>9. RegisteredAreOpen'
  <2> SUFFICES ASSUME NEW k \in Codes, NEW x \in Conns, registry'[k] = x
               PROVE  RegisteredOpen(x, k)'
    BY <1>5, RegisteredPrime
  <2>1. registry[k] = x
    BY <1>5, ConnsAssumption
  <2>2. RegisteredOpen(x, k)
    BY <2>1, ConnsAssumption DEF GInv, RegisteredAreOpen, RegisteredOpen
  <2>3. life'[x] = life[x]
    BY <1>5, <2>2 DEF RegisteredOpen
  <2>4. Clearing(x) => Clearing(x)'
    BY <1>1, <1>5 DEF Clearing, GInv, TypeOK
  <2>5. role'[x] # "NONE" /\ (role'[x] = "CLOSE" => role[x] = "CLOSE")
    BY <1>1, <1>2, <2>2 DEF RegisteredOpen, GInv, TypeOK
  <2> QED BY <1>2, <2>2, <2>3, <2>4, <2>5 DEF RegisteredOpen
<1>10. (OneReactor => BusyHavePartners)'
  BY <1>1, <1>2, <1>4 DEF GInv, TypeOK, BusyHavePartners
<1> QED BY <1>7, <1>8, <1>9, <1>10 DEF GInv

LEMMA NextIterationType ==
  ASSUME NEW f \in Frame
  PROVE  /\ NextIteration(f) \in Frame
         /\ \/ NextIteration(f) = Idle
            \/ /\ NextIteration(f).op = f.op
               /\ NextIteration(f).conn = f.conn
               /\ NextIteration(f).peer = f.peer
<1>1. CASE f.i < f.end
  BY <1>1 DEF NextIteration, Frame
<1>2. CASE ~(f.i < f.end)
  BY <1>2, IdleFrame DEF NextIteration
<1> QED BY <1>1, <1>2

LEMMA CreateStepGInv == ASSUME GInv, NEW r \in Reactors, CreateStep(r) PROVE GInv'
<1> DEFINE f == frame[r]
           c == f.conn
<1>0. PICK k \in Slot(objs[c], f.i) : CreateFor(c, k, QueryConn(k))
  BY DEF CreateStep
<1> DEFINE o == QueryConn(k)
<1>1. f \in Frame /\ f.op = "create" /\ c \in Conns /\ ReactorOf[c] = r /\ life[c] = "open"
  BY DEF CreateStep, GInv, TypeOK, FramesInv
<1>2. UNCHANGED <<life, code, addr, target, registry>>
  BY DEF CreateStep
<1>3. frame' = [frame EXCEPT ![r] = NextIteration(f)]
  BY DEF CreateStep
<1>4. frame' \in [Reactors -> Frame]
  BY <1>1, <1>3, NextIterationType DEF GInv, TypeOK
<1>5. \A x \in Reactors : frame'[x] = IF x = r THEN NextIteration(f) ELSE frame[x]
  BY <1>3 DEF GInv, TypeOK
<1>6. ASSUME NEW x PROVE Clearing(x) <=> Clearing(x)'
  BY <1>1, <1>5, NextIterationType, IdleFrame DEF Clearing
<1>7. o \in Conns \cup {NoConn} /\ (o # NoConn => role[o] # "NONE" /\ (OneReactor => objs[c] # <<>>))
  <2>1. o # NoConn => k \in Codes /\ registry[k] = o
    BY QueryType DEF GInv
  <2>2. o # NoConn => role[o] # "NONE"
    BY <2>1 DEF GInv, RegisteredAreOpen
  <2>3. OneReactor /\ k # NoCode => objs[c] # <<>>
    BY <1>1, SlotType DEF GInv
  <2> QED BY <2>1, <2>2, <2>3, QueryType, CodesAssumption DEF GInv
<1>8. /\ objs' \in [Conns -> Seq(Ids)]
      /\ role' \in [Conns -> Roles]
      /\ outbox' \subseteq Message
      /\ \A x \in Conns \ {c} : role'[x] = role[x] \/ (x = o /\ role'[x] = "IDLE")
      /\ role'[c] \in {role[c], "IDLE"} \/ (role'[c] = "PUSHER" /\ o # NoConn)
      /\ \A x \in Conns : role'[x] # "IDLE" /\ objs[x] # <<>> => objs'[x] # <<>>
  <2>1. ASSUME NEW j, RemoveClient(c, j)
        PROVE  /\ objs' \in [Conns -> Seq(Ids)]
               /\ role' \in [Conns -> Roles]
               /\ \A x \in Conns \ {c} : objs'[x] = objs[x] /\ role'[x] = role[x]
               /\ role'[c] = role[c] \/ role'[c] = "IDLE"
               /\ role'[c] # "IDLE" /\ objs[c] # <<>> => objs'[c] # <<>>
    BY <1>1, <2>1, RemoveClientFacts DEF GInv
  <2>2. ASSUME NEW ok \in BOOLEAN, o # NoConn, Send({Msg(o, "PLAYSTREAM", ok, 0)}) PROVE outbox' \subseteq Message
    <3>1. o \in Conns
      BY <1>7, <2>2
    <3>2. Msg(o, "PLAYSTREAM", ok, 0) \in Message
      BY <3>1, MsgType
    <3> QED BY <2>2, <3>2, SendType
  <2> HIDE DEF o
  <2>3. CASE o = NoConn /\ RemoveClient(c, k) /\ outbox' = {}
    BY <2>1, <2>3
  <2>4. CASE /\ o # NoConn /\ Send({Msg(o, "PLAYSTREAM", FALSE, 0)})
             /\ role' = [role EXCEPT ![o] = "IDLE"] /\ objs' = objs
    BY <1>1, <1>7, <2>2, <2>4 DEF GInv, TypeOK, Roles
  <2>5. CASE o # NoConn /\ RemoveClient(c, code[o]) /\ Send({Msg(o, "PLAYSTREAM", FALSE, 0)})
    BY <2>1, <2>2, <2>5
  <2>6. CASE /\ o # NoConn /\ Send({Msg(o, "PLAYSTREAM", TRUE, 0)})
             /\ role' = [role EXCEPT ![c] = "PUSHER"] /\ objs' = objs
    BY <1>1, <1>7, <2>2, <2>6 DEF GInv, TypeOK, Roles
  <2> QED BY <2>3, <2>4, <2>5, <2>6, <1>0 DEF CreateFor, o
<1> HIDE DEF o
<1>9. TypeOK'
  BY <1>2, <1>4, <1>8 DEF GInv, TypeOK
<1>10. FramesInv'
  <2>1. \A x \in Conns \ {c} : role[x] = "NONE" => role'[x] = "NONE"
    BY <1>7, <1>8, ConnsAssumption
  <2> SUFFICES ASSUME NEW x \in Reactors, x # r, frame[x].op # "idle", frame'[x] = frame[x]
               PROVE  /\ frame[x].conn \in Conns \ {c}
                      /\ role[frame[x].conn] \in {"CLOSE", "IDLE"} => role'[frame[x].conn] \in {"CLOSE", "IDLE"}
    BY <1>1, <1>2, <1>5, <2>1, NextIterationType, IdleFrame DEF GInv, FramesInv
  <2>2. frame[x].conn \in Conns \ {c}
    BY <1>1 DEF GInv, FramesInv
  <2> QED BY <1>8, <2>2
<1>11. RegisteredAreOpen'
  <2>1. \A x \in Conns : role[x] # "NONE" => role'[x] # "NONE"
    BY <1>8
  <2>2. \A x \in Conns : role'[x] = "CLOSE" => role[x] = "CLOSE"
    BY <1>8
  <2> QED BY <1>2, <1>6, <2>1, <2>2, ConnsAssumption DEF GInv, TypeOK, RegisteredAreOpen
<1>12. (OneReactor => BusyHavePartners)'
  <2> SUFFICES ASSUME OneReactor, NEW x \in Conns, role'[x] \in {"PULLER", "PUSHER"} PROVE objs[x] # <<>>
    BY <1>8 DEF BusyHavePartners
  <2> QED BY <1>1, <1>7, <1>8 DEF GInv, BusyHavePartners
<1> QED BY <1>9, <1>10, <1>11, <1>12 DEF GInv

LEMMA NextGInv == ASSUME GInv, [Next]_vars PROVE GInv'
<1>1. CASE UNCHANGED vars
  BY <1>1, ReplyGInv DEF vars, GInv, TypeOK
<1>2. ASSUME NEW c \in Conns, Disconnect(c) \/ DeleteStream(c) PROVE GInv'
  BY <1>2, StartClearGInv DEF Disconnect, DeleteStream
<1>3. ASSUME NEW c \in Conns, Accept(c) \/ Disconnect(c) \/ DeleteStream(c) \/ Forward(c) PROVE GInv'
  BY <1>2, <1>3, AcceptGInv, ForwardGInv
<1>4. ASSUME NEW c \in Conns, NEW k \in Asked, JoinCheck(c, k) \/ ObtainCheck(c, k) PROVE GInv'
  BY <1>4, AskedAssumption, JoinCheckGInv, ObtainCheckGInv
<1>5. ASSUME NEW c \in Conns, NEW hasAddr \in BOOLEAN, CreateStream(c, hasAddr) PROVE GInv'
  BY <1>5, CreateStreamGInv
<1>6. ASSUME NEW r \in Reactors, JoinAdd(r) \/ ObtainLink(r) \/ CreateStep(r) \/ ClearStep(r) \/ ClearEnd(r)
      PROVE  GInv'
  BY <1>6, JoinAddGInv, ObtainLinkGInv, CreateStepGInv, ClearStepGInv, ClearEndGInv
<1> QED BY <1>1, <1>3, <1>4, <1>5, <1>6 DEF Next

\* The inductive invariant holds whatever the number of reactors, and however their handlers
\* interleave.
THEOREM Invariant == Spec => []GInv
BY InitGInv, NextGInv, PTL DEF Spec

\* Every variable keeps its type: no handler leaves the ranges the code's fields have.
THEOREM TypeCorrect == Spec => []TypeOK
BY Invariant, PTL DEF GInv

\* QueryConn never answers with a connection that is closed, has not joined with that code, or
\* has left (unless its own thread is still inside Clear), for any number of clients and reactors.
THEOREM QueryIsSafe == Spec => []RegisteredAreOpen
BY Invariant, PTL DEF GInv

\* A client in PULLER or PUSHER always has a partner whose leaving ends that role.
THEOREM BusyClientsHavePartners == OneReactor => (Spec => []BusyHavePartners)
<1> SUFFICES ASSUME OneReactor PROVE Spec => []BusyHavePartners
  OBVIOUS
<1>1. GInv => BusyHavePartners
  BY DEF GInv
<1> QED BY <1>1, Invariant, PTL
-----------------------------------------------------------------------------
(* Partners are distinct, for any number of reactors *)

LEMMA RemoveKeepsDistinct ==
  ASSUME TypeOK, DistinctPartners, NEW o \in Conns, NEW k, RemoveClient(o, k)
  PROVE  DistinctPartners'
<1>1. objs[o] \in Seq(Ids) /\ Distinct(objs[o])
  BY DEF TypeOK, DistinctPartners, Distinct
<1>2. Distinct(Without(objs[o], k))
  BY <1>1, WithoutDistinct
<1>3. objs' = [objs EXCEPT ![o] = Without(objs[o], k)]
  BY DEF RemoveClient
<1> QED BY <1>2, <1>3 DEF TypeOK, DistinctPartners, Distinct

LEMMA LinkKeepsDistinct ==
  ASSUME GInv, DistinctPartners, NEW r \in Reactors, ObtainLink(r)
  PROVE  DistinctPartners'
<1> DEFINE f == frame[r]
           c == f.conn
           o == f.peer
           s == [objs EXCEPT ![c] = AddClient(objs[c], f.id)]
<1>1. c \in Conns /\ o \in Conns /\ f.id \in Ids /\ code[c] \in Ids
  BY DEF ObtainLink, GInv, TypeOK, FramesInv, Frame
<1>2. objs' = [s EXCEPT ![o] = AddClient(s[o], code[c])]
  BY DEF ObtainLink
<1>3. \A x \in Conns : objs[x] \in Seq(Ids) /\ Distinct(objs[x])
  BY DEF GInv, TypeOK, DistinctPartners, Distinct
<1>4. \A x \in Conns : s[x] \in Seq(Ids) /\ Distinct(s[x])
  <2>1. AddClient(objs[c], f.id) \in Seq(Ids) /\ Distinct(AddClient(objs[c], f.id))
    BY <1>1, <1>3, AddClientFacts, AddDistinct
  <2> QED BY <1>1, <1>3, <2>1 DEF GInv, TypeOK
<1>5. s \in [Conns -> Seq(Ids)]
  BY <1>4 DEF GInv, TypeOK
<1> HIDE DEF s
<1>6. Distinct(AddClient(s[o], code[c]))
  BY <1>1, <1>4, AddDistinct
<1>7. \A x \in Conns : Distinct(objs'[x])
  BY <1>1, <1>2, <1>4, <1>5, <1>6
<1> QED BY <1>7 DEF DistinctPartners, Distinct

LEMMA DistinctStep ==
  ASSUME GInv, DistinctPartners, [Next]_vars
  PROVE  DistinctPartners'
<1>1. CASE objs' = objs
  BY <1>1 DEF DistinctPartners
<1>2. ASSUME NEW r \in Reactors, ClearStep(r) PROVE DistinctPartners'
  <2>1. PICK k : \/ QueryConn(k) # NoConn /\ RemoveClient(QueryConn(k), code[frame[r].conn])
                 \/ objs' = objs
    BY <1>2 DEF ClearStep
  <2>2. QueryConn(k) # NoConn => QueryConn(k) \in Conns
    BY QueryType DEF GInv
  <2> QED BY <1>1, <2>1, <2>2, RemoveKeepsDistinct DEF GInv
<1>3. ASSUME NEW r \in Reactors, CreateStep(r) PROVE DistinctPartners'
  <2>1. frame[r].conn \in Conns
    BY <1>3 DEF CreateStep, GInv, FramesInv
  <2>2. (\E k : RemoveClient(frame[r].conn, k)) \/ objs' = objs
    BY <1>3 DEF CreateStep, CreateFor
  <2> QED BY <1>1, <2>1, <2>2, RemoveKeepsDistinct DEF GInv
<1>4. ASSUME NEW r \in Reactors, ClearEnd(r) PROVE DistinctPartners'
  BY <1>4 DEF ClearEnd, GInv, TypeOK, DistinctPartners
<1>5. CASE Next
  <2>1. CASE \E c \in Conns : Accept(c) \/ Disconnect(c) \/ DeleteStream(c) \/ Forward(c)
    BY <1>1, <2>1 DEF Accept, Disconnect, DeleteStream, StartClear, Forward
  <2>2. CASE \E c \in Conns, k \in Asked : JoinCheck(c, k) \/ ObtainCheck(c, k)
    BY <1>1, <2>2 DEF JoinCheck, ObtainCheck
  <2>3. CASE \E c \in Conns, hasAddr \in BOOLEAN : CreateStream(c, hasAddr)
    BY <1>1, <2>3 DEF CreateStream
  <2>4. CASE \E r \in Reactors : JoinAdd(r)
    BY <1>1, <2>4 DEF JoinAdd
  <2> QED BY <1>2, <1>3, <1>4, <1>5, <2>1, <2>2, <2>3, <2>4, LinkKeepsDistinct DEF Next
<1> QED BY <1>1, <1>5 DEF vars

\* However handlers interleave, no client is listed twice with another: the number of partners that a
\* DELETESTREAM carries is the length of m_vecObjectes.
THEOREM PartnersAreDistinct == Spec => []DistinctPartners
<1>1. Init => DistinctPartners
  BY DEF Init, DistinctPartners
<1>2. GInv /\ DistinctPartners /\ [Next]_vars => DistinctPartners'
  BY DistinctStep
<1> QED BY <1>1, <1>2, Invariant, PTL DEF Spec

-----------------------------------------------------------------------------
(* With one reactor handlers are sequential *)

\* While the reactor is in a handler nothing but that handler's next step, or an accept, can happen.
LEMMA HandlerGoesOn ==
  ASSUME OneReactor, NEW r \in Reactors, frame[r].op # "idle", Next
  PROVE  \/ \E c \in Conns : Accept(c)
         \/ JoinAdd(r) \/ ObtainLink(r) \/ CreateStep(r) \/ ClearStep(r) \/ ClearEnd(r)
<1>1. \A c \in Conns : ~Ready(c)
  BY ReactorAssumption DEF OneReactor, Ready
<1> QED BY <1>1 DEF Next, OneReactor, Disconnect, DeleteStream, Forward, JoinCheck, ObtainCheck, CreateStream

\* The code that a JOIN has looked for is still free when the client is added.
JoinsAreFree ==
  \A r \in Reactors : frame[r].op = "join" /\ frame[r].id \in Codes => registry[frame[r].id] = NoConn

LEMMA JoinsStayFree ==
  ASSUME OneReactor, GInv, JoinsAreFree, [Next]_vars
  PROVE  JoinsAreFree'
<1> SUFFICES ASSUME NEW r \in Reactors, frame'[r].op = "join", frame'[r].id \in Codes
             PROVE  registry'[frame'[r].id] = NoConn
  BY DEF JoinsAreFree
<1>1. CASE UNCHANGED <<registry, frame>>
  BY <1>1 DEF JoinsAreFree
<1>2. CASE frame[r].op # "idle" /\ Next
  <2>1. frame[r] \in Frame
    BY DEF GInv, TypeOK
  <2>2. ~(JoinAdd(r) \/ ObtainLink(r) \/ CreateStep(r) \/ ClearStep(r) \/ ClearEnd(r))
    <3>1. JoinAdd(r) \/ ObtainLink(r) \/ ClearEnd(r) => frame'[r] = Idle
      BY DEF JoinAdd, ObtainLink, ClearEnd, Settle, GInv, TypeOK
    <3>2. ClearStep(r) => frame'[r].op = frame[r].op /\ frame[r].op \in {"clear", "close"}
      BY <2>1 DEF ClearStep, GInv, TypeOK, Frame
    <3>3. CreateStep(r) => frame'[r] = NextIteration(frame[r]) /\ frame[r].op = "create"
      BY DEF CreateStep, GInv, TypeOK
    <3> QED BY <2>1, <3>1, <3>2, <3>3, IdleFrame, NextIterationType
  <2>3. \E c \in Conns : Accept(c)
    BY <1>2, <2>2, HandlerGoesOn
  <2> QED BY <1>1, <2>3 DEF Accept
<1>3. CASE frame[r].op = "idle" /\ Next
  <2>1. \A x \in Reactors : frame[x].op = "idle"
    BY <1>3 DEF OneReactor
  <2>2. PICK c \in Conns : \/ Accept(c) \/ Disconnect(c) \/ DeleteStream(c) \/ Forward(c)
                           \/ \E k \in Asked : JoinCheck(c, k) \/ ObtainCheck(c, k)
                           \/ \E hasAddr \in BOOLEAN : CreateStream(c, hasAddr)
    BY <1>3, <2>1 DEF Next, JoinAdd, ObtainLink, CreateStep, ClearStep, ClearEnd
  <2>3. Accept(c) \/ Forward(c) => UNCHANGED <<registry, frame>>
    BY DEF Accept, Forward
  <2>4. ASSUME Disconnect(c) \/ DeleteStream(c) PROVE FALSE
    <3>1. PICK op \in {"clear", "close"} : frame' = [frame EXCEPT ![ReactorOf[c]] = Loop(op, c)]
      BY <2>4 DEF Disconnect, DeleteStream, StartClear, Settle
    <3> QED BY <2>1, <3>1 DEF GInv, TypeOK, Loop
  <2>5. ASSUME NEW hasAddr \in BOOLEAN, CreateStream(c, hasAddr) PROVE FALSE
    BY <2>1, <2>5 DEF CreateStream, GInv, TypeOK, Loop
  <2>6. ASSUME NEW k \in Asked, ObtainCheck(c, k) PROVE FALSE
    <3>1. CASE frame' = frame
      BY <2>1, <3>1
    <3>2. CASE /\ ObtainBranch(c, QueryConn(k)) # "error"
               /\ frame' = [frame EXCEPT ![ReactorOf[c]] = Request(ObtainBranch(c, QueryConn(k)), c, k, QueryConn(k))]
      BY <2>1, <3>2 DEF GInv, TypeOK, Request, ObtainBranch
    <3> QED BY <2>6, <3>1, <3>2 DEF ObtainCheck
  <2>7. ASSUME NEW k \in Asked, JoinCheck(c, k) PROVE registry'[frame'[r].id] = NoConn
    <3>1. registry' = registry
      BY <2>7 DEF JoinCheck
    <3>2. frame' # frame
      BY <2>1
    <3>3. MayJoin(c, k) /\ frame' = [frame EXCEPT ![ReactorOf[c]] = Request("join", c, k, NoConn)]
      BY <2>7, <3>2 DEF JoinCheck
    <3>4. frame'[r].id = k
      BY <2>1, <3>3 DEF GInv, TypeOK, Request
    <3> QED BY <3>1, <3>3, <3>4 DEF MayJoin, QueryConn
  <2> QED BY <1>1, <2>2, <2>3, <2>4, <2>5, <2>6, <2>7
<1> QED BY <1>1, <1>2, <1>3 DEF vars

-----------------------------------------------------------------------------
(* OrderlySpec, for one reactor: as long as nobody joins with a code that some *)
(* object still carries, the manager is the directory of the clients that      *)
(* joined and have not left.                                                   *)

Busy == {"IDLE", "PULLER", "PUSHER"}

Known == {"open", "closing", "closed"}

\* An object that has not joined carries nothing.
NewcomersAreBlank ==
  \A c \in Conns :
    /\ life[c] = "new" => role[c] = "NONE"
    /\ role[c] = "NONE" => code[c] = NoCode /\ objs[c] = <<>>

\* An object that is closed is CLOSE, and one that is CLOSE has no partners, unless its Clear still runs.
LeaversAreClosed ==
  \A c \in Conns :
    /\ life[c] \in {"closing", "closed", "gone"} => role[c] = "CLOSE"
    /\ role[c] = "CLOSE" /\ ~Clearing(c) => objs[c] = <<>>

\* No two objects carry the same code, and none has its own code among its partners'.
CodesAreOwn ==
  /\ \A c, o \in Conns :
       life[c] \in Known /\ life[o] \in Known /\ code[c] \in Codes /\ code[c] = code[o] => c = o
  /\ \A c \in Conns : code[c] \in Codes => code[c] \notin Range(objs[c])

Clients == NewcomersAreBlank /\ LeaversAreClosed /\ CodesAreOwn /\ DirectoryExact

\* What a request or a DoCreateStream has checked still holds at its next step.
RequestsHold ==
  \A r \in Reactors :
    LET f == frame[r]
    IN  /\ f.op = "join" /\ f.id \in Codes => CodeFree(f.id)
        /\ f.op \in {"control", "watch"} =>
             /\ role[f.conn] = "IDLE" /\ role[f.peer] \in Busy
             /\ f.peer # f.conn /\ f.id \in Codes /\ registry[f.id] = f.peer
        /\ f.op = "create" => role[f.conn] \in Busy

\* The partners that a Clear has passed do not list the client any more.
ClearedSoFar ==
  \A r \in Reactors :
    LET f == frame[r]
        c == f.conn
    IN  f.op \in {"clear", "close"} =>
          /\ role[c] = "CLOSE"
          /\ f.end = Len(objs[c]) /\ f.i >= 1
          /\ \A j \in DOMAIN objs[c] :
               j < f.i /\ QueryConn(objs[c][j]) # NoConn => code[c] \notin Range(objs[QueryConn(objs[c][j])])

OInv == GInv /\ DistinctPartners /\ JoinsAreFree /\ Clients /\ RequestsHold /\ ClearedSoFar

-----------------------------------------------------------------------------
(* What follows from the invariant *)

LEMMA BusyIsOpen ==
  ASSUME OInv, NEW c \in Conns, role[c] \in Busy
  PROVE  life[c] = "open"
BY DEF OInv, GInv, TypeOK, Lives, Busy, Clients, NewcomersAreBlank, LeaversAreClosed

\* A registered connection is not CLOSE, but for the one whose Clear is running.
LEMMA FoundIsBusy ==
  ASSUME OneReactor, OInv, NEW r \in Reactors, NEW k, QueryConn(k) # NoConn,
         frame[r].op \in {"clear", "close"} => frame[r].conn # QueryConn(k)
  PROVE  /\ QueryConn(k) \in Conns
         /\ role[QueryConn(k)] \in Busy
<1>1. QueryConn(k) \in Conns /\ k \in Codes /\ registry[k] = QueryConn(k)
  BY QueryType DEF OInv, GInv
<1>2. ~Clearing(QueryConn(k))
  BY DEF OneReactor, Clearing
<1> QED BY <1>1, <1>2 DEF OInv, GInv, TypeOK, RegisteredAreOpen, Roles, Busy

\* A client that has not left is what QueryConn finds, so no other object is.
LEMMA OnlyOwner ==
  ASSUME OInv, NEW c \in Conns, life[c] \in Known, NEW k \in Codes, code[c] = k
  PROVE  registry[k] \in {c, NoConn}
<1> SUFFICES ASSUME registry[k] # NoConn PROVE registry[k] = c
  OBVIOUS
<1>1. registry[k] \in Conns /\ life[registry[k]] \in Known /\ code[registry[k]] = k
  BY DEF OInv, GInv, TypeOK, RegisteredAreOpen, Known
<1> QED BY <1>1 DEF OInv, Clients, CodesAreOwn

\* The destructor's RemoveConn takes nobody's entry.
LEMMA SettleKeepsOthers ==
  ASSUME OInv, NEW lives, NEW targets, NEW frames, NEW entries \in [Codes -> Conns \cup {NoConn}],
         Settle(lives, targets, frames, entries),
         \A k \in Codes : entries[k] \in {registry[k], NoConn},
         \A o \in Conns : lives[o] = "closed" =>
           life[o] = "closed" \/ (code[o] \in Codes => entries[code[o]] = NoConn)
  PROVE  registry' = entries
<1>1. registry' = [k \in Codes |-> IF \E o \in Conns : /\ lives[o] = "closed"
                                                       /\ ~Held(o, targets, frames)
                                                       /\ code[o] = k
                                   THEN NoConn ELSE entries[k]]
  BY DEF Settle
<1>2. ASSUME NEW k \in Codes, NEW o \in Conns, lives[o] = "closed", code[o] = k PROVE entries[k] = NoConn
  <2>1. CASE life[o] = "closed"
    <3>1. registry[k] \in {o, NoConn}
      BY <1>2, <2>1, OnlyOwner DEF Known
    <3>2. registry[k] # o
      BY <1>2, <2>1, ConnsAssumption DEF OInv, GInv, RegisteredAreOpen
    <3> QED BY <3>1, <3>2
  <2> QED BY <1>2, <2>1
<1>3. \A k \in Codes : registry'[k] = entries[k]
  BY <1>1, <1>2
<1> QED BY <1>1, <1>3

\* Steps that take no code, close nobody, and change roles among those of a client that is in.
LEMMA ClientsKeep ==
  ASSUME OInv, code' = code, registry' = registry,
         \A x \in Conns : life'[x] = life[x] \/ (life[x] = "closed" /\ life'[x] = "gone"),
         \A x \in Conns : role'[x] = role[x] \/ (role[x] \in Busy /\ role'[x] \in Busy),
         \A x \in Conns : role[x] \notin Busy /\ objs[x] = <<>> => objs'[x] = <<>>,
         \A x \in Conns : code[x] \in Codes => code[x] \notin Range(objs'[x]),
         \A x \in Conns : Clearing(x) => Clearing(x)'
  PROVE  Clients'
<1>1. NewcomersAreBlank'
  BY DEF OInv, Clients, NewcomersAreBlank, Busy
<1>2. LeaversAreClosed'
  BY DEF OInv, Clients, LeaversAreClosed, Busy
<1>3. CodesAreOwn'
  BY DEF OInv, Clients, CodesAreOwn, Known
<1>4. DirectoryExact'
  BY DEF OInv, Clients, DirectoryExact, Busy
<1> QED BY <1>1, <1>2, <1>3, <1>4 DEF Clients

\* When no handler is running there is nothing for a frame to have checked.
LEMMA NoFrames ==
  ASSUME \A r \in Reactors : frame'[r].op = "idle"
  PROVE  RequestsHold' /\ ClearedSoFar'
BY DEF RequestsHold, ClearedSoFar

LEMMA RemovalShrinks ==
  ASSUME OInv, NEW o \in Conns, NEW k, objs' = [objs EXCEPT ![o] = Without(objs[o], k)]
  PROVE  /\ \A x \in Conns : Range(objs'[x]) \subseteq Range(objs[x])
         /\ \A x \in Conns : objs[x] = <<>> => objs'[x] = <<>>
         /\ k \notin Range(objs'[o])
<1>1. objs[o] \in Seq(Ids) /\ Distinct(objs[o])
  BY DEF OInv, GInv, TypeOK, DistinctPartners, Distinct
<1>2. Range(Without(objs[o], k)) \subseteq Range(objs[o]) /\ k \notin Range(Without(objs[o], k))
  BY <1>1, WithoutFacts, WithoutDistinct
<1>3. objs[o] = <<>> => Without(objs[o], k) = <<>>
  BY DEF Without, Range
<1>4. \A x \in Conns : objs'[x] = IF x = o THEN Without(objs[o], k) ELSE objs[x]
  BY DEF OInv, GInv, TypeOK
<1> QED BY <1>2, <1>3, <1>4

-----------------------------------------------------------------------------
(* Each handler keeps the invariant *)

Kept == Clients' /\ RequestsHold' /\ ClearedSoFar'

LEMMA QuietKeeps ==
  ASSUME OInv, UNCHANGED <<life, role, code, objs, registry, frame>>
  PROVE  Kept
<1>1. Clients'
  BY DEF OInv, Clients, NewcomersAreBlank, LeaversAreClosed, CodesAreOwn, DirectoryExact, Clearing
<1>2. RequestsHold'
  BY DEF OInv, RequestsHold, CodeFree
<1>3. ClearedSoFar'
  BY DEF OInv, ClearedSoFar, QueryConn
<1> QED BY <1>1, <1>2, <1>3 DEF Kept

LEMMA AcceptKeeps ==
  ASSUME OInv, NEW c \in Conns, Accept(c)
  PROVE  Kept
<1>1. /\ life' = [life EXCEPT ![c] = "open"] /\ life[c] = "new"
      /\ UNCHANGED <<role, code, objs, registry, frame>>
      /\ role[c] = "NONE" /\ code[c] = NoCode
  BY DEF Accept, OInv, Clients, NewcomersAreBlank
<1>2. \A x \in Conns : life'[x] = IF x = c THEN "open" ELSE life[x]
  BY <1>1 DEF OInv, GInv, TypeOK
<1>3. NewcomersAreBlank' /\ LeaversAreClosed' /\ DirectoryExact'
  BY <1>1, <1>2 DEF OInv, Clients, NewcomersAreBlank, LeaversAreClosed, DirectoryExact, Clearing
<1>4. CodesAreOwn'
  BY <1>1, <1>2, CodesAssumption DEF OInv, Clients, CodesAreOwn, Known
<1>5. RequestsHold'
  BY <1>1, <1>2, CodesAssumption DEF OInv, RequestsHold, CodeFree
<1>6. ClearedSoFar'
  BY <1>1 DEF OInv, ClearedSoFar, QueryConn
<1> QED BY <1>3, <1>4, <1>5, <1>6 DEF Kept, Clients

\* A handler that only opens its frame.
LEMMA OpenKeeps ==
  ASSUME OneReactor, OInv, NEW c \in Conns, Ready(c), NEW f \in Frame, f.conn = c,
         frame' = [frame EXCEPT ![ReactorOf[c]] = f],
         UNCHANGED <<life, role, code, objs, registry>>,
         f.op \in {"join", "control", "watch", "create"},
         f.op = "join" /\ f.id \in Codes => CodeFree(f.id),
         f.op \in {"control", "watch"} =>
             /\ role[f.conn] = "IDLE" /\ role[f.peer] \in Busy
             /\ f.peer # f.conn /\ f.id \in Codes /\ registry[f.id] = f.peer,
         f.op = "create" => role[f.conn] \in Busy
  PROVE  Kept
<1>1. \A r \in Reactors : frame[r].op = "idle" /\ frame'[r] = f
  BY ReactorAssumption DEF OneReactor, Ready, OInv, GInv, TypeOK
<1>2. Clients'
  <2>1. \A x \in Conns : Clearing(x) => Clearing(x)'
    BY <1>1 DEF Clearing
  <2>2. \A x \in Conns : code[x] \in Codes => code[x] \notin Range(objs[x])
    BY DEF OInv, Clients, CodesAreOwn
  <2> QED BY <2>1, <2>2, ClientsKeep
<1>3. RequestsHold'
  BY <1>1 DEF RequestsHold, CodeFree
<1>4. ClearedSoFar'
  BY <1>1 DEF ClearedSoFar
<1> QED BY <1>2, <1>3, <1>4 DEF Kept

LEMMA JoinCheckKeeps ==
  ASSUME OneReactor, OInv, Orderly, NEW c \in Conns, NEW k \in Asked, JoinCheck(c, k)
  PROVE  Kept
<1>1. CASE frame' = frame
  BY <1>1, QuietKeeps DEF JoinCheck
<1>2. CASE frame' # frame
  <2> DEFINE f == Request("join", c, k, NoConn)
  <2>1. /\ Ready(c) /\ UNCHANGED <<life, role, code, objs, registry>>
        /\ frame' = [frame EXCEPT ![ReactorOf[c]] = f]
    BY <1>2 DEF JoinCheck
  <2>2. f \in Frame /\ f.op = "join" /\ f.conn = c /\ f.id = k
    BY AskedAssumption, RequestType DEF Request
  <2> HIDE DEF f
  <2>3. ReactorOf[c] \in Reactors /\ frame[ReactorOf[c]].op = "idle" /\ frame'[ReactorOf[c]] = f
    BY <2>1, ReactorAssumption DEF Ready, OInv, GInv, TypeOK
  <2>4. f.id \in Codes => CodeFree(f.id)
    BY <2>2, <2>3 DEF Orderly
  <2> QED BY <2>1, <2>2, <2>4, OpenKeeps
<1> QED BY <1>1, <1>2

LEMMA ObtainCheckKeeps ==
  ASSUME OneReactor, OInv, NEW c \in Conns, NEW k \in Asked, ObtainCheck(c, k)
  PROVE  Kept
<1>1. CASE frame' = frame
  BY <1>1, QuietKeeps DEF ObtainCheck
<1>2. CASE frame' # frame
  <2> DEFINE o == QueryConn(k)
             branch == ObtainBranch(c, o)
             f == Request(branch, c, k, o)
  <2>1. /\ Ready(c) /\ UNCHANGED <<life, role, code, objs, registry>>
        /\ frame' = [frame EXCEPT ![ReactorOf[c]] = f]
        /\ branch # "error"
    BY <1>2 DEF ObtainCheck
  <2>2. branch \in {"control", "watch"} /\ o # NoConn /\ o # c /\ role[c] = "IDLE" /\ role[o] \in Busy
    BY <2>1 DEF ObtainBranch, Busy
  <2>3. o \in Conns /\ k \in Codes /\ registry[k] = o
    BY <2>2, QueryType DEF OInv, GInv
  <2> HIDE DEF o, branch
  <2>4. f \in Frame /\ f.op = branch /\ f.conn = c /\ f.id = k /\ f.peer = o
    BY <2>2, <2>3, RequestType DEF Request, Ids
  <2> HIDE DEF f
  <2> QED BY <2>1, <2>2, <2>3, <2>4, OpenKeeps
<1> QED BY <1>1, <1>2

LEMMA CreateStreamKeeps ==
  ASSUME OneReactor, OInv, NEW c \in Conns, NEW hasAddr \in BOOLEAN, CreateStream(c, hasAddr)
  PROVE  Kept
<1>1. CASE frame' = frame
  BY <1>1, QuietKeeps DEF CreateStream
<1>2. CASE frame' # frame
  <2> DEFINE f == Loop("create", c)
  <2>1. /\ Ready(c) /\ UNCHANGED <<life, role, code, objs, registry>>
        /\ frame' = [frame EXCEPT ![ReactorOf[c]] = f]
        /\ objs[c] # <<>>
    BY <1>2 DEF CreateStream
  <2>2. f \in Frame /\ f.op = "create" /\ f.conn = c
    BY LoopType DEF OInv, GInv
  <2> HIDE DEF f
  <2>3. ~Clearing(c)
    BY <2>1, ReactorAssumption DEF OneReactor, Ready, Clearing
  <2>4. role[c] \in Busy
    BY <2>1, <2>3 DEF OInv, GInv, TypeOK, Roles, Busy, Clients, NewcomersAreBlank, LeaversAreClosed
  <2> QED BY <2>1, <2>2, <2>4, OpenKeeps
<1> QED BY <1>1, <1>2

LEMMA JoinAddKeeps ==
  ASSUME OneReactor, OInv, NEW r \in Reactors, JoinAdd(r)
  PROVE  Kept
<1> DEFINE f == frame[r]
           c == f.conn
<1>1. /\ c \in Conns /\ f.id \in Ids /\ f.op = "join"
      /\ life[c] = "open" /\ role[c] = "NONE" /\ code[c] = NoCode /\ objs[c] = <<>>
      /\ f.id \in Codes => registry[f.id] = NoConn /\ CodeFree(f.id)
  BY DEF JoinAdd, OInv, GInv, TypeOK, Frame, FramesInv, JoinsAreFree, RequestsHold, Clients, NewcomersAreBlank
<1>2. /\ UNCHANGED <<life, objs>>
      /\ \A x \in Conns : code'[x] = IF x = c THEN f.id ELSE code[x]
      /\ \A x \in Conns : role'[x] = IF x = c THEN "IDLE" ELSE role[x]
      /\ \A k \in Codes : registry'[k] = IF k = f.id THEN c ELSE registry[k]
      /\ \A x \in Reactors : frame'[x].op = "idle"
  BY <1>1, IdleFrame DEF JoinAdd, AddConn, OInv, GInv, TypeOK, OneReactor
<1>3. \A x \in Conns : ~Clearing(x) /\ ~Clearing(x)'
  BY <1>1, <1>2 DEF OneReactor, Clearing
<1> HIDE DEF f, c
<1>4. NewcomersAreBlank'
  BY <1>1, <1>2 DEF OInv, Clients, NewcomersAreBlank
<1>5. LeaversAreClosed'
  BY <1>1, <1>2, <1>3 DEF OInv, Clients, LeaversAreClosed
<1>6. CodesAreOwn'
  <2>1. Range(objs[c]) = {}
    BY <1>1 DEF Range
  <2> QED BY <1>1, <1>2, <2>1 DEF OInv, Clients, CodesAreOwn, CodeFree, Known
<1>7. DirectoryExact'
  <2> SUFFICES ASSUME NEW x \in Conns, x # c, role[x] \in Busy, code[x] \in Codes PROVE code[x] # f.id
    BY <1>2 DEF OInv, Clients, DirectoryExact, Busy
  <2> QED BY <1>1, BusyIsOpen DEF CodeFree
<1> QED BY <1>2, <1>4, <1>5, <1>6, <1>7, NoFrames DEF Kept, Clients

LEMMA ObtainLinkKeeps ==
  ASSUME OneReactor, OInv, NEW r \in Reactors, ObtainLink(r)
  PROVE  /\ Kept /\ registry' = registry
<1> DEFINE f == frame[r]
           c == f.conn
           o == f.peer
           s == [objs EXCEPT ![c] = AddClient(objs[c], f.id)]
<1>1. /\ c \in Conns /\ o \in Conns /\ f.op \in {"control", "watch"}
      /\ role[c] = "IDLE" /\ role[o] \in Busy
      /\ o # c /\ f.id \in Codes /\ registry[f.id] = o /\ code[c] \in Ids
  BY DEF ObtainLink, OInv, GInv, TypeOK, FramesInv, RequestsHold
<1>2. /\ \A x \in Conns : role'[x] = IF x = c THEN "PULLER" ELSE role[x]
      /\ UNCHANGED code
      /\ \A x \in Reactors : frame'[x].op = "idle"
  BY <1>1, IdleFrame DEF ObtainLink, Settle, OInv, GInv, TypeOK, OneReactor
<1>3. registry' = registry /\ \A x \in Conns : life'[x] = life[x] \/ (life[x] = "closed" /\ life'[x] = "gone")
  <2>1. PICK targets, frames : Settle(life, targets, frames, registry)
    BY DEF ObtainLink
  <2>2. registry \in [Codes -> Conns \cup {NoConn}] /\ \A k \in Codes : registry[k] \in {registry[k], NoConn}
    BY DEF OInv, GInv, TypeOK
  <2>3. registry' = registry
    BY <2>1, <2>2, SettleKeepsOthers
  <2> QED BY <2>1, <2>3 DEF Settle
<1>4. code[o] = f.id /\ code[c] # f.id
  <2>1. code[o] = f.id
    BY <1>1, ConnsAssumption DEF OInv, GInv, RegisteredAreOpen
  <2>2. code[c] \in Codes => registry[code[c]] = c
    BY <1>1 DEF OInv, Clients, DirectoryExact, Busy
  <2> QED BY <1>1, <2>1, <2>2
<1>5. /\ \A x \in Conns : code[x] \in Codes => code[x] \notin Range(objs'[x])
      /\ \A x \in Conns : x \notin {c, o} => objs'[x] = objs[x]
  <2>1. objs[c] \in Seq(Ids) /\ Distinct(objs[c]) /\ objs[o] \in Seq(Ids) /\ Distinct(objs[o]) /\ f.id \in Ids
    BY <1>1 DEF OInv, GInv, TypeOK, DistinctPartners, Distinct, Ids
  <2>2. /\ Range(AddClient(objs[c], f.id)) = Range(objs[c]) \cup {f.id}
        /\ Range(AddClient(objs[o], code[c])) = Range(objs[o]) \cup {code[c]}
    BY <1>1, <2>1, AddDistinct
  <2>3. objs' = [s EXCEPT ![o] = AddClient(s[o], code[c])]
    BY DEF ObtainLink
  <2>4. \A x \in Conns : objs'[x] = IF x = c THEN AddClient(objs[c], f.id)
                                    ELSE IF x = o THEN AddClient(objs[o], code[c]) ELSE objs[x]
    BY <1>1, <2>3 DEF OInv, GInv, TypeOK
  <2> HIDE DEF s, f
  <2> QED BY <1>4, <2>2, <2>4 DEF OInv, Clients, CodesAreOwn
<1> HIDE DEF f
<1>6. \A x \in Conns : role[x] \notin Busy => objs'[x] = objs[x]
  BY <1>1, <1>5 DEF Busy
<1>7. \A x \in Conns : ~Clearing(x)
  BY <1>1 DEF OneReactor, Clearing, f
<1>8. Clients'
  <2>1. \A x \in Conns : role'[x] = role[x] \/ (role[x] \in Busy /\ role'[x] \in Busy)
    BY <1>1, <1>2 DEF Busy
  <2> QED BY <1>2, <1>3, <1>5, <1>6, <1>7, <2>1, ClientsKeep
<1> QED BY <1>2, <1>3, <1>8, NoFrames DEF Kept

\* A DoCreateStream changes only clients that are in.
LEMMA CreateStepEffect ==
  ASSUME OneReactor, OInv, NEW r \in Reactors, CreateStep(r)
  PROVE  /\ frame[r].conn \in Conns
         /\ role'[frame[r].conn] \in Busy
         /\ \A x \in Conns : role'[x] = role[x] \/ (role[x] \in Busy /\ role'[x] \in Busy)
         /\ \A x \in Conns : objs[x] = <<>> => objs'[x] = <<>>
         /\ \A x \in Conns : Range(objs'[x]) \subseteq Range(objs[x])
<1> DEFINE c == frame[r].conn
<1>1. frame[r].op = "create" /\ c \in Conns /\ role[c] \in Busy
  BY DEF CreateStep, OInv, GInv, FramesInv, RequestsHold
<1>2. PICK k : CreateFor(c, k, QueryConn(k))
  BY DEF CreateStep
<1> DEFINE o == QueryConn(k)
<1>3. o # NoConn => o \in Conns /\ role[o] \in Busy
  BY <1>1, FoundIsBusy
<1> HIDE DEF o
<1>4. CASE objs' = objs /\ (role' = [role EXCEPT ![c] = "PUSHER"] \/ role' = [role EXCEPT ![o] = "IDLE"])
           /\ o # NoConn
  BY <1>1, <1>3, <1>4 DEF Busy, OInv, GInv, TypeOK
<1>5. CASE \E j : RemoveClient(c, j)
  <2>1. PICK j : RemoveClient(c, j)
    BY <1>5
  <2>2. objs' = [objs EXCEPT ![c] = Without(objs[c], j)]
    BY <2>1 DEF RemoveClient
  <2>3. \A x \in Conns : role'[x] = IF x = c /\ objs[c] # <<>> /\ Without(objs[c], j) = <<>> THEN "IDLE" ELSE role[x]
    BY <2>1 DEF RemoveClient, OInv, GInv, TypeOK
  <2> QED BY <1>1, <2>2, <2>3, RemovalShrinks DEF Busy
<1> QED BY <1>2, <1>4, <1>5 DEF CreateFor, o

LEMMA CreateStepKeeps ==
  ASSUME OneReactor, OInv, NEW r \in Reactors, CreateStep(r)
  PROVE  Kept
<1>1. /\ UNCHANGED <<life, code, registry>> /\ frame[r].op = "create" /\ frame[r] \in Frame
      /\ frame' = [frame EXCEPT ![r] = NextIteration(frame[r])]
  BY DEF CreateStep, OInv, GInv, TypeOK
<1>2. \A x \in Reactors :
        /\ frame[x].op = "create"
        /\ frame'[x] = Idle \/ (frame'[x].op = "create" /\ frame'[x].conn = frame[r].conn)
  BY <1>1, NextIterationType DEF OneReactor, OInv, GInv, TypeOK
<1>3. Clients'
  <2>1. \A x \in Conns : ~Clearing(x)
    BY <1>2 DEF Clearing
  <2>2. \A x \in Conns : code[x] \in Codes => code[x] \notin Range(objs[x])
    BY DEF OInv, Clients, CodesAreOwn
  <2> QED BY <1>1, <2>1, <2>2, CreateStepEffect, ClientsKeep
<1>4. RequestsHold'
  BY <1>2, IdleFrame, CreateStepEffect DEF RequestsHold
<1>5. ClearedSoFar'
  BY <1>2, IdleFrame DEF ClearedSoFar
<1> QED BY <1>3, <1>4, <1>5 DEF Kept

\* One iteration of Clear: it takes the client out of a partner that is in, and of no other.
LEMMA ClearStepEffect ==
  ASSUME OneReactor, OInv, NEW r \in Reactors, ClearStep(r)
  PROVE  LET c == frame[r].conn
             i == frame[r].i
         IN  /\ c \in Conns /\ role[c] = "CLOSE"
             /\ role'[c] = "CLOSE" /\ objs'[c] = objs[c]
             /\ \A x \in Conns : role'[x] = role[x] \/ (role[x] \in Busy /\ role'[x] \in Busy)
             /\ \A x \in Conns : objs[x] = <<>> => objs'[x] = <<>>
             /\ \A x \in Conns : Range(objs'[x]) \subseteq Range(objs[x])
             /\ i \in DOMAIN objs[c] /\ QueryConn(objs[c][i]) # NoConn =>
                  code[c] \notin Range(objs'[QueryConn(objs[c][i])])
<1> DEFINE c == frame[r].conn
           i == frame[r].i
<1>1. frame[r].op \in {"clear", "close"} /\ c \in Conns /\ role[c] = "CLOSE"
  BY DEF ClearStep, OInv, GInv, FramesInv, ClearedSoFar
<1>2. PICK k \in Slot(objs[c], i) :
        \/ QueryConn(k) = NoConn /\ UNCHANGED <<objs, role>>
        \/ QueryConn(k) # NoConn /\ RemoveClient(QueryConn(k), code[c])
  BY DEF ClearStep
<1>3. k = IF i \in DOMAIN objs[c] THEN objs[c][i] ELSE NoCode
  BY DEF Slot
<1> DEFINE o == QueryConn(k)
<1>4. CASE o = NoConn
  BY <1>1, <1>2, <1>3, <1>4
<1>5. CASE o # NoConn
  <2>1. o \in Conns /\ k \in Codes /\ registry[k] = o
    BY <1>5, QueryType DEF OInv, GInv
  <2>2. i \in DOMAIN objs[c] /\ k = objs[c][i] /\ k \in Range(objs[c])
    BY <1>3, <2>1, CodesAssumption DEF Range
  <2>3. code[o] = k
    BY <2>1, ConnsAssumption DEF OInv, GInv, RegisteredAreOpen
  <2>4. o # c
    BY <2>1, <2>2, <2>3 DEF OInv, Clients, CodesAreOwn
  <2>5. role[o] \in Busy
    BY <1>5, <2>4, FoundIsBusy
  <2>6. RemoveClient(o, code[c])
    BY <1>2, <1>5
  <2> HIDE DEF o
  <2>7. objs' = [objs EXCEPT ![o] = Without(objs[o], code[c])]
    BY <2>6 DEF RemoveClient
  <2>8. /\ \A x \in Conns : Range(objs'[x]) \subseteq Range(objs[x])
        /\ \A x \in Conns : objs[x] = <<>> => objs'[x] = <<>>
        /\ code[c] \notin Range(objs'[o])
    BY <2>1, <2>7, RemovalShrinks
  <2>9. objs'[c] = objs[c]
    BY <1>1, <2>4, <2>7 DEF OInv, GInv, TypeOK
  <2>10. \A x \in Conns : role'[x] = IF x = o /\ objs[o] # <<>> /\ Without(objs[o], code[c]) = <<>>
                                     THEN "IDLE" ELSE role[x]
    BY <2>6 DEF RemoveClient, OInv, GInv, TypeOK
  <2> QED BY <1>1, <2>1, <2>2, <2>4, <2>5, <2>8, <2>9, <2>10 DEF o, Busy
<1> QED BY <1>4, <1>5

LEMMA ClearStepKeeps ==
  ASSUME OneReactor, OInv, NEW r \in Reactors, ClearStep(r)
  PROVE  Kept
<1> DEFINE c == frame[r].conn
           i == frame[r].i
<1>1. /\ UNCHANGED <<life, code, registry>>
      /\ c \in Conns /\ i \in Nat /\ i >= 1 /\ frame[r].end = Len(objs[c])
      /\ frame[r].op \in {"clear", "close"}
      /\ \A j \in DOMAIN objs[c] :
               j < i /\ QueryConn(objs[c][j]) # NoConn => code[c] \notin Range(objs[QueryConn(objs[c][j])])
  BY DEF ClearStep, OInv, GInv, TypeOK, Frame, FramesInv, ClearedSoFar
<1>2. \A x \in Reactors :
        /\ x = r
        /\ frame'[x].op = frame[x].op /\ frame'[x].conn = c /\ frame'[x].end = frame[x].end
        /\ frame'[x].i = i + 1
  <2>1. frame' = [frame EXCEPT ![r] = [frame[r] EXCEPT !.i = i + 1]]
    BY DEF ClearStep
  <2>2. frame'[r] = [frame[r] EXCEPT !.i = i + 1] /\ frame[r] \in Frame
    BY <2>1 DEF OInv, GInv, TypeOK
  <2> QED BY <2>2 DEF OneReactor, Frame
<1>3. Clients'
  <2>1. \A x \in Conns : Clearing(x) => Clearing(x)'
    BY <1>2 DEF Clearing
  <2>2. \A x \in Conns : code[x] \in Codes => code[x] \notin Range(objs[x])
    BY DEF OInv, Clients, CodesAreOwn
  <2> QED BY <1>1, <2>1, <2>2, ClearStepEffect, ClientsKeep
<1>4. RequestsHold'
  BY <1>1, <1>2 DEF RequestsHold
<1>5. ClearedSoFar'
  <2>1. objs'[c] = objs[c] /\ role'[c] = "CLOSE"
    BY ClearStepEffect
  <2>2. ASSUME NEW j \in DOMAIN objs[c], j < i + 1, QueryConn(objs[c][j]) # NoConn
        PROVE  code[c] \notin Range(objs'[QueryConn(objs[c][j])])
    <3>1. CASE j < i
      <4>1. QueryConn(objs[c][j]) \in Conns
        BY <2>2, QueryType DEF OInv, GInv
      <4> QED BY <1>1, <2>2, <3>1, <4>1, ClearStepEffect
    <3>2. CASE j = i
      BY <2>2, <3>2, ClearStepEffect
    <3>3. j \in Nat
      BY <1>1 DEF OInv, GInv, TypeOK
    <3> QED BY <1>1, <2>2, <3>1, <3>2, <3>3
  <2>3. \A k : QueryConn(k)' = QueryConn(k)
    BY <1>1 DEF QueryConn
  <2> QED BY <1>1, <1>2, <2>1, <2>2, <2>3 DEF ClearedSoFar
<1> QED BY <1>3, <1>4, <1>5 DEF Kept

LEMMA StartClearKeeps ==
  ASSUME OneReactor, OInv, NEW c \in Conns, Ready(c),
         \/ StartClear(c, "close", [life EXCEPT ![c] = "closing"])
         \/ StartClear(c, "clear", life)
  PROVE  /\ Kept /\ registry' = registry
<1>0. PICK op \in {"clear", "close"}, lives \in {life, [life EXCEPT ![c] = "closing"]} :
        /\ StartClear(c, op, lives)
        /\ lives = IF op = "close" THEN [life EXCEPT ![c] = "closing"] ELSE life
  OBVIOUS
<1>1. Loop(op, c).op = op /\ Loop(op, c).conn = c /\ Loop(op, c).i = 1 /\ Loop(op, c).end = Len(objs[c])
  BY DEF Loop
<1>2. \A x \in Reactors : frame[x].op = "idle"
  BY ReactorAssumption DEF OneReactor, Ready
<1>3. \A x \in Conns : lives[x] = IF x = c /\ op = "close" THEN "closing" ELSE life[x]
  BY <1>0 DEF OInv, GInv, TypeOK
<1>4. life[c] = "open"
  BY DEF Ready
<1>5. /\ \A x \in Conns : role'[x] = IF x = c THEN "CLOSE" ELSE role[x]
      /\ UNCHANGED <<code, objs>>
      /\ \A x \in Conns : life'[x] = lives[x] \/ (lives[x] = "closed" /\ life'[x] = "gone")
      /\ \A x \in Reactors : frame'[x] = Loop(op, c)
  <2>1. /\ role' = [role EXCEPT ![c] = "CLOSE"] /\ UNCHANGED <<code, objs>>
        /\ Settle(lives, [target EXCEPT ![c] = NoConn], [frame EXCEPT ![ReactorOf[c]] = Loop(op, c)], registry)
    BY <1>0 DEF StartClear
  <2>2. frame' = [frame EXCEPT ![ReactorOf[c]] = Loop(op, c)]
    BY <2>1 DEF Settle
  <2>3. \A x \in Reactors : frame'[x] = Loop(op, c)
    BY <2>2, ReactorAssumption DEF OneReactor, OInv, GInv, TypeOK
  <2>4. \A x \in Conns : life'[x] = lives[x] \/ (lives[x] = "closed" /\ life'[x] = "gone")
    BY <2>1 DEF Settle
  <2> QED BY <2>1, <2>3, <2>4 DEF OInv, GInv, TypeOK
<1>6. registry' = registry
  <2>1. Settle(lives, [target EXCEPT ![c] = NoConn], [frame EXCEPT ![ReactorOf[c]] = Loop(op, c)], registry)
    BY <1>0 DEF StartClear
  <2>2. registry \in [Codes -> Conns \cup {NoConn}] /\ \A k \in Codes : registry[k] \in {registry[k], NoConn}
    BY DEF OInv, GInv, TypeOK
  <2>3. \A o \in Conns : lives[o] = "closed" => life[o] = "closed"
    BY <1>3
  <2> QED BY <2>1, <2>2, <2>3, SettleKeepsOthers
<1>7. ReactorOf[c] \in Reactors
  BY ReactorAssumption
<1>8. NewcomersAreBlank'
  BY <1>3, <1>4, <1>5 DEF OInv, Clients, NewcomersAreBlank
<1>9. LeaversAreClosed'
  <2>1. Clearing(c)' /\ \A x \in Conns : ~Clearing(x)
    BY <1>1, <1>2, <1>5, <1>7 DEF Clearing
  <2> QED BY <1>3, <1>4, <1>5, <2>1 DEF OInv, Clients, LeaversAreClosed
<1>10. CodesAreOwn'
  BY <1>3, <1>4, <1>5 DEF OInv, Clients, CodesAreOwn, Known
<1>11. DirectoryExact'
  BY <1>5, <1>6 DEF OInv, Clients, DirectoryExact, Busy
<1>12. RequestsHold' /\ ClearedSoFar'
  <2>1. \A j \in DOMAIN objs[c] : ~(j < 1)
    BY DEF OInv, GInv, TypeOK
  <2> QED BY <1>1, <1>5, <2>1 DEF RequestsHold, ClearedSoFar
<1> QED BY <1>6, <1>8, <1>9, <1>10, <1>11, <1>12 DEF Kept, Clients

\* The end of Clear gives up the code of the client that leaves, and takes nobody else's.
LEMMA ClearEndEffect ==
  ASSUME OInv, NEW r \in Reactors, ClearEnd(r)
  PROVE  LET c == frame[r].conn
         IN  /\ c \in Conns /\ life[c] \in {"open", "closing"} /\ role[c] = "CLOSE"
             /\ registry' = RemoveConn(code[c])
             /\ \A x \in Conns : \/ life'[x] = life[x]
                                 \/ life[x] = "closed" /\ life'[x] = "gone"
                                 \/ x = c /\ life'[x] \in {"closed", "gone"}
<1> DEFINE c == frame[r].conn
           lives == IF frame[r].op = "close" THEN [life EXCEPT ![c] = "closed"] ELSE life
<1>1. c \in Conns /\ life[c] \in {"open", "closing"} /\ role[c] = "CLOSE"
  BY DEF ClearEnd, OInv, GInv, FramesInv, ClearedSoFar
<1>2. Settle(lives, target, [frame EXCEPT ![r] = Idle], RemoveConn(code[c]))
  BY DEF ClearEnd
<1>3. \A x \in Conns : lives[x] = life[x] \/ (x = c /\ lives[x] = "closed")
  BY DEF OInv, GInv, TypeOK
<1> HIDE DEF lives
<1>4. registry' = RemoveConn(code[c])
  <2>1. /\ RemoveConn(code[c]) \in [Codes -> Conns \cup {NoConn}]
        /\ \A k \in Codes : RemoveConn(code[c])[k] \in {registry[k], NoConn}
        /\ code[c] \in Codes => RemoveConn(code[c])[code[c]] = NoConn
    BY DEF RemoveConn, OInv, GInv, TypeOK
  <2>2. \A o \in Conns : lives[o] = "closed" =>
           life[o] = "closed" \/ (code[o] \in Codes => RemoveConn(code[c])[code[o]] = NoConn)
    BY <1>3, <2>1
  <2> QED BY <1>2, <2>1, <2>2, SettleKeepsOthers
<1>5. \A x \in Conns : life'[x] = lives[x] \/ (lives[x] = "closed" /\ life'[x] = "gone")
  BY <1>2 DEF Settle
<1> QED BY <1>1, <1>3, <1>4, <1>5

LEMMA ClearEndKeeps ==
  ASSUME OneReactor, OInv, NEW r \in Reactors, ClearEnd(r)
  PROVE  Kept
<1> DEFINE c == frame[r].conn
<1>1. /\ c \in Conns /\ life[c] \in {"open", "closing"} /\ role[c] = "CLOSE"
      /\ \A k \in Codes : registry'[k] = IF k = code[c] THEN NoConn ELSE registry[k]
      /\ \A x \in Conns : \/ life'[x] = life[x]
                          \/ life[x] = "closed" /\ life'[x] = "gone"
                          \/ x = c /\ life'[x] \in {"closed", "gone"}
  BY ClearEndEffect DEF RemoveConn
<1>2. /\ \A x \in Conns : objs'[x] = IF x = c THEN <<>> ELSE objs[x]
      /\ UNCHANGED <<role, code>>
      /\ \A x \in Reactors : frame'[x].op = "idle"
      /\ frame[r].op \in {"clear", "close"}
  BY <1>1, IdleFrame DEF ClearEnd, Settle, OneReactor, OInv, GInv, TypeOK
<1>3. \A x \in Conns : x # c => ~Clearing(x)
  BY DEF OneReactor, Clearing
<1> HIDE DEF c
<1>4. NewcomersAreBlank'
  BY <1>1, <1>2 DEF OInv, Clients, NewcomersAreBlank
<1>5. LeaversAreClosed'
  BY <1>1, <1>2, <1>3 DEF OInv, Clients, LeaversAreClosed
<1>6. CodesAreOwn'
  <2>1. \A x \in Conns : life'[x] \in Known => life[x] \in Known
    BY <1>1 DEF Known
  <2>2. Range(<<>>) = {}
    BY DEF Range
  <2> QED BY <1>2, <2>1, <2>2 DEF OInv, Clients, CodesAreOwn
<1>7. DirectoryExact'
  <2> SUFFICES ASSUME NEW x \in Conns, role[x] \in Busy, code[x] \in Codes PROVE code[x] # code[c]
    BY <1>1, <1>2 DEF OInv, Clients, DirectoryExact, Busy
  <2>1. life[x] \in Known /\ life[c] \in Known /\ x # c
    BY <1>1, BusyIsOpen DEF Known, Busy
  <2> QED BY <1>1, <2>1 DEF OInv, Clients, CodesAreOwn
<1> QED BY <1>2, <1>4, <1>5, <1>6, <1>7, NoFrames DEF Kept, Clients

LEMMA StepKeeps ==
  ASSUME OneReactor, OInv, [Next /\ Orderly]_vars
  PROVE  OInv'
<1>1. [Next]_vars
  OBVIOUS
<1>2. GInv' /\ DistinctPartners' /\ JoinsAreFree'
  BY <1>1, NextGInv, DistinctStep, JoinsStayFree DEF OInv
<1>3. ASSUME UNCHANGED vars PROVE Kept
  BY <1>3, QuietKeeps DEF vars
<1>4. ASSUME Next, Orderly PROVE Kept
  <2>1. ASSUME NEW c \in Conns, Disconnect(c) \/ DeleteStream(c) PROVE Kept
    BY <2>1, StartClearKeeps DEF Disconnect, DeleteStream
  <2>2. ASSUME NEW c \in Conns, Forward(c) PROVE Kept
    BY <2>2, QuietKeeps DEF Forward
  <2>3. ASSUME NEW c \in Conns, NEW k \in Asked, JoinCheck(c, k) \/ ObtainCheck(c, k) PROVE Kept
    BY <1>4, <2>3, JoinCheckKeeps, ObtainCheckKeeps
  <2>4. ASSUME NEW r \in Reactors, JoinAdd(r) \/ ObtainLink(r) \/ CreateStep(r) \/ ClearStep(r) \/ ClearEnd(r)
        PROVE  Kept
    BY <2>4, JoinAddKeeps, ObtainLinkKeeps, CreateStepKeeps, ClearStepKeeps, ClearEndKeeps
  <2> QED BY <1>4, <2>1, <2>2, <2>3, <2>4, AcceptKeeps, CreateStreamKeeps DEF Next
<1> QED BY <1>2, <1>3, <1>4 DEF OInv, Kept

LEMMA InitOInv == Init => OInv
<1> SUFFICES ASSUME Init PROVE OInv
  OBVIOUS
<1>1. \A c \in Conns : life[c] = "new" /\ role[c] = "NONE" /\ code[c] = NoCode /\ objs[c] = <<>>
  BY DEF Init
<1>2. \A r \in Reactors : frame[r].op = "idle"
  BY IdleFrame DEF Init
<1>3. Clients
  BY <1>1, CodesAssumption
     DEF Clients, NewcomersAreBlank, LeaversAreClosed, CodesAreOwn, DirectoryExact, Known
<1>4. DistinctPartners /\ JoinsAreFree /\ RequestsHold /\ ClearedSoFar
  BY <1>1, <1>2 DEF DistinctPartners, JoinsAreFree, RequestsHold, ClearedSoFar
<1> QED BY <1>3, <1>4, InitGInv DEF OInv

\* The inductive invariant of clients that join with a free code, on one reactor.
THEOREM OrderlyInvariant == OneReactor => (OrderlySpec => []OInv)
<1> SUFFICES ASSUME OneReactor PROVE OrderlySpec => []OInv
  OBVIOUS
<1>1. OInv /\ [Next /\ Orderly]_vars => OInv'
  BY StepKeeps
<1> QED BY <1>1, InitOInv, PTL DEF OrderlySpec

-----------------------------------------------------------------------------
(* What every step does to the roles, the loops and the manager *)

LEMMA RolesStep ==
  ASSUME OneReactor, OInv, Next, NEW x \in Conns
  PROVE  \/ role'[x] = role[x]
         \/ role[x] \in Busy /\ role'[x] \in Busy
         \/ role[x] \in Busy \cup {"NONE", "CLOSE"} /\ role'[x] = "CLOSE"
         \/ \E r \in Reactors : JoinAdd(r) /\ frame[r].conn = x
<1>1. ASSUME NEW c \in Conns, Accept(c) \/ Disconnect(c) \/ DeleteStream(c) \/ Forward(c)
      PROVE  role' = role \/ role' = [role EXCEPT ![c] = "CLOSE"]
  BY <1>1 DEF Accept, Disconnect, DeleteStream, StartClear, Forward
<1>2. ASSUME NEW c \in Conns, NEW k \in Asked, JoinCheck(c, k) \/ ObtainCheck(c, k) PROVE role' = role
  BY <1>2 DEF JoinCheck, ObtainCheck
<1>3. ASSUME NEW c \in Conns, NEW hasAddr \in BOOLEAN, CreateStream(c, hasAddr) PROVE role' = role
  BY <1>3 DEF CreateStream
<1>4. ASSUME NEW r \in Reactors, JoinAdd(r) PROVE role' = [role EXCEPT ![frame[r].conn] = "IDLE"]
  BY <1>4 DEF JoinAdd
<1>5. ASSUME NEW r \in Reactors, ObtainLink(r) PROVE role' = [role EXCEPT ![frame[r].conn] = "PULLER"]
                                                 /\ role[frame[r].conn] = "IDLE"
  BY <1>5 DEF ObtainLink, OInv, RequestsHold
<1>6. ASSUME NEW r \in Reactors, ClearEnd(r) PROVE role' = role
  BY <1>6 DEF ClearEnd
<1>7. role[x] \in Busy \cup {"NONE", "CLOSE"}
  BY DEF OInv, GInv, TypeOK, Roles, Busy
<1>8. role \in [Conns -> Roles]
  BY DEF OInv, GInv, TypeOK
<1>9. CASE \E c \in Conns : Accept(c) \/ Disconnect(c) \/ DeleteStream(c) \/ Forward(c)
  BY <1>1, <1>7, <1>8, <1>9
<1>10. CASE \E r \in Reactors : JoinAdd(r)
  BY <1>4, <1>8, <1>10
<1>11. CASE \E r \in Reactors : ObtainLink(r)
  BY <1>5, <1>8, <1>11 DEF Busy
<1>12. CASE \E r \in Reactors : CreateStep(r) \/ ClearStep(r)
  BY <1>12, CreateStepEffect, ClearStepEffect
<1> QED BY <1>2, <1>3, <1>6, <1>9, <1>10, <1>11, <1>12 DEF Next

\* CLOSE is final: DoCreateStream and Clear, which make other clients IDLE, reach only those that are in.
THEOREM ClosedStaysClosed == OneReactor => (OrderlySpec => ClosedIsFinal)
<1> SUFFICES ASSUME OneReactor PROVE OrderlySpec => ClosedIsFinal
  OBVIOUS
<1>1. OInv /\ [Next /\ Orderly]_vars => [\A c \in Conns : role[c] = "CLOSE" => role'[c] = "CLOSE"]_vars
  <2> SUFFICES ASSUME OInv, Next, NEW c \in Conns, role[c] = "CLOSE" PROVE role'[c] = "CLOSE"
    OBVIOUS
  <2>1. ASSUME NEW r \in Reactors, JoinAdd(r), frame[r].conn = c PROVE FALSE
    BY <2>1 DEF JoinAdd, OInv, GInv, FramesInv
  <2> QED BY <2>1, RolesStep DEF Busy
<1> QED BY <1>1, OrderlyInvariant, PTL DEF OrderlySpec, ClosedIsFinal

\* When a client's Clear ends, every registered partner it listed has dropped it.
THEOREM LeavingReachesAll == OneReactor => (OrderlySpec => LeaveReachesAll)
<1> SUFFICES ASSUME OneReactor PROVE OrderlySpec => LeaveReachesAll
  OBVIOUS
<1> DEFINE Reached ==
      \A r \in Reactors :
        LET c == frame[r].conn
        IN  frame[r].op \in {"clear", "close"} /\ frame'[r].op = "idle" =>
              \A k \in Range(objs[c]) :
                QueryConn(k) # NoConn => code[c] \notin Range(objs[QueryConn(k)])
<1>1. OInv /\ [Next /\ Orderly]_vars => [Reached]_vars
  <2> SUFFICES ASSUME OInv, Next, NEW r \in Reactors,
                      frame[r].op \in {"clear", "close"}, frame'[r].op = "idle",
                      NEW k \in Range(objs[frame[r].conn]), QueryConn(k) # NoConn
               PROVE  code[frame[r].conn] \notin Range(objs[QueryConn(k)])
    OBVIOUS
  <2> DEFINE c == frame[r].conn
  <2>1. ~\E x \in Conns : Accept(x)
    BY DEF Accept
  <2>2. ~ClearStep(r)
    BY DEF ClearStep, OInv, GInv, TypeOK, Frame
  <2>3. ClearEnd(r)
    BY <2>1, <2>2, HandlerGoesOn DEF JoinAdd, ObtainLink, CreateStep
  <2>4. c \in Conns /\ frame[r].i > Len(objs[c]) /\ frame[r].i \in Nat /\ objs[c] \in Seq(Ids)
    BY <2>3 DEF ClearEnd, OInv, GInv, TypeOK, Frame, FramesInv, ClearedSoFar
  <2>5. PICK j \in DOMAIN objs[c] : objs[c][j] = k
    BY DEF Range
  <2>6. j < frame[r].i
    BY <2>4
  <2> QED BY <2>5, <2>6 DEF OInv, ClearedSoFar
<1> QED BY <1>1, OrderlyInvariant, PTL DEF OrderlySpec, LeaveReachesAll

-----------------------------------------------------------------------------
(* The server implements the directory, on any number of reactors *)

\* An object that has not joined carries no code.
Newcomers == \A c \in Conns : role[c] = "NONE" => code[c] = NoCode

LEMMA NewcomersStep ==
  ASSUME GInv, Newcomers, [Next]_vars
  PROVE  Newcomers'
<1> USE DEF GInv, TypeOK, Newcomers
<1>1. CASE UNCHANGED vars
  BY <1>1 DEF vars
<1>2. ASSUME NEW c \in Conns, Accept(c) \/ Disconnect(c) \/ DeleteStream(c) \/ Forward(c)
      PROVE  Newcomers'
  BY <1>2 DEF Accept, Disconnect, DeleteStream, StartClear, Forward
<1>3. ASSUME NEW c \in Conns, NEW k \in Asked, JoinCheck(c, k) \/ ObtainCheck(c, k) PROVE Newcomers'
  BY <1>3 DEF JoinCheck, ObtainCheck
<1>4. ASSUME NEW c \in Conns, NEW hasAddr \in BOOLEAN, CreateStream(c, hasAddr) PROVE Newcomers'
  BY <1>4 DEF CreateStream
<1>5. ASSUME NEW r \in Reactors, JoinAdd(r) PROVE Newcomers'
  BY <1>5 DEF JoinAdd, FramesInv
<1>6. ASSUME NEW r \in Reactors, ObtainLink(r) PROVE Newcomers'
  BY <1>6 DEF ObtainLink
<1>7. ASSUME NEW r \in Reactors, ClearEnd(r) PROVE Newcomers'
  BY <1>7 DEF ClearEnd
<1>8. ASSUME NEW r \in Reactors, CreateStep(r) \/ ClearStep(r) PROVE Newcomers'
  <2>1. code' = code /\ \A x \in Conns : role'[x] = "NONE" => role[x] = "NONE"
    <3>1. ASSUME NEW o \in Conns, NEW k, RemoveClient(o, k)
          PROVE  \A x \in Conns : role'[x] = "NONE" => role[x] = "NONE"
      BY <3>1 DEF RemoveClient
    <3>2. CASE ClearStep(r)
      BY <3>1, <3>2, QueryType DEF ClearStep
    <3>3. CASE CreateStep(r)
      <4>1. PICK k \in Slot(objs[frame[r].conn], frame[r].i) : CreateFor(frame[r].conn, k, QueryConn(k))
        BY <3>3 DEF CreateStep
      <4>2. frame[r].conn \in Conns
        BY <3>3 DEF CreateStep, FramesInv
      <4>3. QueryConn(k) # NoConn => QueryConn(k) \in Conns
        BY QueryType
      <4>4. \/ \E j : RemoveClient(frame[r].conn, j)
            \/ \E o : role' = [role EXCEPT ![o] = "IDLE"] \/ role' = [role EXCEPT ![o] = "PUSHER"]
        BY <4>1 DEF CreateFor
      <4>5. CASE \E j : RemoveClient(frame[r].conn, j)
        <5>1. PICK j : RemoveClient(frame[r].conn, j)
          BY <4>5
        <5>2. PICK o \in Conns : o = frame[r].conn
          BY <4>2
        <5> QED BY <3>1, <3>3, <5>1, <5>2 DEF CreateStep
      <4>6. CASE \E o : role' = [role EXCEPT ![o] = "IDLE"] \/ role' = [role EXCEPT ![o] = "PUSHER"]
        <5>1. PICK o : role' = [role EXCEPT ![o] = "IDLE"] \/ role' = [role EXCEPT ![o] = "PUSHER"]
          BY <4>6
        <5>2. \A x \in Conns : role'[x] \in {role[x], "IDLE", "PUSHER"}
          BY <5>1
        <5> QED BY <3>3, <5>2 DEF CreateStep
      <4> QED BY <3>3, <4>4, <4>5, <4>6 DEF CreateStep
    <3> QED BY <1>8, <3>2, <3>3 DEF CreateStep, ClearStep
  <2> QED BY <2>1
<1> QED BY <1>1, <1>2, <1>3, <1>4, <1>5, <1>6, <1>7, <1>8 DEF Next

LEMMA StandingOf ==
  ASSUME NEW c \in Conns
  PROVE  /\ Standing[c] = IF code[c] \in Codes
                           THEN IF life[c] = "gone" THEN "gone"
                                ELSE IF Clearing(c) \/ life[c] = "closed" THEN "leaving"
                                ELSE "carrying"
                         ELSE IF Joining(c) /\ frame[ReactorOf[c]].id \in Codes THEN "asking" ELSE "out"
         /\ HeldCode[c] = IF Joining(c) THEN frame[ReactorOf[c]].id ELSE code[c]
BY DEF Standing, HeldCode

\* A step of one reactor that is in no JOIN before or after.
NoJoinStep(r) ==
  /\ \A q \in Reactors \ {r} : frame'[q] = frame[q]
  /\ frame[r].op # "join" /\ frame'[r].op # "join"

LEMMA JoinsStay ==
  ASSUME GInv, NEW r \in Reactors, NoJoinStep(r), NEW c \in Conns
  PROVE  /\ Joining(c)' <=> Joining(c)
         /\ Joining(c) => frame'[ReactorOf[c]] = frame[ReactorOf[c]]
BY DEF NoJoinStep, Joining, GInv, FramesInv

\* A step that takes entries only under the codes of the clients S, which are leaving, and in which
\* the clients B begin to.
LEMMA LeavingStep ==
  ASSUME GInv, Newcomers, NEW r \in Reactors, NoJoinStep(r), code' = code,
         NEW B \in SUBSET Conns, NEW S \in SUBSET Conns,
         registry' = [k \in Codes |-> IF \E o \in S : code[o] = k THEN NoConn ELSE registry[k]],
         \A c \in S : life[c] # "gone" /\ (Clearing(c) \/ life[c] = "closed"),
         \A c \in B : /\ life[c] = "open" /\ ~Clearing(c)
                      /\ life'[c] # "gone" /\ Clearing(c)',
         \A c \in Conns \ (B \cup S) :
           /\ life'[c] # life[c] => life[c] \notin {"closed", "gone"} /\ life'[c] \notin {"closed", "gone"}
           /\ Clearing(c)' <=> Clearing(c)
  PROVE  [D!Next]_<<registry, Standing, HeldCode>>
<1> DEFINE In(T) == {c \in T : code[c] \in Codes}
<1>1. HeldCode' = HeldCode
  BY JoinsStay DEF HeldCode
<1>2. \A c \in In(B) : Standing[c] = "carrying" /\ Standing'[c] = "leaving"
  BY DEF Standing
<1>3. \A c \in In(S) : Standing[c] = "leaving" /\ Standing'[c] \in {"leaving", "carrying", "gone"}
  BY DEF Standing
<1>4. \A c \in Conns : code[c] \notin Codes => Standing'[c] = Standing[c]
  BY JoinsStay DEF Standing
<1>5. \A c \in Conns \ (B \cup S) : Standing'[c] = Standing[c]
  BY <1>4 DEF Standing
<1>6. \A c \in In(S) : HeldCode[c] = code[c]
  BY CodesAssumption DEF HeldCode, Joining, GInv, FramesInv, Newcomers
<1>7. registry' = [k \in Codes |-> IF \E c \in In(S) : HeldCode[c] = k THEN NoConn ELSE registry[k]]
  BY <1>6
<1>8. \A c \in Conns :
        Standing'[c] \in IF c \in In(B) THEN {"leaving"}
                         ELSE IF c \in In(S) THEN {"leaving", "carrying", "gone"}
                         ELSE {Standing[c]}
  BY <1>2, <1>3, <1>4, <1>5
<1>9. D!Leave(In(B), In(S))
  BY <1>1, <1>2, <1>3, <1>7, <1>8 DEF D!Leave
<1>10. In(B) \in SUBSET Conns /\ In(S) \in SUBSET Conns
  OBVIOUS
<1> QED BY <1>9, <1>10 DEF D!Next

\* The objects that Settle destroys.
Destroyed(lives) == {o \in Conns : lives[o] = "closed" /\ ~Held(o, target', frame')}

LEMMA SettleTakes ==
  ASSUME NEW lives, NEW targets, NEW frames, NEW entries, Settle(lives, targets, frames, entries)
  PROVE  /\ frame' = frames
         /\ life' = [o \in Conns |-> IF o \in Destroyed(lives) THEN "gone" ELSE lives[o]]
         /\ registry' = [k \in Codes |-> IF \E o \in Destroyed(lives) : code[o] = k THEN NoConn ELSE entries[k]]
BY DEF Settle, Destroyed

LEMMA ObtainLinkLeaves ==
  ASSUME GInv, Newcomers, NEW r \in Reactors, ObtainLink(r)
  PROVE  [D!Next]_<<registry, Standing, HeldCode>>
<1>1. PICK targets : Settle(life, targets, [frame EXCEPT ![r] = Idle], registry)
  BY DEF ObtainLink
<1>2. /\ frame' = [frame EXCEPT ![r] = Idle]
      /\ life' = [o \in Conns |-> IF o \in Destroyed(life) THEN "gone" ELSE life[o]]
      /\ registry' = [k \in Codes |-> IF \E o \in Destroyed(life) : code[o] = k THEN NoConn ELSE registry[k]]
  BY <1>1, SettleTakes
<1>3. frame[r].op \in {"control", "watch"} /\ code' = code
  BY DEF ObtainLink
<1>4. NoJoinStep(r)
  BY <1>2, <1>3, IdleFrame DEF NoJoinStep, GInv, TypeOK
<1>5. \A c \in Conns : Clearing(c)' <=> Clearing(c)
  BY <1>2, <1>3, IdleFrame DEF Clearing, GInv, TypeOK
<1>6. \A c \in Destroyed(life) : life[c] = "closed"
  BY DEF Destroyed
<1>7. \A c \in Conns \ ({} \cup Destroyed(life)) : life'[c] = life[c]
  BY <1>2
<1>8. Destroyed(life) \in SUBSET Conns /\ {} \in SUBSET Conns
  BY DEF Destroyed
<1> HIDE DEF Destroyed
<1> QED BY <1>2, <1>3, <1>4, <1>5, <1>6, <1>7, <1>8, LeavingStep

LEMMA StartClearLeaves ==
  ASSUME GInv, Newcomers, NEW c \in Conns, Ready(c),
         \/ StartClear(c, "close", [life EXCEPT ![c] = "closing"])
         \/ StartClear(c, "clear", life)
  PROVE  [D!Next]_<<registry, Standing, HeldCode>>
<1> DEFINE r == ReactorOf[c]
<1>0. PICK op \in {"clear", "close"}, lives \in [Conns -> Lives] :
        /\ StartClear(c, op, lives)
        /\ lives = IF op = "close" THEN [life EXCEPT ![c] = "closing"] ELSE life
  BY DEF GInv, TypeOK, Lives
<1> DEFINE f == Loop(op, c)
<1>1. r \in Reactors /\ frame[r].op = "idle" /\ life[c] = "open"
  BY ReactorAssumption DEF Ready
<1>2. f \in Frame /\ f.op = op /\ f.conn = c
  BY LoopType DEF GInv
<1> HIDE DEF f
<1>3. /\ Settle(lives, [target EXCEPT ![c] = NoConn], [frame EXCEPT ![r] = f], registry)
      /\ code' = code
  BY <1>0 DEF StartClear, f
<1>4. /\ frame' = [frame EXCEPT ![r] = f]
      /\ life' = [o \in Conns |-> IF o \in Destroyed(lives) THEN "gone" ELSE lives[o]]
      /\ registry' = [k \in Codes |-> IF \E o \in Destroyed(lives) : code[o] = k THEN NoConn ELSE registry[k]]
  BY <1>3, SettleTakes
<1>5. NoJoinStep(r)
  BY <1>0, <1>1, <1>2, <1>4 DEF NoJoinStep, GInv, TypeOK
<1>6. ~Clearing(c) /\ Clearing(c)'
  <2>1. ~Clearing(c)
    BY <1>1 DEF Clearing, GInv, FramesInv
  <2>2. Clearing(c)'
    BY <1>0, <1>1, <1>2, <1>4 DEF Clearing, GInv, TypeOK
  <2> QED BY <2>1, <2>2
<1>7. \A x \in Conns \ {c} : Clearing(x)' <=> Clearing(x)
  BY <1>1, <1>2, <1>4 DEF Clearing, GInv, TypeOK
<1>8. \A x \in Destroyed(lives) : life[x] = "closed" /\ x # c
  BY <1>0, <1>1 DEF Destroyed, GInv, TypeOK
<1>9. \A x \in Conns \ ({c} \cup Destroyed(lives)) : life'[x] = life[x]
  BY <1>0, <1>4 DEF GInv, TypeOK
<1>10. life'[c] # "gone"
  BY <1>0, <1>1, <1>4, <1>8 DEF GInv, TypeOK
<1>11. Destroyed(lives) \in SUBSET Conns /\ {c} \in SUBSET Conns
  BY DEF Destroyed
<1> HIDE DEF Destroyed, r
<1> QED BY <1>1, <1>3, <1>4, <1>5, <1>6, <1>7, <1>8, <1>9, <1>10, <1>11, LeavingStep

LEMMA ClearEndLeaves ==
  ASSUME GInv, Newcomers, NEW r \in Reactors, ClearEnd(r)
  PROVE  [D!Next]_<<registry, Standing, HeldCode>>
<1> DEFINE c == frame[r].conn
           lives == IF frame[r].op = "close" THEN [life EXCEPT ![c] = "closed"] ELSE life
           S == {c} \cup Destroyed(lives)
<1>1. /\ frame[r].op \in {"clear", "close"} /\ code' = code
      /\ Settle(lives, target, [frame EXCEPT ![r] = Idle], RemoveConn(code[c]))
  BY DEF ClearEnd
<1>2. c \in Conns /\ ReactorOf[c] = r /\ life[c] \in {"open", "closing"}
  BY <1>1 DEF GInv, FramesInv
<1>3. /\ frame' = [frame EXCEPT ![r] = Idle]
      /\ life' = [o \in Conns |-> IF o \in Destroyed(lives) THEN "gone" ELSE lives[o]]
      /\ registry' = [k \in Codes |-> IF \E o \in Destroyed(lives) : code[o] = k THEN NoConn
                                      ELSE RemoveConn(code[c])[k]]
  <2> HIDE DEF lives
  <2> QED BY <1>1, SettleTakes
<1>4. registry' = [k \in Codes |-> IF \E o \in S : code[o] = k THEN NoConn ELSE registry[k]]
  BY <1>3 DEF RemoveConn
<1>5. NoJoinStep(r)
  BY <1>1, <1>3, IdleFrame DEF NoJoinStep, GInv, TypeOK
<1>6. Clearing(c)
  BY <1>1 DEF Clearing
<1>7. \A x \in Conns \ {c} : Clearing(x)' <=> Clearing(x)
  BY <1>1, <1>3, IdleFrame DEF Clearing, GInv, TypeOK
<1>8. \A x \in Destroyed(lives) : x = c \/ life[x] = "closed"
  BY DEF Destroyed, GInv, TypeOK
<1>9. \A x \in Conns \ S : life'[x] = life[x]
  BY <1>2, <1>3 DEF GInv, TypeOK
<1>10. S \in SUBSET Conns /\ {} \in SUBSET Conns
  BY <1>2 DEF Destroyed
<1>11. \A x \in S : life[x] # "gone" /\ (Clearing(x) \/ life[x] = "closed")
  BY <1>2, <1>6, <1>8
<1>12. c \in S
  OBVIOUS
<1> HIDE DEF c, S, lives
<1>13. \A x \in Conns \ ({} \cup S) :
         /\ life'[x] # life[x] => life[x] \notin {"closed", "gone"} /\ life'[x] \notin {"closed", "gone"}
         /\ Clearing(x)' <=> Clearing(x)
  BY <1>7, <1>9, <1>12
<1> QED BY <1>1, <1>4, <1>5, <1>10, <1>11, <1>13, LeavingStep

LEMMA AskStep ==
  ASSUME GInv, Newcomers, NEW c \in Conns, NEW k \in Asked, JoinCheck(c, k)
  PROVE  [D!Next]_<<registry, Standing, HeldCode>>
<1>1. CASE frame' = frame
  BY <1>1 DEF JoinCheck, Standing, HeldCode, Clearing, Joining
<1>2. CASE frame' # frame
  <2> DEFINE r == ReactorOf[c]
             f == Request("join", c, k, NoConn)
  <2>1. /\ r \in Reactors /\ frame[r].op = "idle" /\ life[c] = "open" /\ k \in Ids
        /\ MayJoin(c, k) /\ frame' = [frame EXCEPT ![r] = f]
        /\ UNCHANGED <<life, code, registry>>
    BY <1>2, ReactorAssumption, AskedAssumption DEF JoinCheck, Ready
  <2>2. f.op = "join" /\ f.conn = c /\ f.id = k
    BY DEF Request
  <2> HIDE DEF f
  <2>3. \A q \in Reactors \ {r} : frame'[q] = frame[q] /\ frame'[r] = f
    BY <2>1 DEF GInv, TypeOK
  <2>4. frame'[r] = f
    BY <2>1 DEF GInv, TypeOK
  <2>5. code[c] = NoCode /\ ~Joining(c) /\ Joining(c)'
    BY <2>1, <2>2, <2>4 DEF Newcomers, MayJoin, Joining, GInv, FramesInv
  <2>6. ASSUME NEW x \in Conns \ {c}
        PROVE  /\ Joining(x)' <=> Joining(x)
               /\ Clearing(x)' <=> Clearing(x)
               /\ Joining(x) => frame'[ReactorOf[x]] = frame[ReactorOf[x]]
    BY <2>1, <2>2, <2>3, <2>4 DEF Joining, Clearing, GInv, FramesInv
  <2>7. \A x \in Conns \ {c} : Standing'[x] = Standing[x] /\ HeldCode'[x] = HeldCode[x]
    BY <2>1, <2>6 DEF Standing, HeldCode
  <2>8. /\ Standing[c] = "out" /\ Standing'[c] = IF k \in Codes THEN "asking" ELSE "out"
        /\ HeldCode[c] = NoCode /\ HeldCode'[c] = k
    BY <2>1, <2>2, <2>4, <2>5, CodesAssumption DEF Standing, HeldCode
  <2>9. CASE k \in Codes
    <3>1. registry[k] = NoConn
      BY <2>1, <2>9 DEF MayJoin, QueryConn
    <3>2. Standing' = [Standing EXCEPT ![c] = "asking"] /\ HeldCode' = [HeldCode EXCEPT ![c] = k]
      <4>1. Standing'[c] = "asking"
        BY <2>8, <2>9
      <4>2. Standing' = [x \in Conns |-> Standing'[x]] /\ HeldCode' = [x \in Conns |-> HeldCode'[x]]
        BY DEF Standing, HeldCode
      <4>3. Standing = [x \in Conns |-> Standing[x]] /\ HeldCode = [x \in Conns |-> HeldCode[x]]
        BY DEF Standing, HeldCode
      <4> QED BY <2>7, <2>8, <4>1, <4>2, <4>3
    <3>3. D!Ask(c, k)
      BY <2>1, <2>8, <3>1, <3>2 DEF D!Ask
    <3> QED BY <2>9, <3>3 DEF D!Next
  <2>10. CASE k \notin Codes
    <3>1. k = NoCode
      BY <2>1, <2>10 DEF Ids
    <3>2. Standing' = Standing /\ HeldCode' = HeldCode
      BY <2>7, <2>8, <2>10, <3>1 DEF Standing, HeldCode
    <3> QED BY <2>1, <3>2
  <2> QED BY <2>9, <2>10
<1> QED BY <1>1, <1>2

LEMMA AddStep ==
  ASSUME GInv, Newcomers, NEW r \in Reactors, JoinAdd(r)
  PROVE  [D!Next]_<<registry, Standing, HeldCode>>
<1>0. PICK c \in Conns, k \in Ids : frame[r].conn = c /\ frame[r].id = k
  BY DEF JoinAdd, GInv, TypeOK, Frame, FramesInv
<1>1. /\ ReactorOf[c] = r /\ life[c] = "open" /\ role[c] = "NONE" /\ code[c] = NoCode
      /\ frame[r].op = "join"
  BY <1>0 DEF JoinAdd, GInv, TypeOK, FramesInv, Newcomers
<1>2. /\ code' = [code EXCEPT ![c] = k] /\ registry' = AddConn(k, c)
      /\ frame' = [frame EXCEPT ![r] = Idle] /\ life' = life
  BY <1>0 DEF JoinAdd
<1>3. Joining(c) /\ ~Joining(c)' /\ ~Clearing(c)'
  <2>1. \A q \in Reactors : q # r => frame'[q] = frame[q] /\ (frame[q].op = "idle" \/ frame[q].conn # c)
    BY <1>1, <1>2 DEF GInv, TypeOK, FramesInv
  <2>2. frame'[r] = Idle
    BY <1>2 DEF GInv, TypeOK
  <2>3. Joining(c)
    BY <1>0, <1>1 DEF Joining
  <2>4. ~Joining(c)' /\ ~Clearing(c)'
    BY <2>1, <2>2, IdleFrame DEF Joining, Clearing
  <2> QED BY <2>3, <2>4
<1>4. ASSUME NEW x \in Conns \ {c}
      PROVE  /\ Joining(x)' <=> Joining(x)
             /\ Clearing(x)' <=> Clearing(x)
             /\ Joining(x) => frame'[ReactorOf[x]] = frame[ReactorOf[x]]
             /\ code'[x] = code[x]
  BY <1>0, <1>1, <1>2, IdleFrame DEF Joining, Clearing, GInv, TypeOK, FramesInv
<1>5. \A x \in Conns \ {c} : Standing'[x] = Standing[x] /\ HeldCode'[x] = HeldCode[x]
  BY <1>2, <1>4 DEF Standing, HeldCode
<1>6. frame[ReactorOf[c]].id = k /\ code'[c] = k
  BY <1>0, <1>1, <1>2 DEF GInv, TypeOK
<1>7. HeldCode[c] = k /\ HeldCode'[c] = k
  <2>1. HeldCode[c] = frame[ReactorOf[c]].id
    BY <1>1, <1>3 DEF HeldCode
  <2>2. HeldCode'[c] = code'[c]
    BY <1>1, <1>3 DEF HeldCode
  <2> QED BY <1>6, <2>1, <2>2
<1>8. HeldCode' = HeldCode
  BY <1>5, <1>7 DEF HeldCode
<1>9. CASE k \in Codes
  <2>1. Standing[c] = "asking"
    BY <1>1, <1>3, <1>6, <1>9, CodesAssumption DEF Standing
  <2>5. Standing'[c] = "carrying"
    <3>1. code'[c] \in Codes /\ life'[c] = "open"
      BY <1>1, <1>2, <1>6, <1>9
    <3> QED BY <1>1, <1>3, <3>1 DEF Standing
  <2>2. Standing' = [Standing EXCEPT ![c] = "carrying"]
    BY <1>5, <2>5 DEF Standing
  <2>3. registry' = [registry EXCEPT ![HeldCode[c]] = IF @ = NoConn THEN c ELSE @]
    BY <1>2, <1>7 DEF AddConn, GInv, TypeOK
  <2>4. D!Join(c)
    BY <1>8, <2>1, <2>2, <2>3 DEF D!Join
  <2> QED BY <1>1, <2>4 DEF D!Next
<1>10. CASE k \notin Codes
  <2>1. registry' = registry
    BY <1>2, <1>10 DEF AddConn, GInv, TypeOK
  <2>2. Standing[c] = "out" /\ Standing'[c] = "out"
    <3>1. Standing[c] = "out"
      BY <1>1, <1>3, <1>6, <1>10, CodesAssumption DEF Standing
    <3>2. code'[c] \notin Codes
      BY <1>6, <1>10
    <3>3. Standing'[c] = "out"
      BY <1>1, <1>3, <3>2 DEF Standing
    <3> QED BY <3>1, <3>3
  <2>3. Standing' = Standing
    BY <1>5, <2>2 DEF Standing
  <2> QED BY <1>8, <2>1, <2>3
<1> QED BY <1>9, <1>10

\* A step that neither joins nor leaves.
LEMMA StandingStays ==
  ASSUME GInv, NEW r \in Reactors, NoJoinStep(r), UNCHANGED <<code, registry>>,
         \A c \in Conns : Clearing(c)' <=> Clearing(c),
         life' = life \/ \E c \in Conns : life[c] = "new" /\ life' = [life EXCEPT ![c] = "open"]
  PROVE  UNCHANGED <<registry, Standing, HeldCode>>
<1>1. \A c \in Conns : life'[c] = life[c] \/ (life[c] = "new" /\ life'[c] = "open")
  BY DEF GInv, TypeOK
<1>2. \A c \in Conns : Standing'[c] = Standing[c] /\ HeldCode'[c] = HeldCode[c]
  BY <1>1, JoinsStay DEF Standing, HeldCode
<1> QED BY <1>2 DEF Standing, HeldCode

LEMMA DirectoryStep ==
  ASSUME GInv, Newcomers, Next
  PROVE  [D!Next]_<<registry, Standing, HeldCode>>
<1>1. ASSUME NEW c \in Conns, Accept(c) PROVE UNCHANGED <<registry, Standing, HeldCode>>
  <2>1. \A x \in Conns : life'[x] = life[x] \/ (life[x] = "new" /\ life'[x] = "open")
    BY <1>1 DEF Accept, GInv, TypeOK
  <2> QED BY <1>1, <2>1 DEF Accept, Standing, HeldCode, Joining, Clearing
<1>2. ASSUME NEW c \in Conns, Forward(c) PROVE UNCHANGED <<registry, Standing, HeldCode>>
  BY <1>2 DEF Forward, Standing, HeldCode, Joining, Clearing
<1>3. ASSUME NEW c \in Conns, Disconnect(c) \/ DeleteStream(c) PROVE [D!Next]_<<registry, Standing, HeldCode>>
  BY <1>3, StartClearLeaves DEF Disconnect, DeleteStream
<1>4. ASSUME NEW c \in Conns, NEW r \in Reactors, r = ReactorOf[c], frame[r].op = "idle",
             UNCHANGED <<life, code, registry>>,
             frame' = frame \/ \E f \in Frame : f.op \in {"control", "watch", "create"} /\ frame' = [frame EXCEPT ![r] = f]
      PROVE  UNCHANGED <<registry, Standing, HeldCode>>
  <2>1. NoJoinStep(r) /\ \A x \in Conns : Clearing(x)' <=> Clearing(x)
    BY <1>4 DEF NoJoinStep, Clearing, GInv, TypeOK
  <2> QED BY <1>4, <2>1, StandingStays
<1>5. ASSUME NEW c \in Conns, NEW k \in Asked, ObtainCheck(c, k) PROVE UNCHANGED <<registry, Standing, HeldCode>>
  <2> DEFINE o == QueryConn(k)
             f == Request(ObtainBranch(c, o), c, k, o)
  <2>1. CASE frame' = frame
    BY <1>4, <1>5, <2>1, ReactorAssumption DEF ObtainCheck, Ready
  <2>2. CASE ObtainBranch(c, o) # "error" /\ frame' = [frame EXCEPT ![ReactorOf[c]] = f]
    <3>1. ObtainBranch(c, o) \in {"control", "watch"} /\ o \in Conns \cup {NoConn} /\ k \in Ids
      BY <2>2, QueryType, AskedAssumption DEF ObtainBranch, GInv
    <3>2. f \in Frame /\ f.op \in {"control", "watch"}
      BY <3>1 DEF Request, Frame
    <3> HIDE DEF f
    <3> QED BY <1>4, <1>5, <2>2, <3>2, ReactorAssumption DEF ObtainCheck, Ready
  <2> QED BY <1>5, <2>1, <2>2 DEF ObtainCheck
<1>6. ASSUME NEW c \in Conns, NEW hasAddr \in BOOLEAN, CreateStream(c, hasAddr)
      PROVE  UNCHANGED <<registry, Standing, HeldCode>>
  <2>1. Loop("create", c) \in Frame /\ Loop("create", c).op = "create"
    BY LoopType DEF GInv
  <2> QED BY <1>4, <1>6, <2>1, ReactorAssumption DEF CreateStream, Ready
<1>7. ASSUME NEW r \in Reactors, CreateStep(r) PROVE UNCHANGED <<registry, Standing, HeldCode>>
  <2>1. frame[r] \in Frame /\ frame[r].op = "create" /\ frame' = [frame EXCEPT ![r] = NextIteration(frame[r])]
        /\ UNCHANGED <<life, code, registry>>
    BY <1>7 DEF CreateStep, GInv, TypeOK
  <2>2. NextIteration(frame[r]).op \in {"create", "idle"}
    BY <2>1, IdleFrame, NextIterationType
  <2>3. NoJoinStep(r) /\ \A x \in Conns : Clearing(x)' <=> Clearing(x)
    BY <2>1, <2>2 DEF NoJoinStep, Clearing, GInv, TypeOK
  <2> QED BY <2>1, <2>3, StandingStays
<1>8. ASSUME NEW r \in Reactors, ClearStep(r) PROVE UNCHANGED <<registry, Standing, HeldCode>>
  <2>1. frame[r] \in Frame /\ frame[r].op \in {"clear", "close"} /\ frame' = [frame EXCEPT ![r].i = @ + 1]
        /\ UNCHANGED <<life, code, registry>>
    BY <1>8 DEF ClearStep, GInv, TypeOK
  <2>2. frame'[r].op = frame[r].op /\ frame'[r].conn = frame[r].conn
    BY <2>1 DEF GInv, TypeOK, Frame
  <2>3. \A q \in Reactors \ {r} : frame'[q] = frame[q]
    BY <2>1 DEF GInv, TypeOK
  <2>4. NoJoinStep(r) /\ \A x \in Conns : Clearing(x)' <=> Clearing(x)
    BY <2>1, <2>2, <2>3 DEF NoJoinStep, Clearing
  <2> QED BY <2>1, <2>4, StandingStays
<1> QED BY <1>1, <1>2, <1>3, <1>5, <1>6, <1>7, <1>8, AskStep, AddStep, ObtainLinkLeaves, ClearEndLeaves DEF Next

\* The server implements the directory, for any number of clients, codes and reactors and with no
\* assumption on what clients send: a client is entered only under a code it has found free, and not
\* in the place of one entered between its query and its insertion; an entry goes only when an object
\* that joined with its code is in Clear or is destroyed.
THEOREM DirectoryIsImplemented == Spec => ImplementsDirectory
<1>1. Init => D!Init /\ Newcomers
  <2> SUFFICES ASSUME Init PROVE D!Init /\ Newcomers
    OBVIOUS
  <2>1. \A c \in Conns : ~Joining(c) /\ code[c] = NoCode
    BY IdleFrame DEF Init, Joining
  <2>2. Standing = [c \in Conns |-> "out"] /\ HeldCode = [c \in Conns |-> NoCode]
    BY <2>1, CodesAssumption DEF Standing, HeldCode
  <2> QED BY <2>1, <2>2 DEF Init, D!Init, Newcomers
<1>2. GInv /\ Newcomers /\ [Next]_vars => Newcomers'
  BY NewcomersStep
<1>3. GInv /\ Newcomers /\ [Next]_vars => [D!Next]_<<registry, Standing, HeldCode>>
  <2>1. CASE UNCHANGED vars
    BY <2>1 DEF vars, Standing, HeldCode, Joining, Clearing
  <2> QED BY <2>1, DirectoryStep
<1> QED BY <1>1, <1>2, <1>3, Invariant, PTL DEF Spec, ImplementsDirectory, D!Spec

-----------------------------------------------------------------------------
(* The clients: the invariant *)

UpMessage == [cmd : {"JOIN", "OBTAINSTREAM"}, id : Codes] \cup [cmd : {"CREATESTREAM"}, hasAddr : BOOLEAN]

RemoteTypes ==
  /\ Turned \in [Conns -> {"NONE", "IDLE", "PULLER", "PUSHER"}]
  /\ up \in [Conns -> Seq(UpMessage)]
  /\ down \in [Conns -> Seq(Message)]

IsJoin(m) == m.cmd = "JOIN"

NoJoin(s) == \A m \in Range(s) : ~IsJoin(m)

OneJoin(s) == \A i, j \in DOMAIN s : IsJoin(s[i]) /\ IsJoin(s[j]) => i = j

\* The server is in DoObtainStream of the client.
Asking(c) == \E r \in Reactors : frame[r].op \in {"control", "watch"} /\ frame[r].conn = c

\* m_state, and what a handler is about to make of it.
MindTypes ==
  /\ cstate \in [Conns -> {"NONE", "IDLE", "PULLER", "PUSHER"}]
  /\ becoming \in [Conns -> {"none", "PULLER", "PUSHER"}]

\* What a message under way says of the client that sent it.
Says(m, state) ==
  /\ IsJoin(m) => state = "NONE"
  /\ m.cmd = "OBTAINSTREAM" => state = "PULLER"
  /\ m.cmd = "CREATESTREAM" /\ m.hasAddr => state = "PUSHER"

\* The client's JOIN is in one place at most, and the client undecided as long as it is.
JoinHolds(c) ==
  /\ OneJoin(up[c]) /\ OneJoin(down[c])
  /\ NoJoin(up[c]) \/ (NoJoin(down[c]) /\ ~Joining(c))
  /\ NoJoin(down[c]) \/ ~Joining(c)
  /\ Joining(c) \/ ~NoJoin(down[c]) => Turned[c] = "NONE"
  /\ life[c] = "new" => up[c] = <<>> /\ NoJoin(down[c]) /\ ~Joining(c) /\ Turned[c] = "NONE"

\* What the server has of the client is what the client is.
StateHolds(c) ==
  /\ \A m \in Range(up[c]) : Says(m, Turned[c])
  /\ Asking(c) => Turned[c] = "PULLER"
  /\ addr[c] => Turned[c] = "PUSHER"
  /\ role[c] \in {"PUSHER", "PULLER"} => Turned[c] = role[c]

ClientsHold == \A c \in Conns : JoinHolds(c) /\ StateHolds(c)

RemoteInv == GInv /\ RemoteTypes /\ ClientsHold

-----------------------------------------------------------------------------
(* Sequences of messages *)

LEMMA TailFacts ==
  ASSUME NEW S, NEW s \in Seq(S), s # <<>>
  PROVE  /\ Head(s) \in Range(s) /\ Tail(s) \in Seq(S) /\ Range(Tail(s)) \subseteq Range(s)
         /\ OneJoin(s) => OneJoin(Tail(s))
         /\ OneJoin(s) /\ IsJoin(Head(s)) => NoJoin(Tail(s))
<1>1. /\ Tail(s) \in Seq(S) /\ Len(Tail(s)) = Len(s) - 1 /\ Len(s) \in Nat \ {0}
      /\ \A i \in 1..Len(Tail(s)) : Tail(s)[i] = s[i + 1]
      /\ DOMAIN s = 1..Len(s) /\ DOMAIN Tail(s) = 1..Len(Tail(s)) /\ Head(s) = s[1]
  OBVIOUS
<1> DEFINE t == Tail(s)
<1> HIDE DEF t
<1>2. /\ t \in Seq(S) /\ Len(t) = Len(s) - 1 /\ DOMAIN t = 1..Len(t)
      /\ \A i \in DOMAIN t : i + 1 \in DOMAIN s /\ t[i] = s[i + 1] /\ i + 1 # 1 /\ 1 \in DOMAIN s
  BY <1>1 DEF t
<1>3. Head(s) \in Range(s) /\ Range(t) \subseteq Range(s)
  BY <1>1, <1>2 DEF Range
<1>4. OneJoin(s) => OneJoin(t)
  <2> SUFFICES ASSUME OneJoin(s), NEW i \in DOMAIN t, NEW j \in DOMAIN t, IsJoin(t[i]), IsJoin(t[j]) PROVE i = j
    BY DEF OneJoin
  <2>1. i + 1 = j + 1
    BY <1>2 DEF OneJoin
  <2>2. i \in Nat /\ j \in Nat
    BY <1>2
  <2> QED BY <2>1, <2>2
<1>5. OneJoin(s) /\ IsJoin(Head(s)) => NoJoin(t)
  <2> SUFFICES ASSUME OneJoin(s), IsJoin(s[1]), NEW i \in DOMAIN t, IsJoin(t[i]) PROVE FALSE
    BY <1>1 DEF NoJoin, Range
  <2> QED BY <1>2 DEF OneJoin
<1> QED BY <1>1, <1>3, <1>4, <1>5 DEF t

LEMMA ConcatFacts ==
  ASSUME NEW S, NEW s \in Seq(S), NEW q \in Seq(S)
  PROVE  /\ s \o q \in Seq(S)
         /\ NoJoin(s) /\ NoJoin(q) => NoJoin(s \o q)
         /\ OneJoin(s) /\ NoJoin(q) => OneJoin(s \o q)
         /\ NoJoin(s) /\ Len(q) <= 1 => OneJoin(s \o q)
<1> DEFINE t == s \o q
<1>1. /\ t \in Seq(S) /\ Len(t) = Len(s) + Len(q) /\ DOMAIN t = 1..(Len(s) + Len(q))
      /\ Len(s) \in Nat /\ Len(q) \in Nat /\ DOMAIN s = 1..Len(s) /\ DOMAIN q = 1..Len(q)
  OBVIOUS
<1>2. ASSUME NEW i \in DOMAIN t
      PROVE  \/ i \in DOMAIN s /\ t[i] = s[i]
             \/ i \notin DOMAIN s /\ i - Len(s) \in DOMAIN q /\ t[i] = q[i - Len(s)]
  BY <1>1, <1>2
<1> HIDE DEF t
<1>3. NoJoin(s) => \A i \in DOMAIN s : ~IsJoin(s[i])
  BY DEF NoJoin, Range
<1>4. NoJoin(q) => \A i \in DOMAIN q : ~IsJoin(q[i])
  BY DEF NoJoin, Range
<1>5. NoJoin(s) /\ NoJoin(q) => NoJoin(t)
  <2> SUFFICES ASSUME NoJoin(s), NoJoin(q), NEW i \in DOMAIN t, IsJoin(t[i]) PROVE FALSE
    BY DEF NoJoin, Range
  <2> QED BY <1>2, <1>3, <1>4
<1>6. OneJoin(s) /\ NoJoin(q) => OneJoin(t)
  <2> SUFFICES ASSUME OneJoin(s), NoJoin(q), NEW i \in DOMAIN t, NEW j \in DOMAIN t, IsJoin(t[i]), IsJoin(t[j])
               PROVE  i = j
    BY DEF OneJoin
  <2>1. i \in DOMAIN s /\ t[i] = s[i] /\ j \in DOMAIN s /\ t[j] = s[j]
    BY <1>2, <1>4
  <2> QED BY <2>1 DEF OneJoin
<1>7. NoJoin(s) /\ Len(q) <= 1 => OneJoin(t)
  <2> SUFFICES ASSUME NoJoin(s), Len(q) <= 1, NEW i \in DOMAIN t, NEW j \in DOMAIN t, IsJoin(t[i]), IsJoin(t[j])
               PROVE  i = j
    BY DEF OneJoin
  <2>1. i - Len(s) \in DOMAIN q /\ j - Len(s) \in DOMAIN q
    BY <1>2, <1>3
  <2> QED BY <1>1, <2>1
<1> QED BY <1>1, <1>5, <1>6, <1>7 DEF t

LEMMA AppendFacts ==
  ASSUME NEW S, NEW s \in Seq(S), NEW m \in S
  PROVE  /\ Append(s, m) \in Seq(S) /\ Range(Append(s, m)) = Range(s) \cup {m}
         /\ OneJoin(s) /\ ~IsJoin(m) => OneJoin(Append(s, m))
<1> DEFINE t == Append(s, m)
<1>1. /\ t \in Seq(S) /\ DOMAIN t = 1..(Len(s) + 1) /\ Len(s) \in Nat /\ DOMAIN s = 1..Len(s)
      /\ t[Len(s) + 1] = m
      /\ \A i \in DOMAIN s : i \in DOMAIN t /\ t[i] = s[i]
  OBVIOUS
<1> HIDE DEF t
<1>2. \A i \in DOMAIN t : i \in DOMAIN s \/ i = Len(s) + 1
  BY <1>1
<1>3. Range(t) = Range(s) \cup {m}
  <2>1. Len(s) + 1 \in DOMAIN t
    BY <1>1
  <2> QED BY <1>1, <1>2, <2>1 DEF Range
<1>4. OneJoin(s) /\ ~IsJoin(m) => OneJoin(t)
  BY <1>1, <1>2 DEF OneJoin
<1> QED BY <1>1, <1>3, <1>4 DEF t

\* SetToSeq puts the elements of a finite set into a sequence, each once.
LEMMA SetToSeqFacts ==
  ASSUME NEW S, IsFiniteSet(S)
  PROVE  SetToSeq(S) \in Seq(S) /\ Len(SetToSeq(S)) = Cardinality(S)
<1> DEFINE n == Cardinality(S)
<1>1. n \in Nat /\ ExistsBijection(1..n, S)
  BY FS_CardinalityType
<1>2. PICK f \in Bijection(1..n, S) : TRUE
  BY <1>1 DEF ExistsBijection
<1>3. f \in [1..n -> S] /\ IsInjective(f)
  BY <1>2 DEF Bijection, Injection, IsInjective
<1>4. SetToSeq(S) \in [1..n -> S]
  BY <1>3 DEF SetToSeq
<1> HIDE DEF n
<1>5. SetToSeq(S) \in Seq(S) /\ Len(SetToSeq(S)) = n
  BY <1>1, <1>4
<1> QED BY <1>5 DEF n

-----------------------------------------------------------------------------
(* What a step of the server does to its clients *)

\* What a step of the server sends are messages, and finitely many.
Sent == outbox' \subseteq Message /\ IsFiniteSet(outbox')

SentTo(c) == {m \in outbox' : m.to = c}

Takes(c) == up[c] # <<>> /\ up'[c] = Tail(up[c])

TakesJoin(c) == Takes(c) /\ IsJoin(Head(up[c]))

AnswersJoin(c) == \E m \in SentTo(c) : IsJoin(m)

\* The server makes a client a puller only for its request, and a pusher only for its address.
RoleIsGrounded(c) ==
  role'[c] \in {"PUSHER", "PULLER"} =>
    \/ role'[c] = role[c]
    \/ role'[c] = "PULLER" /\ Asking(c)
    \/ role'[c] = "PUSHER" /\ addr[c]

\* What the server gets to know of a client, it was told by that client: a JOIN is in work or
\* answered once it was taken, a request that is in work was taken or was in work before, and so
\* on for the address and the roles.
ServerDoes(c) ==
  /\ up'[c] = up[c] \/ Takes(c)
  /\ Joining(c)' => ~AnswersJoin(c) /\ (Joining(c) \/ TakesJoin(c))
  /\ AnswersJoin(c) => ~Joining(c)' /\ (Joining(c) \/ TakesJoin(c)) /\ \E m \in Message : SentTo(c) \subseteq {m}
  /\ Asking(c)' => Asking(c) \/ (Takes(c) /\ Head(up[c]).cmd = "OBTAINSTREAM")
  /\ addr'[c] => addr[c] \/ (Takes(c) /\ Head(up[c]).cmd = "CREATESTREAM" /\ Head(up[c]).hasAddr)
  /\ RoleIsGrounded(c)
  /\ life'[c] = "new" => life[c] = "new"

LEMMA SendIsSent ==
  ASSUME NEW a \in Message, NEW b \in Message, NEW ms \in SUBSET {a, b}, Send(ms)
  PROVE  Sent /\ outbox' \subseteq ms
<1>1. outbox' \subseteq ms
  BY DEF Send
<1>2. IsFiniteSet({a, b})
  <2>1. IsFiniteSet({a})
    BY FS_Singleton
  <2>2. IsFiniteSet({a} \cup {b})
    BY <2>1, FS_AddElement
  <2>3. {a} \cup {b} = {a, b}
    OBVIOUS
  <2> QED BY <2>2, <2>3
<1>3. IsFiniteSet(outbox')
  BY <1>1, <1>2, FS_Subset
<1> QED BY <1>1, <1>3 DEF Sent

LEMMA NothingSent == ASSUME outbox' = {} PROVE Sent /\ \A c \in Conns : ~AnswersJoin(c)
BY FS_EmptySet DEF Sent, AnswersJoin, SentTo

LEMMA ReplyIsSent ==
  ASSUME NEW c \in Conns, NEW cmd \in {"JOIN", "OBTAINSTREAM"}, NEW ok \in BOOLEAN, Reply(c, cmd, ok)
  PROVE  Sent /\ outbox' \subseteq {Msg(c, cmd, ok, 0)}
<1>1. Msg(c, cmd, ok, 0) \in Message
  BY MsgType
<1> DEFINE a == Msg(c, cmd, ok, 0)
<1> HIDE DEF a
<1>2. a \in Message /\ Send({a}) /\ {a} \in SUBSET {a, a}
  BY <1>1 DEF Reply, a
<1>3. Sent /\ outbox' \subseteq {a}
  BY <1>2, SendIsSent
<1> QED BY <1>3 DEF a

\* What is delivered to a client, and what that means for its JOIN.
LEMMA DeliverFacts ==
  ASSUME RemoteTypes, Sent, Deliver
  PROVE  /\ down' \in [Conns -> Seq(Message)]
         /\ \A c \in Conns :
              /\ NoJoin(down[c]) /\ ~AnswersJoin(c) => NoJoin(down'[c])
              /\ OneJoin(down[c]) /\ ~AnswersJoin(c) => OneJoin(down'[c])
              /\ NoJoin(down[c]) /\ (\E m \in Message : SentTo(c) \subseteq {m}) => OneJoin(down'[c])
<1>1. ASSUME NEW c \in Conns
      PROVE  /\ SetToSeq(SentTo(c)) \in Seq(Message)
             /\ ~AnswersJoin(c) => NoJoin(SetToSeq(SentTo(c)))
             /\ (\E m \in Message : SentTo(c) \subseteq {m}) => Len(SetToSeq(SentTo(c))) <= 1
  <2> DEFINE S == SentTo(c)
             q == SetToSeq(S)
  <2>1. IsFiniteSet(S) /\ S \subseteq Message
    BY FS_Subset DEF Sent, SentTo
  <2>2. q \in Seq(S) /\ Len(q) = Cardinality(S)
    BY <2>1, SetToSeqFacts
  <2>3. ~AnswersJoin(c) => \A m \in S : ~IsJoin(m)
    BY DEF AnswersJoin
  <2>4. ASSUME NEW m \in Message, S \subseteq {m} PROVE Cardinality(S) <= 1
    <3>1. S = {} \/ S = {m}
      BY <2>4
    <3>2. Cardinality({}) = 0 /\ Cardinality({m}) = 1
      BY FS_EmptySet, FS_Singleton
    <3> QED BY <3>1, <3>2
  <2> HIDE DEF q, S
  <2>5. q \in Seq(Message)
    BY <2>1, <2>2
  <2>6. Range(q) \subseteq S
    BY <2>2 DEF Range
  <2>7. ~AnswersJoin(c) => NoJoin(q)
    BY <2>3, <2>6 DEF NoJoin
  <2>8. (\E m \in Message : S \subseteq {m}) => Len(q) <= 1
    BY <2>2, <2>4
  <2> QED BY <2>5, <2>7, <2>8 DEF q, S
<1>2. \A c \in Conns : down[c] \in Seq(Message)
  BY DEF RemoteTypes
<1>3. down' = [c \in Conns |-> down[c] \o SetToSeq(SentTo(c))]
  BY DEF Deliver, SentTo
<1>4. ASSUME NEW c \in Conns
      PROVE  /\ down'[c] \in Seq(Message)
             /\ NoJoin(down[c]) /\ ~AnswersJoin(c) => NoJoin(down'[c])
             /\ OneJoin(down[c]) /\ ~AnswersJoin(c) => OneJoin(down'[c])
             /\ NoJoin(down[c]) /\ (\E m \in Message : SentTo(c) \subseteq {m}) => OneJoin(down'[c])
  <2> DEFINE q == SetToSeq(SentTo(c))
  <2>1. down'[c] = down[c] \o q
    BY <1>3
  <2>2. /\ q \in Seq(Message)
        /\ ~AnswersJoin(c) => NoJoin(q)
        /\ (\E m \in Message : SentTo(c) \subseteq {m}) => Len(q) <= 1
    BY <1>1
  <2> HIDE DEF q
  <2>3. /\ down[c] \o q \in Seq(Message)
        /\ NoJoin(down[c]) /\ NoJoin(q) => NoJoin(down[c] \o q)
        /\ OneJoin(down[c]) /\ NoJoin(q) => OneJoin(down[c] \o q)
        /\ NoJoin(down[c]) /\ Len(q) <= 1 => OneJoin(down[c] \o q)
    BY <1>2, <2>2, ConcatFacts
  <2> QED BY <2>1, <2>2, <2>3
<1>5. down' \in [Conns -> Seq(Message)]
  BY <1>3, <1>4
<1> QED BY <1>4, <1>5

LEMMA UpShrinks ==
  ASSUME RemoteTypes, NEW c \in Conns, OneJoin(up[c]), up'[c] = up[c] \/ Takes(c)
  PROVE  /\ OneJoin(up'[c]) /\ Range(up'[c]) \subseteq Range(up[c])
         /\ NoJoin(up[c]) => NoJoin(up'[c])
         /\ Takes(c) => Head(up[c]) \in Range(up[c])
         /\ TakesJoin(c) => NoJoin(up'[c]) /\ ~NoJoin(up[c])
<1>1. up[c] \in Seq(UpMessage)
  BY DEF RemoteTypes
<1>2. CASE Takes(c)
  <2>1. up[c] # <<>> /\ up'[c] = Tail(up[c])
    BY <1>2 DEF Takes
  <2>2. /\ Head(up[c]) \in Range(up[c]) /\ Range(up'[c]) \subseteq Range(up[c])
        /\ OneJoin(up'[c]) /\ (IsJoin(Head(up[c])) => NoJoin(up'[c]))
    BY <1>1, <2>1, TailFacts
  <2> QED BY <2>2 DEF TakesJoin, NoJoin
<1>3. CASE ~Takes(c)
  BY <1>3 DEF TakesJoin
<1> QED BY <1>2, <1>3

\* A step of the server that does only that keeps what holds of the client's JOIN.
LEMMA JoinStep ==
  ASSUME RemoteTypes, Sent, Deliver, Turned' = Turned,
         NEW c \in Conns, JoinHolds(c), StateHolds(c), ServerDoes(c)
  PROVE  JoinHolds(c)'
<1>1. /\ OneJoin(up'[c]) /\ Range(up'[c]) \subseteq Range(up[c])
      /\ NoJoin(up[c]) => NoJoin(up'[c])
      /\ Takes(c) => Head(up[c]) \in Range(up[c])
      /\ TakesJoin(c) => NoJoin(up'[c]) /\ ~NoJoin(up[c])
  BY UpShrinks DEF JoinHolds, ServerDoes
<1>2. /\ NoJoin(down[c]) /\ ~AnswersJoin(c) => NoJoin(down'[c])
      /\ OneJoin(down[c]) /\ ~AnswersJoin(c) => OneJoin(down'[c])
      /\ NoJoin(down[c]) /\ (\E m \in Message : SentTo(c) \subseteq {m}) => OneJoin(down'[c])
  BY DeliverFacts
<1>3. CASE Joining(c) \/ TakesJoin(c)
  <2>1. TakesJoin(c) => Turned[c] = "NONE" /\ NoJoin(down[c]) /\ life[c] # "new"
    BY <1>1 DEF TakesJoin, Takes, StateHolds, Says, JoinHolds
  <2>2. Joining(c) => NoJoin(up[c]) /\ Turned[c] = "NONE" /\ NoJoin(down[c]) /\ life[c] # "new"
    BY DEF JoinHolds
  <2>3. NoJoin(up'[c]) /\ Turned'[c] = "NONE" /\ NoJoin(down[c]) /\ life'[c] # "new"
    BY <1>1, <1>3, <2>1, <2>2 DEF ServerDoes
  <2>4. CASE AnswersJoin(c)
    <3>1. OneJoin(down'[c]) /\ ~Joining(c)'
      BY <1>2, <2>3, <2>4 DEF ServerDoes
    <3> QED BY <1>1, <2>3, <3>1 DEF JoinHolds
  <2>5. CASE ~AnswersJoin(c)
    <3>1. NoJoin(down'[c]) /\ OneJoin(down'[c])
      BY <1>2, <2>3, <2>5 DEF JoinHolds
    <3> QED BY <1>1, <2>3, <3>1 DEF JoinHolds
  <2> QED BY <2>4, <2>5
<1>4. CASE ~(Joining(c) \/ TakesJoin(c))
  <2>1. ~AnswersJoin(c) /\ ~Joining(c)'
    BY <1>4 DEF ServerDoes
  <2>2. OneJoin(down'[c]) /\ (NoJoin(down[c]) => NoJoin(down'[c]))
    BY <1>2, <2>1 DEF JoinHolds
  <2>3. NoJoin(up'[c]) \/ NoJoin(down'[c])
    BY <1>1, <2>2 DEF JoinHolds
  <2>4. ~NoJoin(down'[c]) => Turned'[c] = "NONE"
    BY <2>2 DEF JoinHolds
  <2>5. life'[c] = "new" => up'[c] = <<>> /\ NoJoin(down'[c]) /\ Turned'[c] = "NONE"
    BY <2>2 DEF JoinHolds, ServerDoes, Takes
  <2> QED BY <1>1, <2>1, <2>2, <2>3, <2>4, <2>5 DEF JoinHolds
<1> QED BY <1>3, <1>4

\* The same for what the server has of the client.
LEMMA StateStep ==
  ASSUME RemoteTypes, Turned' = Turned, NEW c \in Conns, JoinHolds(c), StateHolds(c), ServerDoes(c)
  PROVE  StateHolds(c)'
<1>1. /\ Range(up'[c]) \subseteq Range(up[c])
      /\ Takes(c) => Head(up[c]) \in Range(up[c])
  BY UpShrinks DEF JoinHolds, ServerDoes
<1>2. \A m \in Range(up[c]) : Says(m, Turned[c])
  BY DEF StateHolds
<1>3. \A m \in Range(up'[c]) : Says(m, Turned'[c])
  BY <1>1, <1>2
<1>4. Asking(c)' => Turned'[c] = "PULLER"
  BY <1>1, <1>2 DEF StateHolds, ServerDoes, Says
<1>5. addr'[c] => Turned'[c] = "PUSHER"
  BY <1>1, <1>2 DEF StateHolds, ServerDoes, Says
<1>6. role'[c] \in {"PUSHER", "PULLER"} => Turned'[c] = role'[c]
  BY DEF StateHolds, ServerDoes, RoleIsGrounded
<1>7. (\A m \in Range(up[c]) : Says(m, Turned[c]))'
  BY <1>3
<1> QED BY <1>4, <1>5, <1>6, <1>7 DEF StateHolds

LEMMA ServerKeeps ==
  ASSUME RemoteTypes, ClientsHold, Sent, Deliver, Turned' = Turned, up' \in [Conns -> Seq(UpMessage)],
         \A c \in Conns : ServerDoes(c)
  PROVE  RemoteTypes' /\ ClientsHold'
<1>1. RemoteTypes'
  BY DeliverFacts DEF RemoteTypes
<1>2. ASSUME NEW c \in Conns PROVE JoinHolds(c)' /\ StateHolds(c)'
  BY JoinStep, StateStep DEF ClientsHold
<1> QED BY <1>1, <1>2 DEF ClientsHold

-----------------------------------------------------------------------------
(* The handlers that are in work *)

FramesShrink == \A r \in Reactors : frame'[r].op # "idle" => frame'[r].op = frame[r].op /\ frame'[r].conn = frame[r].conn

LEMMA WorkShrinks ==
  ASSUME FramesShrink, NEW c \in Conns
  PROVE  (Joining(c)' => Joining(c)) /\ (Asking(c)' => Asking(c))
BY DEF FramesShrink, Joining, Asking

Quiet == \A m \in outbox' : ~IsJoin(m)

\* A step of a handler in work that takes nothing from the clients and answers no JOIN.
LEMMA WorkKeeps ==
  ASSUME RemoteTypes, ClientsHold, Sent, Deliver, UNCHANGED <<Turned, up, addr>>, FramesShrink,
         Quiet,
         \A c \in Conns : RoleIsGrounded(c) /\ (life'[c] = "new" => life[c] = "new")
  PROVE  RemoteTypes' /\ ClientsHold'
<1>1. up' \in [Conns -> Seq(UpMessage)]
  BY DEF RemoteTypes
<1>2. ASSUME NEW c \in Conns PROVE ServerDoes(c)
  <2>1. ~AnswersJoin(c)
    BY DEF AnswersJoin, SentTo, Quiet
  <2> QED BY <2>1, WorkShrinks DEF ServerDoes
<1> QED BY <1>1, <1>2, ServerKeeps

LEMMA QuietSend ==
  ASSUME NEW a \in Message, NEW b \in Message, NEW ms \in SUBSET {a, b}, Send(ms), ~IsJoin(a), ~IsJoin(b)
  PROVE  Sent /\ Quiet
<1>1. Sent /\ outbox' \subseteq ms
  BY SendIsSent
<1> QED BY <1>1 DEF Quiet

LEMMA QuietMsg ==
  ASSUME NEW c \in Conns, NEW cmd \in {"OBTAINSTREAM", "CREATESTREAM", "PLAYSTREAM", "DELETESTREAM"},
         NEW ok \in BOOLEAN, NEW n \in Nat
  PROVE  Msg(c, cmd, ok, n) \in Message /\ ~IsJoin(Msg(c, cmd, ok, n))
<1>1. Msg(c, cmd, ok, n) \in Message
  BY MsgType
<1>2. Msg(c, cmd, ok, n).cmd # "JOIN"
  BY DEF Msg
<1> QED BY <1>1, <1>2 DEF IsJoin

LEMMA ObtainLinkKeepsClients ==
  ASSUME RemoteInv, NEW r \in Reactors, ObtainLink(r), Deliver, UNCHANGED <<Turned, up>>
  PROVE  RemoteTypes' /\ ClientsHold'
<1> DEFINE f == frame[r]
           c == f.conn
           o == f.peer
           targets == IF f.op = "control" THEN [target EXCEPT ![c] = o] ELSE target
<1>1. /\ f.op \in {"control", "watch"}
      /\ c \in Conns /\ o \in Conns
  BY DEF ObtainLink, RemoteInv, GInv, FramesInv
<1>2. /\ role' = [role EXCEPT ![c] = "PULLER"]
      /\ addr' = addr
      /\ Settle(life, targets, [frame EXCEPT ![r] = Idle], registry)
  BY DEF ObtainLink
<1> HIDE DEF targets
<1>3. /\ \A x \in Conns : life'[x] = life[x] \/ life'[x] = "gone"
      /\ frame' = [frame EXCEPT ![r] = Idle]
  BY <1>2, SettleFacts DEF RemoteInv, GInv, TypeOK
<1>4. Sent /\ Quiet
  <2>1. CASE f.op = "control"
    <3>1. /\ Msg(o, "CREATESTREAM", TRUE, 0) \in Message /\ ~IsJoin(Msg(o, "CREATESTREAM", TRUE, 0))
          /\ Msg(c, "OBTAINSTREAM", TRUE, 0) \in Message /\ ~IsJoin(Msg(c, "OBTAINSTREAM", TRUE, 0))
      BY <1>1, QuietMsg
    <3>2. Send({Msg(o, "CREATESTREAM", TRUE, 0), Msg(c, "OBTAINSTREAM", TRUE, 0)})
      BY <2>1 DEF ObtainLink
    <3> QED BY <3>1, <3>2, QuietSend
  <2>2. CASE f.op # "control"
    <3>1. Msg(c, "PLAYSTREAM", TRUE, 0) \in Message /\ ~IsJoin(Msg(c, "PLAYSTREAM", TRUE, 0))
      BY <1>1, QuietMsg
    <3>2. Send({Msg(c, "PLAYSTREAM", TRUE, 0)})
      BY <2>2 DEF ObtainLink
    <3> QED BY <3>1, <3>2, QuietSend
  <2> QED BY <2>1, <2>2
<1>5. FramesShrink
  BY <1>3, IdleFrame DEF FramesShrink, RemoteInv, GInv, TypeOK
<1>6. Asking(c)
  BY <1>1 DEF Asking
<1>7. \A x \in Conns : RoleIsGrounded(x)
  BY <1>1, <1>2, <1>6 DEF RoleIsGrounded, RemoteInv, GInv, TypeOK
<1>8. \A x \in Conns : life'[x] = "new" => life[x] = "new"
  BY <1>3
<1> QED BY <1>2, <1>4, <1>5, <1>7, <1>8, WorkKeeps DEF RemoteInv

\* A client whose partner is removed becomes IDLE at most.
LEMMA RemovalIsGrounded ==
  ASSUME TypeOK, NEW o \in Conns, NEW k, RemoveClient(o, k), NEW x \in Conns
  PROVE  RoleIsGrounded(x)
<1>1. role'[x] = role[x] \/ role'[x] = "IDLE"
  BY RemoveClientFacts
<1> QED BY <1>1 DEF RoleIsGrounded

LEMMA CreateStepKeepsClients ==
  ASSUME RemoteInv, NEW r \in Reactors, CreateStep(r), Deliver, UNCHANGED <<Turned, up>>
  PROVE  RemoteTypes' /\ ClientsHold'
<1> DEFINE f == frame[r]
           c == f.conn
<1>0. PICK k \in Slot(objs[c], f.i) : CreateFor(c, k, QueryConn(k))
  BY DEF CreateStep
<1> DEFINE o == QueryConn(k)
<1>1. f \in Frame /\ c \in Conns /\ TypeOK /\ o \in Conns \cup {NoConn}
  BY QueryType DEF CreateStep, RemoteInv, GInv, TypeOK, FramesInv
<1>2. /\ UNCHANGED <<life, addr>>
      /\ frame' = [frame EXCEPT ![r] = NextIteration(f)]
  BY DEF CreateStep
<1>3. FramesShrink
  BY <1>1, <1>2, NextIterationType, IdleFrame DEF FramesShrink, TypeOK
<1>4. Sent /\ Quiet /\ \A x \in Conns : RoleIsGrounded(x)
  <2>1. ASSUME NEW ok \in BOOLEAN, o # NoConn, Send({Msg(o, "PLAYSTREAM", ok, 0)}) PROVE Sent /\ Quiet
    <3>1. Msg(o, "PLAYSTREAM", ok, 0) \in Message /\ ~IsJoin(Msg(o, "PLAYSTREAM", ok, 0))
      BY <1>1, <2>1, QuietMsg
    <3> QED BY <2>1, <3>1, QuietSend
  <2> HIDE DEF o
  <2>2. CASE o = NoConn /\ RemoveClient(c, k) /\ outbox' = {}
    BY <1>1, <2>2, NothingSent, RemovalIsGrounded DEF Quiet
  <2>3. CASE /\ o # NoConn /\ Send({Msg(o, "PLAYSTREAM", FALSE, 0)})
             /\ role' = [role EXCEPT ![o] = "IDLE"]
    BY <1>1, <2>1, <2>3 DEF TypeOK, RoleIsGrounded
  <2>4. CASE o # NoConn /\ RemoveClient(c, code[o]) /\ Send({Msg(o, "PLAYSTREAM", FALSE, 0)})
    BY <1>1, <2>1, <2>4, RemovalIsGrounded
  <2>5. CASE /\ o # NoConn /\ addr[c] /\ Send({Msg(o, "PLAYSTREAM", TRUE, 0)})
             /\ role' = [role EXCEPT ![c] = "PUSHER"]
    BY <1>1, <2>1, <2>5 DEF TypeOK, RoleIsGrounded
  <2> QED BY <2>2, <2>3, <2>4, <2>5, <1>0 DEF CreateFor, o
<1> QED BY <1>2, <1>3, <1>4, WorkKeeps DEF RemoteInv

LEMMA ClearStepKeepsClients ==
  ASSUME RemoteInv, NEW r \in Reactors, ClearStep(r), Deliver, UNCHANGED <<Turned, up>>
  PROVE  RemoteTypes' /\ ClientsHold'
<1> DEFINE f == frame[r]
           c == f.conn
<1>0. PICK k \in Slot(objs[c], f.i) :
        \/ QueryConn(k) = NoConn /\ outbox' = {} /\ UNCHANGED <<objs, role>>
        \/ /\ QueryConn(k) # NoConn
           /\ RemoveClient(QueryConn(k), code[c])
           /\ Send({Msg(QueryConn(k), "DELETESTREAM", TRUE, Remaining(QueryConn(k)))})
  BY DEF ClearStep
<1> DEFINE o == QueryConn(k)
<1>1. TypeOK /\ o \in Conns \cup {NoConn}
  BY QueryType DEF RemoteInv, GInv
<1>2. UNCHANGED <<life, addr>> /\ frame' = [frame EXCEPT ![r] = [f EXCEPT !.i = f.i + 1]]
  BY DEF ClearStep
<1>3. FramesShrink
  BY <1>1, <1>2 DEF FramesShrink, TypeOK, Frame
<1>4. Sent /\ Quiet /\ \A x \in Conns : RoleIsGrounded(x)
  <2>1. CASE o = NoConn
    BY <1>0, <2>1, NothingSent DEF Quiet, RoleIsGrounded
  <2>2. CASE o # NoConn
    <3>1. o \in Conns /\ RemoveClient(o, code[c]) /\ Send({Msg(o, "DELETESTREAM", TRUE, Remaining(o))})
      BY <1>0, <1>1, <2>2
    <3> HIDE DEF o
    <3>2. objs'[o] \in Seq(Ids)
      BY <1>1, <3>1, RemoveClientFacts
    <3>3. Remaining(o) \in Nat
      BY <3>2 DEF Remaining
    <3>4. Msg(o, "DELETESTREAM", TRUE, Remaining(o)) \in Message /\ ~IsJoin(Msg(o, "DELETESTREAM", TRUE, Remaining(o)))
      BY <3>1, <3>3, QuietMsg
    <3>5. Sent /\ Quiet
      BY <3>1, <3>4, QuietSend
    <3> QED BY <1>1, <3>1, <3>5, RemovalIsGrounded
  <2> QED BY <2>1, <2>2
<1> QED BY <1>2, <1>3, <1>4, WorkKeeps DEF RemoteInv

LEMMA ClearEndKeepsClients ==
  ASSUME RemoteInv, NEW r \in Reactors, ClearEnd(r), Deliver, UNCHANGED <<Turned, up>>
  PROVE  RemoteTypes' /\ ClientsHold'
<1> DEFINE c == frame[r].conn
           lives == IF frame[r].op = "close" THEN [life EXCEPT ![c] = "closed"] ELSE life
<1>1. /\ outbox' = {} /\ UNCHANGED <<role, addr>>
      /\ Settle(lives, target, [frame EXCEPT ![r] = Idle], RemoveConn(code[c]))
  BY DEF ClearEnd
<1>2. lives \in [Conns -> Lives] /\ \A x \in Conns : lives[x] \in {life[x], "closed"}
  BY DEF RemoteInv, GInv, TypeOK, Lives
<1>3. RemoveConn(code[c]) \in [Codes -> Conns \cup {NoConn}]
  BY DEF RemoveConn, RemoteInv, GInv, TypeOK
<1> HIDE DEF lives
<1>4. /\ \A x \in Conns : life'[x] = lives[x] \/ life'[x] = "gone"
      /\ frame' = [frame EXCEPT ![r] = Idle]
  BY <1>1, <1>2, <1>3, SettleFacts
<1>5. FramesShrink
  BY <1>4, IdleFrame DEF FramesShrink, RemoteInv, GInv, TypeOK
<1>6. \A x \in Conns : RoleIsGrounded(x) /\ (life'[x] = "new" => life[x] = "new")
  BY <1>1, <1>2, <1>4 DEF RoleIsGrounded
<1>7. Sent /\ Quiet
  BY <1>1, NothingSent DEF Quiet
<1> QED BY <1>1, <1>5, <1>6, <1>7, WorkKeeps DEF RemoteInv

\* The rest of HandleJoin: the client's JOIN turns from a handler into an answer.
LEMMA JoinAddKeepsClients ==
  ASSUME RemoteInv, NEW r \in Reactors, JoinAdd(r), Deliver, UNCHANGED <<Turned, up>>
  PROVE  RemoteTypes' /\ ClientsHold'
<1>0. PICK c \in Conns : c = frame[r].conn
  BY DEF JoinAdd, RemoteInv, GInv, FramesInv
<1>1. frame[r].op = "join" /\ ReactorOf[c] = r
  BY <1>0 DEF JoinAdd, RemoteInv, GInv, FramesInv
<1>2. /\ UNCHANGED <<life, addr>> /\ role' = [role EXCEPT ![c] = "IDLE"]
      /\ frame' = [frame EXCEPT ![r] = Idle] /\ Reply(c, "JOIN", TRUE)
  BY <1>0 DEF JoinAdd
<1>3. Sent /\ outbox' \subseteq {Msg(c, "JOIN", TRUE, 0)}
  BY <1>1, <1>2, ReplyIsSent
<1>4. Msg(c, "JOIN", TRUE, 0) \in Message /\ Msg(c, "JOIN", TRUE, 0).to = c
  BY <1>1, MsgType DEF Msg
<1>5. FramesShrink
  BY <1>2, IdleFrame DEF FramesShrink, RemoteInv, GInv, TypeOK
<1>6. Joining(c)
  BY <1>0, <1>1 DEF Joining
<1>7. ~Joining(c)'
  <2> SUFFICES ASSUME NEW x \in Reactors, frame'[x].op = "join", frame'[x].conn = c PROVE FALSE
    BY DEF Joining
  <2>1. x # r /\ frame[x].op = "join" /\ frame[x].conn = c
    BY <1>2, IdleFrame DEF RemoteInv, GInv, TypeOK
  <2>2. ReactorOf[c] = x
    BY <2>1 DEF RemoteInv, GInv, FramesInv
  <2> QED BY <1>1, <2>1, <2>2
<1>8. \A x \in Conns \ {c} : ~AnswersJoin(x)
  BY <1>3, <1>4 DEF AnswersJoin, SentTo
<1>9. SentTo(c) \subseteq {Msg(c, "JOIN", TRUE, 0)}
  BY <1>3 DEF SentTo
<1>10. \A x \in Conns : RoleIsGrounded(x)
  BY <1>1, <1>2 DEF RoleIsGrounded, RemoteInv, GInv, TypeOK
<1>11. ASSUME NEW x \in Conns PROVE ServerDoes(x)
  <2>1. (Joining(x)' => Joining(x)) /\ (Asking(x)' => Asking(x))
    BY <1>5, WorkShrinks
  <2>2. CASE x = c
    BY <1>2, <1>4, <1>6, <1>7, <1>9, <1>10, <2>1, <2>2 DEF ServerDoes
  <2>3. CASE x # c
    BY <1>2, <1>8, <1>10, <2>1, <2>3 DEF ServerDoes
  <2> QED BY <2>2, <2>3
<1>12. up' \in [Conns -> Seq(UpMessage)]
  BY DEF RemoteInv, RemoteTypes
<1> QED BY <1>3, <1>11, <1>12, ServerKeeps DEF RemoteInv

-----------------------------------------------------------------------------
(* Requests, and connections that come and go *)

LEMMA TakeFacts ==
  ASSUME RemoteTypes, NEW c \in Conns, up[c] # <<>>, up' = [up EXCEPT ![c] = Tail(@)]
  PROVE  /\ up' \in [Conns -> Seq(UpMessage)] /\ Head(up[c]) \in UpMessage
         /\ Takes(c) /\ \A x \in Conns \ {c} : up'[x] = up[x]
<1>1. up \in [Conns -> Seq(UpMessage)] /\ up[c] \in Seq(UpMessage)
  BY DEF RemoteTypes
<1>2. Tail(up[c]) \in Seq(UpMessage) /\ Head(up[c]) \in UpMessage
  BY <1>1
<1> QED BY <1>1, <1>2 DEF Takes

\* A request whose handler goes into work, on the idle reactor of its connection.
LEMMA RequestOpens ==
  ASSUME TypeOK, NEW c \in Conns, NEW f \in Frame, f.conn = c, frame' = [frame EXCEPT ![ReactorOf[c]] = f]
  PROVE  /\ \A x \in Conns \ {c} : (Joining(x)' => Joining(x)) /\ (Asking(x)' => Asking(x))
         /\ Joining(c)' => Joining(c) \/ f.op = "join"
         /\ Asking(c)' => Asking(c) \/ f.op \in {"control", "watch"}
<1>1. \A r \in Reactors : frame'[r] = frame[r] \/ frame'[r] = f
  BY DEF TypeOK
<1> QED BY <1>1 DEF Joining, Asking

LEMMA FramesStay ==
  ASSUME frame' = frame, NEW c \in Conns
  PROVE  (Joining(c)' <=> Joining(c)) /\ (Asking(c)' <=> Asking(c))
BY DEF Joining, Asking

LEMMA JoinCheckKeepsClients ==
  ASSUME RemoteInv, NEW c \in Conns, NEW k \in Ids, JoinCheck(c, k), up[c] # <<>>, IsJoin(Head(up[c])),
         up' = [up EXCEPT ![c] = Tail(@)], Deliver, Turned' = Turned
  PROVE  RemoteTypes' /\ ClientsHold'
<1>1. up' \in [Conns -> Seq(UpMessage)] /\ Takes(c) /\ \A x \in Conns \ {c} : up'[x] = up[x]
  BY TakeFacts DEF RemoteInv
<1>2. TakesJoin(c)
  BY <1>1 DEF TakesJoin
<1>3. UNCHANGED <<life, role, addr>> /\ \A x \in Conns : RoleIsGrounded(x)
  BY DEF JoinCheck, RoleIsGrounded
<1>4. ~Joining(c)
  <2>1. (NoJoin(down[c]) /\ ~Joining(c)) \/ NoJoin(up[c])
    BY DEF RemoteInv, ClientsHold, JoinHolds
  <2>2. ~NoJoin(up[c])
    BY <1>1, <1>2, UpShrinks DEF RemoteInv, ClientsHold, JoinHolds
  <2> QED BY <2>1, <2>2
<1>5. CASE Reply(c, "JOIN", FALSE) /\ UNCHANGED frame
  <2>1. Sent /\ outbox' \subseteq {Msg(c, "JOIN", FALSE, 0)}
    BY <1>5, ReplyIsSent
  <2>2. Msg(c, "JOIN", FALSE, 0) \in Message /\ Msg(c, "JOIN", FALSE, 0).to = c
    BY MsgType DEF Msg
  <2>3. \A x \in Conns \ {c} : ~AnswersJoin(x)
    BY <2>1, <2>2 DEF AnswersJoin, SentTo
  <2>4. SentTo(c) \subseteq {Msg(c, "JOIN", FALSE, 0)}
    BY <2>1 DEF SentTo
  <2>5. ASSUME NEW x \in Conns PROVE ServerDoes(x)
    <3>1. (Joining(x)' <=> Joining(x)) /\ (Asking(x)' <=> Asking(x))
      BY <1>5, FramesStay
    <3>2. CASE x = c
      BY <1>1, <1>2, <1>3, <1>4, <2>2, <2>4, <3>1, <3>2 DEF ServerDoes
    <3>3. CASE x # c
      BY <1>1, <1>3, <2>3, <3>1, <3>3 DEF ServerDoes
    <3> QED BY <3>2, <3>3
  <2> QED BY <1>1, <2>1, <2>5, ServerKeeps DEF RemoteInv
<1>6. CASE frame' = [frame EXCEPT ![ReactorOf[c]] = Request("join", c, k, NoConn)] /\ outbox' = {}
  <2> DEFINE f == Request("join", c, k, NoConn)
  <2>1. f \in Frame /\ f.conn = c /\ f.op = "join"
    BY RequestType
  <2> HIDE DEF f
  <2>2. Sent /\ \A x \in Conns : ~AnswersJoin(x)
    BY <1>6, NothingSent
  <2>3. /\ \A x \in Conns \ {c} : (Joining(x)' => Joining(x)) /\ (Asking(x)' => Asking(x))
        /\ Asking(c)' => Asking(c)
    BY <1>6, <2>1, RequestOpens DEF f, RemoteInv, GInv
  <2>4. \A x \in Conns : ServerDoes(x)
    BY <1>1, <1>2, <1>3, <2>2, <2>3 DEF ServerDoes
  <2> QED BY <1>1, <2>2, <2>4, ServerKeeps DEF RemoteInv
<1> QED BY <1>5, <1>6 DEF JoinCheck

LEMMA ObtainCheckKeepsClients ==
  ASSUME RemoteInv, NEW c \in Conns, NEW k \in Ids, ObtainCheck(c, k), up[c] # <<>>,
         Head(up[c]).cmd = "OBTAINSTREAM", up' = [up EXCEPT ![c] = Tail(@)], Deliver, Turned' = Turned
  PROVE  RemoteTypes' /\ ClientsHold'
<1>1. up' \in [Conns -> Seq(UpMessage)] /\ Takes(c) /\ \A x \in Conns \ {c} : up'[x] = up[x]
  BY TakeFacts DEF RemoteInv
<1>2. UNCHANGED <<life, role, addr>> /\ \A x \in Conns : RoleIsGrounded(x)
  BY DEF ObtainCheck, RoleIsGrounded
<1> DEFINE o == QueryConn(k)
           branch == ObtainBranch(c, o)
<1>3. CASE Reply(c, "OBTAINSTREAM", FALSE) /\ UNCHANGED frame
  <2>1. Sent /\ outbox' \subseteq {Msg(c, "OBTAINSTREAM", FALSE, 0)}
    BY <1>3, ReplyIsSent
  <2>2. \A x \in Conns : ~AnswersJoin(x)
    BY <2>1, QuietMsg DEF AnswersJoin, SentTo
  <2>3. \A x \in Conns : (Joining(x)' <=> Joining(x)) /\ (Asking(x)' <=> Asking(x))
    BY <1>3, FramesStay
  <2>4. \A x \in Conns : ServerDoes(x)
    BY <1>1, <1>2, <2>2, <2>3 DEF ServerDoes
  <2> QED BY <1>1, <2>1, <2>4, ServerKeeps DEF RemoteInv
<1>4. CASE branch # "error" /\ frame' = [frame EXCEPT ![ReactorOf[c]] = Request(branch, c, k, o)] /\ outbox' = {}
  <2> DEFINE f == Request(branch, c, k, o)
  <2>1. branch \in {"control", "watch"} /\ o \in Conns \cup {NoConn}
    BY <1>4, QueryType DEF ObtainBranch, RemoteInv, GInv
  <2>2. f \in Frame /\ f.conn = c /\ f.op \in {"control", "watch"}
    BY <2>1, RequestType
  <2> HIDE DEF f
  <2>3. Sent /\ \A x \in Conns : ~AnswersJoin(x)
    BY <1>4, NothingSent
  <2>4. /\ \A x \in Conns \ {c} : (Joining(x)' => Joining(x)) /\ (Asking(x)' => Asking(x))
        /\ Joining(c)' => Joining(c)
    BY <1>4, <2>2, RequestOpens DEF f, RemoteInv, GInv
  <2>5. \A x \in Conns : ServerDoes(x)
    BY <1>1, <1>2, <2>3, <2>4 DEF ServerDoes
  <2> QED BY <1>1, <2>3, <2>5, ServerKeeps DEF RemoteInv
<1> QED BY <1>3, <1>4 DEF ObtainCheck

LEMMA CreateStreamKeepsClients ==
  ASSUME RemoteInv, NEW c \in Conns, NEW ok \in BOOLEAN, CreateStream(c, ok), up[c] # <<>>,
         Head(up[c]).cmd = "CREATESTREAM", Head(up[c]).hasAddr = ok,
         up' = [up EXCEPT ![c] = Tail(@)], Deliver, Turned' = Turned
  PROVE  RemoteTypes' /\ ClientsHold'
<1>1. up' \in [Conns -> Seq(UpMessage)] /\ Takes(c) /\ \A x \in Conns \ {c} : up'[x] = up[x]
  BY TakeFacts DEF RemoteInv
<1>2. UNCHANGED <<life, role>> /\ addr' = [addr EXCEPT ![c] = ok] /\ \A x \in Conns : RoleIsGrounded(x)
  BY DEF CreateStream, RoleIsGrounded
<1>3. Sent /\ \A x \in Conns : ~AnswersJoin(x)
  BY NothingSent DEF CreateStream
<1>4. \A x \in Conns : (Joining(x)' => Joining(x)) /\ (Asking(x)' => Asking(x))
  <2>1. CASE frame' = frame
    BY <2>1, FramesStay
  <2>2. CASE frame' = [frame EXCEPT ![ReactorOf[c]] = Loop("create", c)]
    <3>1. Loop("create", c) \in Frame /\ Loop("create", c).conn = c /\ Loop("create", c).op = "create"
      BY LoopType DEF RemoteInv, GInv
    <3> QED BY <2>2, <3>1, RequestOpens DEF RemoteInv, GInv
  <2> QED BY <2>1, <2>2 DEF CreateStream
<1>5. \A x \in Conns : addr'[x] => addr[x] \/ (x = c /\ ok)
  BY <1>2 DEF RemoteInv, GInv, TypeOK
<1>6. \A x \in Conns : ServerDoes(x)
  BY <1>1, <1>2, <1>3, <1>4, <1>5 DEF ServerDoes
<1> QED BY <1>1, <1>3, <1>6, ServerKeeps DEF RemoteInv

\* nJoin: the only JOIN of a client is sent when the connection is new.
LEMMA JoinKeepsClients ==
  ASSUME RemoteInv, NEW c \in Conns, Join(c)
  PROVE  RemoteTypes' /\ ClientsHold'
<1> DEFINE b == JoinBody(IF c \in Controlled THEN CodeOf[c] ELSE JoinId)
<1>1. b \in UpMessage /\ IsJoin(b)
  BY ClientsAssumption DEF UpMessage, JoinBody, IsJoin
<1>2. up' = [up EXCEPT ![c] = <<b>>] /\ UNCHANGED <<Turned, down>>
  BY DEF Join, Turned
<1>3. life[c] = "new" /\ life' = [life EXCEPT ![c] = "open"] /\ UNCHANGED <<role, addr, frame>>
  BY DEF Join, Accept
<1> HIDE DEF b
<1>4. <<b>> \in Seq(UpMessage) /\ DOMAIN <<b>> = {1} /\ <<b>>[1] = b
  BY <1>1
<1>5. RemoteTypes'
  BY <1>2, <1>4 DEF RemoteInv, RemoteTypes
<1>6. ASSUME NEW x \in Conns PROVE JoinHolds(x)' /\ StateHolds(x)'
  <2>0. JoinHolds(x) /\ StateHolds(x)
    BY DEF RemoteInv, ClientsHold
  <2>1. (Joining(x)' <=> Joining(x)) /\ (Asking(x)' <=> Asking(x))
    BY <1>3, FramesStay
  <2>2. UNCHANGED <<Turned[x], down[x], role[x], addr[x]>>
    BY <1>2, <1>3
  <2>3. CASE x = c
    <3>1. up'[x] = <<b>> /\ life'[x] = "open"
      BY <1>2, <1>3, <2>3 DEF RemoteInv, RemoteTypes, GInv, TypeOK
    <3>2. NoJoin(down[x]) /\ ~Joining(x) /\ Turned[x] = "NONE"
      BY <1>3, <2>0, <2>3 DEF JoinHolds
    <3>3. OneJoin(up'[x]) /\ Range(up'[x]) = {b}
      BY <1>4, <3>1 DEF OneJoin, Range
    <3>4. JoinHolds(x)'
      BY <2>0, <2>1, <2>2, <3>1, <3>2, <3>3 DEF JoinHolds
    <3>5. (\A m \in Range(up[x]) : Says(m, Turned[x]))'
      BY <1>1, <2>2, <3>2, <3>3 DEF Says, IsJoin
    <3>6. StateHolds(x)'
      BY <2>0, <2>1, <2>2, <3>5 DEF StateHolds
    <3> QED BY <3>4, <3>6
  <2>4. CASE x # c
    <3>1. UNCHANGED <<up[x], life[x]>>
      BY <1>2, <1>3, <2>4 DEF RemoteInv, RemoteTypes, GInv, TypeOK
    <3> QED BY <2>0, <2>1, <2>2, <3>1 DEF JoinHolds, StateHolds
  <2> QED BY <2>3, <2>4
<1> QED BY <1>5, <1>6 DEF ClientsHold

\* A client that goes takes what is under way with it.
LEMMA LeaveKeepsClients ==
  ASSUME RemoteInv, NEW c \in Conns, Leave(c)
  PROVE  RemoteTypes' /\ ClientsHold'
<1> DEFINE lives == [life EXCEPT ![c] = "closing"]
<1>1. /\ up' = [up EXCEPT ![c] = <<>>] /\ down' = [down EXCEPT ![c] = <<>>] /\ Turned' = Turned
      /\ role' = [role EXCEPT ![c] = "CLOSE"] /\ addr' = addr /\ life[c] = "open"
      /\ Settle(lives, [target EXCEPT ![c] = NoConn], [frame EXCEPT ![ReactorOf[c]] = Loop("close", c)], registry)
  BY DEF Leave, Disconnect, StartClear, Ready, Turned
<1>2. lives \in [Conns -> Lives] /\ (\A x \in Conns : lives[x] = "new" => life[x] = "new") /\ lives[c] = "closing"
  BY DEF RemoteInv, GInv, TypeOK, Lives
<1> HIDE DEF lives
<1>3. /\ \A x \in Conns : life'[x] = lives[x] \/ life'[x] = "gone"
      /\ frame' = [frame EXCEPT ![ReactorOf[c]] = Loop("close", c)]
  BY <1>1, <1>2, SettleFacts DEF RemoteInv, GInv, TypeOK
<1>4. \A x \in Conns : (Joining(x)' => Joining(x)) /\ (Asking(x)' => Asking(x))
  <2>1. Loop("close", c) \in Frame /\ Loop("close", c).conn = c /\ Loop("close", c).op = "close"
    BY LoopType DEF RemoteInv, GInv
  <2> QED BY <1>3, <2>1, RequestOpens DEF RemoteInv, GInv
<1>5. RemoteTypes'
  <2>1. <<>> \in Seq(UpMessage) /\ <<>> \in Seq(Message)
    OBVIOUS
  <2> QED BY <1>1, <2>1 DEF RemoteInv, RemoteTypes
<1>6. ASSUME NEW x \in Conns PROVE JoinHolds(x)' /\ StateHolds(x)'
  <2>0. JoinHolds(x) /\ StateHolds(x)
    BY DEF RemoteInv, ClientsHold
  <2>1. (Joining(x)' => Joining(x)) /\ (Asking(x)' => Asking(x))
    BY <1>4
  <2>2. UNCHANGED <<Turned[x], addr[x]>> /\ (life'[x] = "new" => life[x] = "new")
    BY <1>1, <1>2, <1>3
  <2>3. CASE x = c
    <3>1. up'[x] = <<>> /\ down'[x] = <<>> /\ role'[x] = "CLOSE" /\ life'[x] # "new"
      BY <1>1, <1>2, <1>3, <2>3 DEF RemoteInv, RemoteTypes, GInv, TypeOK
    <3>2. OneJoin(<<>>) /\ NoJoin(<<>>) /\ Range(<<>>) = {}
      BY DEF OneJoin, NoJoin, Range
    <3>3. JoinHolds(x)'
      BY <2>0, <2>1, <2>2, <3>1, <3>2 DEF JoinHolds
    <3>4. StateHolds(x)'
      BY <2>0, <2>1, <2>2, <3>1, <3>2 DEF StateHolds
    <3> QED BY <3>3, <3>4
  <2>4. CASE x # c
    <3>1. UNCHANGED <<up[x], down[x], role[x]>>
      BY <1>1, <2>4 DEF RemoteInv, RemoteTypes, GInv, TypeOK
    <3>2. JoinHolds(x)'
      BY <2>0, <2>1, <2>2, <3>1 DEF JoinHolds
    <3>3. StateHolds(x)'
      BY <2>0, <2>1, <2>2, <3>1 DEF StateHolds
    <3> QED BY <3>2, <3>3
  <2> QED BY <2>3, <2>4
<1> QED BY <1>5, <1>6 DEF ClientsHold

-----------------------------------------------------------------------------
(* The client's handlers *)

\* What a handler of the client may do to its own state and to what is on its way to the server.
ClientDoes(c) ==
  /\ Turned' \in [Conns -> {"NONE", "IDLE", "PULLER", "PUSHER"}]
  /\ up' \in [Conns -> Seq(UpMessage)]
  /\ \A x \in Conns \ {c} : Turned'[x] = Turned[x] /\ up'[x] = up[x]
  /\ OneJoin(up'[c]) /\ (NoJoin(up[c]) => NoJoin(up'[c]))
  /\ \A m \in Range(up'[c]) : Says(m, Turned'[c])
  /\ Turned'[c] = Turned[c] \/ (NoJoin(Tail(down[c])) /\ ~Joining(c) /\ ~Asking(c) /\ ~addr[c]
                                /\ role[c] \notin {"PUSHER", "PULLER"})

LEMMA ClientKeeps ==
  ASSUME RemoteInv, NEW c \in Conns, down[c] # <<>>, life[c] = "open", UNCHANGED vars,
         down' = [down EXCEPT ![c] = Tail(@)], ClientDoes(c)
  PROVE  RemoteTypes' /\ ClientsHold'
<1>1. down[c] \in Seq(Message)
  BY DEF RemoteInv, RemoteTypes
<1>2. /\ Tail(down[c]) \in Seq(Message)
      /\ OneJoin(down[c]) => OneJoin(Tail(down[c]))
      /\ NoJoin(down[c]) => NoJoin(Tail(down[c]))
  BY <1>1, TailFacts DEF NoJoin
<1>3. down'[c] = Tail(down[c]) /\ \A x \in Conns \ {c} : down'[x] = down[x]
  BY DEF RemoteInv, RemoteTypes
<1>4. RemoteTypes'
  BY <1>2 DEF RemoteInv, RemoteTypes, ClientDoes
<1>5. ASSUME NEW x \in Conns PROVE JoinHolds(x)' /\ StateHolds(x)'
  <2>0. JoinHolds(x) /\ StateHolds(x)
    BY DEF RemoteInv, ClientsHold
  <2>1. (Joining(x)' <=> Joining(x)) /\ (Asking(x)' <=> Asking(x)) /\ UNCHANGED <<life, role, addr>>
    BY FramesStay DEF vars
  <2>2. CASE x = c
    <3>1. JoinHolds(c) /\ StateHolds(c) /\ ClientDoes(c)
      BY <2>0, <2>2
    <3>2. OneJoin(down'[c]) /\ (NoJoin(down[c]) => NoJoin(down'[c]))
      BY <1>2, <1>3, <3>1 DEF JoinHolds
    <3>3. JoinHolds(c)'
      BY <1>3, <2>1, <2>2, <3>1, <3>2 DEF JoinHolds, ClientDoes
    <3>4. (\A m \in Range(up[c]) : Says(m, Turned[c]))'
      BY <3>1 DEF ClientDoes
    <3>5. StateHolds(c)'
      BY <2>1, <2>2, <3>1, <3>4 DEF StateHolds, ClientDoes
    <3> QED BY <2>2, <3>3, <3>5
  <2>3. CASE x # c
    <3>1. UNCHANGED <<up[x], down[x], Turned[x]>>
      BY <1>3, <2>3 DEF ClientDoes
    <3>2. JoinHolds(x)'
      BY <2>0, <2>1, <3>1 DEF JoinHolds
    <3>3. StateHolds(x)'
      BY <2>0, <2>1, <3>1 DEF StateHolds
    <3> QED BY <3>2, <3>3
  <2> QED BY <2>2, <2>3
<1> QED BY <1>4, <1>5 DEF ClientsHold

LEMMA MindsStep == ASSUME MindTypes, [RemoteNext]_allVars PROVE MindTypes'
<1> USE DEF MindTypes
<1>1. CASE UNCHANGED <<cstate, becoming>>
  BY <1>1
<1>2. ASSUME NEW c \in Conns, ClientHandles(c) PROVE MindTypes'
  BY <1>2 DEF ClientHandles, DoJoin, DoPlayStream, DoCreateStream, DoDeleteStream, Ignore
<1>3. ASSUME NEW c \in Conns, SetState(c) PROVE MindTypes'
  BY <1>3 DEF SetState
<1>4. ASSUME NEW c \in Conns, Join(c) \/ ServerHandles(c) \/ Leave(c) PROVE MindTypes'
  BY <1>1, <1>4 DEF Join, ServerHandles, Leave
<1>5. ASSUME NEW r \in Reactors, ServerGoesOn(r) PROVE MindTypes'
  BY <1>1, <1>5 DEF ServerGoesOn
<1> QED BY <1>1, <1>2, <1>3, <1>4, <1>5 DEF RemoteNext, allVars, clientVars

\* A handler that sends nothing and leaves m_state.
LEMMA QuietClient ==
  ASSUME RemoteInv, NEW c \in Conns, UNCHANGED <<Turned, up>>
  PROVE  ClientDoes(c)
BY DEF RemoteInv, RemoteTypes, ClientsHold, JoinHolds, StateHolds, ClientDoes

\* The answer to the JOIN, which finds the client undecided and nothing of it under way.
LEMMA JoinAnswered ==
  ASSUME RemoteInv, MindTypes, NEW c \in Conns, down[c] # <<>>, IsJoin(Head(down[c])), becoming[c] = "none",
         NEW ok, DoJoin(c, ok)
  PROVE  ClientDoes(c)
<1>0. JoinHolds(c) /\ StateHolds(c) /\ down[c] \in Seq(Message) /\ up[c] \in Seq(UpMessage)
  BY DEF RemoteInv, RemoteTypes, ClientsHold
<1>1. Head(down[c]) \in Range(down[c]) /\ NoJoin(Tail(down[c]))
  BY <1>0, TailFacts DEF JoinHolds
<1>2. ~NoJoin(down[c])
  BY <1>1 DEF NoJoin
<1>3. NoJoin(up[c]) /\ ~Joining(c) /\ Turned[c] = "NONE" /\ OneJoin(up[c])
  BY <1>0, <1>2 DEF JoinHolds
<1>4. ~Asking(c) /\ ~addr[c] /\ role[c] \notin {"PUSHER", "PULLER"}
  BY <1>0, <1>3 DEF StateHolds
<1>5. \A m \in Range(up[c]) : ~IsJoin(m) /\ m.cmd # "OBTAINSTREAM" /\ ~(m.cmd = "CREATESTREAM" /\ m.hasAddr)
  BY <1>0, <1>3 DEF StateHolds, Says, NoJoin
<1>6. CASE ~ok
  BY <1>6, QuietClient DEF DoJoin, Ignore, Turned
<1>7. CASE ok /\ c \in Controlled
  <2>1. Turned' = [Turned EXCEPT ![c] = "IDLE"] /\ up' = up
    BY <1>7 DEF DoJoin, Turned, MindTypes
  <2>2. /\ Turned' \in [Conns -> {"NONE", "IDLE", "PULLER", "PUSHER"}] /\ Turned'[c] = "IDLE"
        /\ \A x \in Conns \ {c} : Turned'[x] = Turned[x]
    BY <2>1 DEF RemoteInv, RemoteTypes
  <2>3. \A m \in Range(up'[c]) : Says(m, Turned'[c])
    BY <1>5, <2>1 DEF Says
  <2> QED BY <1>1, <1>3, <1>4, <2>1, <2>2, <2>3 DEF RemoteInv, RemoteTypes, ClientDoes
<1>8. CASE ok /\ c \notin Controlled
  <2> DEFINE b == ObtainStreamBody(CodeOf[c])
  <2>1. b \in UpMessage /\ ~IsJoin(b) /\ b.cmd = "OBTAINSTREAM"
    BY ClientsAssumption DEF UpMessage, ObtainStreamBody, IsJoin
  <2>2. Turned' = [Turned EXCEPT ![c] = "PULLER"] /\ up' = [up EXCEPT ![c] = Append(@, b)]
    BY <1>8 DEF DoJoin, Turned, MindTypes
  <2> HIDE DEF b
  <2>3. /\ Append(up[c], b) \in Seq(UpMessage) /\ Range(Append(up[c], b)) = Range(up[c]) \cup {b}
        /\ OneJoin(Append(up[c], b))
    BY <1>0, <1>3, <2>1, AppendFacts
  <2>4. /\ Turned' \in [Conns -> {"NONE", "IDLE", "PULLER", "PUSHER"}] /\ Turned'[c] = "PULLER"
        /\ up' \in [Conns -> Seq(UpMessage)] /\ up'[c] = Append(up[c], b)
        /\ \A x \in Conns \ {c} : Turned'[x] = Turned[x] /\ up'[x] = up[x]
    BY <2>2, <2>3 DEF RemoteInv, RemoteTypes
  <2>5. \A m \in Range(up'[c]) : Says(m, Turned'[c]) /\ ~IsJoin(m)
    BY <1>5, <2>1, <2>3, <2>4 DEF Says
  <2>6. NoJoin(up'[c]) /\ OneJoin(up'[c])
    BY <2>3, <2>4, <2>5 DEF NoJoin
  <2> QED BY <1>1, <1>3, <1>4, <2>4, <2>5, <2>6 DEF ClientDoes
<1> QED BY <1>6, <1>7, <1>8

\* DoCreateStream, of a client that is IDLE: what of it is under way says nothing else yet.
LEMMA CreateAnswered ==
  ASSUME RemoteInv, MindTypes, NEW c \in Conns, down[c] # <<>>, becoming[c] = "none", DoCreateStream(c)
  PROVE  ClientDoes(c)
<1>0. JoinHolds(c) /\ StateHolds(c) /\ down[c] \in Seq(Message) /\ up[c] \in Seq(UpMessage)
  BY DEF RemoteInv, RemoteTypes, ClientsHold
<1>3. Turned[c] = cstate[c]
  BY DEF Turned
<1>1. CASE ~(Turned[c] = "IDLE" /\ c \in Controlled)
  BY <1>1, <1>3, QuietClient DEF DoCreateStream, Ignore, Turned
<1>2. CASE Turned[c] = "IDLE" /\ c \in Controlled
  <2>1. PICK started \in BOOLEAN :
          /\ up' = [up EXCEPT ![c] = Append(@, CreateStreamReply(started))]
          /\ Turned' = [Turned EXCEPT ![c] = IF started THEN "PUSHER" ELSE @]
    BY <1>2, <1>3 DEF DoCreateStream, Turned, MindTypes
  <2> DEFINE b == CreateStreamReply(started)
  <2>2. b \in UpMessage /\ ~IsJoin(b) /\ b.cmd = "CREATESTREAM" /\ b.hasAddr = started
    BY DEF UpMessage, CreateStreamReply, IsJoin
  <2>3. up' = [up EXCEPT ![c] = Append(@, b)]
    BY <2>1
  <2> HIDE DEF b
  <2>4. /\ NoJoin(down[c]) /\ ~Joining(c) /\ ~Asking(c) /\ ~addr[c] /\ role[c] \notin {"PUSHER", "PULLER"}
        /\ OneJoin(up[c]) /\ NoJoin(up[c])
    <3>1. NoJoin(up[c])
      BY <1>0, <1>2 DEF StateHolds, Says, NoJoin
    <3> QED BY <1>0, <1>2, <3>1 DEF JoinHolds, StateHolds
  <2>5. /\ Append(up[c], b) \in Seq(UpMessage) /\ Range(Append(up[c], b)) = Range(up[c]) \cup {b}
        /\ OneJoin(Append(up[c], b))
    BY <1>0, <2>2, <2>4, AppendFacts
  <2>6. /\ Turned' \in [Conns -> {"NONE", "IDLE", "PULLER", "PUSHER"}]
        /\ Turned'[c] = IF started THEN "PUSHER" ELSE "IDLE"
        /\ up' \in [Conns -> Seq(UpMessage)] /\ up'[c] = Append(up[c], b)
        /\ \A x \in Conns \ {c} : Turned'[x] = Turned[x] /\ up'[x] = up[x]
    BY <1>2, <2>1, <2>3, <2>5 DEF RemoteInv, RemoteTypes
  <2>7. \A m \in Range(up[c]) : ~IsJoin(m) /\ m.cmd # "OBTAINSTREAM" /\ ~(m.cmd = "CREATESTREAM" /\ m.hasAddr)
    BY <1>0, <1>2 DEF StateHolds, Says
  <2>8. \A m \in Range(up'[c]) : Says(m, Turned'[c]) /\ ~IsJoin(m)
    BY <2>2, <2>5, <2>6, <2>7 DEF Says
  <2>9. NoJoin(up'[c]) /\ OneJoin(up'[c]) /\ NoJoin(Tail(down[c]))
    BY <1>0, <2>4, <2>5, <2>6, <2>8, TailFacts DEF NoJoin
  <2> QED BY <2>4, <2>6, <2>8, <2>9 DEF ClientDoes
<1> QED BY <1>1, <1>2

LEMMA ClientHandlesKeepsClients ==
  ASSUME RemoteInv, MindTypes, NEW c \in Conns, ClientHandles(c)
  PROVE  RemoteTypes' /\ ClientsHold'
<1> DEFINE m == Head(down[c])
<1>1. /\ life[c] = "open" /\ down[c] # <<>> /\ becoming[c] = "none" /\ UNCHANGED vars
      /\ down' = [down EXCEPT ![c] = Tail(@)]
      /\ \/ m.cmd = "JOIN" /\ DoJoin(c, m.ok)
         \/ m.cmd = "PLAYSTREAM" /\ DoPlayStream(c, m.ok)
         \/ m.cmd = "CREATESTREAM" /\ DoCreateStream(c)
         \/ m.cmd = "DELETESTREAM" /\ DoDeleteStream(c, m.count)
         \/ m.cmd = "OBTAINSTREAM" /\ Ignore
  BY DEF ClientHandles
<1> HIDE DEF m
<1>2. CASE m.cmd = "JOIN" /\ DoJoin(c, m.ok)
  BY <1>1, <1>2, JoinAnswered, ClientKeeps DEF IsJoin, m
<1>3. CASE DoCreateStream(c)
  BY <1>1, <1>3, CreateAnswered, ClientKeeps
<1>4. CASE DoPlayStream(c, m.ok) \/ DoDeleteStream(c, m.count) \/ Ignore
  <2>1. UNCHANGED <<Turned, up>>
    BY <1>4 DEF DoPlayStream, DoDeleteStream, Ignore, Turned
  <2> QED BY <1>1, <2>1, QuietClient, ClientKeeps
<1> QED BY <1>1, <1>2, <1>3, <1>4

-----------------------------------------------------------------------------
(* The theorems *)

LEMMA InitRemoteInv == RemoteInit => RemoteInv
<1> SUFFICES ASSUME RemoteInit PROVE RemoteInv
  OBVIOUS
<1>1. GInv
  BY InitGInv DEF RemoteInit
<1>2. <<>> \in Seq(UpMessage) /\ <<>> \in Seq(Message) /\ OneJoin(<<>>) /\ NoJoin(<<>>) /\ Range(<<>>) = {}
  BY DEF OneJoin, NoJoin, Range
<1>3. RemoteTypes
  BY <1>2 DEF RemoteInit, RemoteTypes, Turned
<1>4. ASSUME NEW c \in Conns PROVE JoinHolds(c) /\ StateHolds(c)
  <2>1. ~Joining(c) /\ ~Asking(c) /\ ~addr[c] /\ role[c] = "NONE"
    BY IdleFrame DEF RemoteInit, Init, Joining, Asking
  <2>2. up[c] = <<>> /\ down[c] = <<>> /\ Turned[c] = "NONE"
    BY DEF RemoteInit, Turned
  <2> QED BY <1>2, <2>1, <2>2 DEF JoinHolds, StateHolds
<1> QED BY <1>1, <1>3, <1>4 DEF RemoteInv, ClientsHold

LEMMA ServerHandlesKeeps == ASSUME RemoteInv, NEW c \in Conns, ServerHandles(c) PROVE RemoteInv'
<1> DEFINE m == Head(up[c])
<1>1. /\ up[c] # <<>> /\ up' = [up EXCEPT ![c] = Tail(@)] /\ Deliver /\ Turned' = Turned
      /\ \/ m.cmd = "JOIN" /\ JoinCheck(c, m.id)
         \/ m.cmd = "OBTAINSTREAM" /\ ObtainCheck(c, m.id)
         \/ m.cmd = "CREATESTREAM" /\ CreateStream(c, m.hasAddr)
  BY DEF ServerHandles, Turned
<1>2. m \in UpMessage
  BY <1>1, TakeFacts DEF RemoteInv
<1>3. (m.cmd \in {"JOIN", "OBTAINSTREAM"} => m.id \in Ids) /\ (m.cmd = "CREATESTREAM" => m.hasAddr \in BOOLEAN)
  BY <1>2 DEF UpMessage, Ids
<1>4. CASE m.cmd = "JOIN" /\ JoinCheck(c, m.id)
  <2>1. GInv'
    BY <1>3, <1>4, JoinCheckGInv DEF RemoteInv
  <2>2. IsJoin(Head(up[c]))
    BY <1>4 DEF IsJoin
  <2> QED BY <1>1, <1>3, <1>4, <2>1, <2>2, JoinCheckKeepsClients DEF RemoteInv
<1>5. CASE m.cmd = "OBTAINSTREAM" /\ ObtainCheck(c, m.id)
  <2>1. GInv'
    BY <1>3, <1>5, ObtainCheckGInv DEF RemoteInv
  <2> QED BY <1>1, <1>3, <1>5, <2>1, ObtainCheckKeepsClients DEF RemoteInv
<1>6. CASE m.cmd = "CREATESTREAM" /\ CreateStream(c, m.hasAddr)
  <2>1. GInv'
    BY <1>3, <1>6, CreateStreamGInv DEF RemoteInv
  <2> QED BY <1>1, <1>3, <1>6, <2>1, CreateStreamKeepsClients DEF RemoteInv
<1> QED BY <1>1, <1>4, <1>5, <1>6

LEMMA ServerGoesOnKeeps == ASSUME RemoteInv, NEW r \in Reactors, ServerGoesOn(r) PROVE RemoteInv'
<1>1. Deliver /\ UNCHANGED <<Turned, up>>
  BY DEF ServerGoesOn, Turned
<1>2. CASE JoinAdd(r)
  BY <1>1, <1>2, JoinAddGInv, JoinAddKeepsClients DEF RemoteInv
<1>3. CASE ObtainLink(r)
  BY <1>1, <1>3, ObtainLinkGInv, ObtainLinkKeepsClients DEF RemoteInv
<1>4. CASE CreateStep(r)
  BY <1>1, <1>4, CreateStepGInv, CreateStepKeepsClients DEF RemoteInv
<1>5. CASE ClearStep(r)
  BY <1>1, <1>5, ClearStepGInv, ClearStepKeepsClients DEF RemoteInv
<1>6. CASE ClearEnd(r)
  BY <1>1, <1>6, ClearEndGInv, ClearEndKeepsClients DEF RemoteInv
<1> QED BY <1>2, <1>3, <1>4, <1>5, <1>6 DEF ServerGoesOn

LEMMA RemoteStep == ASSUME RemoteInv, MindTypes, [RemoteNext]_allVars PROVE RemoteInv'
<1>1. CASE UNCHANGED <<vars, Turned, up, down>>
  <2>1. UNCHANGED vars /\ UNCHANGED <<Turned, up, down>>
    BY <1>1
  <2>2. GInv'
    BY <2>1, ReplyGInv DEF vars, RemoteInv, GInv, TypeOK
  <2>3. RemoteTypes'
    BY <2>1 DEF RemoteInv, RemoteTypes
  <2>4. ClientsHold'
    BY <2>1 DEF RemoteInv, ClientsHold, JoinHolds, StateHolds, Joining, Asking, vars
  <2> QED BY <2>2, <2>3, <2>4 DEF RemoteInv
<1>2. ASSUME NEW c \in Conns, Join(c) PROVE RemoteInv'
  BY <1>2, AcceptGInv, JoinKeepsClients DEF RemoteInv, Join
<1>3. ASSUME NEW c \in Conns, Leave(c) PROVE RemoteInv'
  BY <1>3, StartClearGInv, LeaveKeepsClients DEF RemoteInv, Leave, Disconnect
<1>4. ASSUME NEW c \in Conns, ClientHandles(c) PROVE RemoteInv'
  <2>1. GInv'
    BY <1>4, ReplyGInv DEF ClientHandles, vars, RemoteInv, GInv, TypeOK
  <2> QED BY <1>4, <2>1, ClientHandlesKeepsClients DEF RemoteInv
<1>5. ASSUME NEW c \in Conns, SetState(c) PROVE RemoteInv'
  <2>1. cstate'[c] = becoming[c] /\ becoming'[c] = "none" /\ becoming[c] # "none"
        /\ \A x \in Conns \ {c} : cstate'[x] = cstate[x] /\ becoming'[x] = becoming[x]
    BY <1>5 DEF SetState, MindTypes
  <2>2. Turned' = Turned
    BY <2>1 DEF Turned
  <2> QED BY <1>1, <1>5, <2>2 DEF SetState
<1>6. CASE UNCHANGED allVars
  BY <1>1, <1>6 DEF allVars, clientVars, Turned
<1> QED BY <1>2, <1>3, <1>4, <1>5, <1>6, ServerHandlesKeeps, ServerGoesOnKeeps DEF RemoteNext

THEOREM RemoteInvariant == RemoteSpec => []RemoteInv
<1>1. RemoteInit => MindTypes
  BY DEF RemoteInit, MindTypes
<1>2. RemoteInv /\ MindTypes /\ [RemoteNext]_allVars => RemoteInv' /\ MindTypes'
  BY RemoteStep, MindsStep
<1> QED BY <1>1, <1>2, InitRemoteInv, PTL DEF RemoteSpec

\* The server takes a client for a pusher or a puller only when the client takes itself for one, or will at the end
\* of the handler it is in, whatever is under way between them and however many reactors serve the clients.
THEOREM ServerKnowsItsClients == RemoteSpec => []RolesAgree
<1>1. RemoteInv => RolesAgree
  BY DEF RemoteInv, ClientsHold, StateHolds, RolesAgree
<1> QED BY <1>1, RemoteInvariant, PTL

LEMMA RemoteIsServer == ASSUME Codes \subseteq Asked, RemoteInv, [RemoteNext]_allVars PROVE [Next]_vars
<1>1. CASE UNCHANGED allVars
  BY <1>1 DEF allVars
<1>2. ASSUME NEW c \in Conns, Join(c) \/ Leave(c) \/ ClientHandles(c) \/ SetState(c) PROVE [Next]_vars
  BY <1>2 DEF Join, Leave, ClientHandles, SetState, Next
<1>3. ASSUME NEW c \in Conns, ServerHandles(c) PROVE Next
  <2> DEFINE m == Head(up[c])
  <2>1. m \in UpMessage
    BY <1>3, TakeFacts DEF ServerHandles, RemoteInv
  <2>2. (m.cmd \in {"JOIN", "OBTAINSTREAM"} => m.id \in Asked) /\ (m.cmd = "CREATESTREAM" => m.hasAddr \in BOOLEAN)
    BY <2>1 DEF UpMessage
  <2>3. \/ m.cmd = "JOIN" /\ JoinCheck(c, m.id)
        \/ m.cmd = "OBTAINSTREAM" /\ ObtainCheck(c, m.id)
        \/ m.cmd = "CREATESTREAM" /\ CreateStream(c, m.hasAddr)
    BY <1>3 DEF ServerHandles
  <2> HIDE DEF m
  <2> QED BY <2>2, <2>3 DEF Next
<1>4. ASSUME NEW r \in Reactors, ServerGoesOn(r) PROVE Next
  BY <1>4 DEF ServerGoesOn, Next
<1> QED BY <1>1, <1>2, <1>3, <1>4 DEF RemoteNext

\* What is proved of the server alone, whose clients may send anything, holds of it among its
\* clients: every step of the composition is a step of the server or leaves it alone.
THEOREM ClientsAreAllowed == Codes \subseteq Asked => (RemoteSpec => Spec)
<1> SUFFICES ASSUME Codes \subseteq Asked PROVE RemoteSpec => Spec
  OBVIOUS
<1>1. RemoteInit => Init
  BY DEF RemoteInit
<1>2. RemoteInv /\ [RemoteNext]_allVars => [Next]_vars
  BY RemoteIsServer
<1> QED BY <1>1, <1>2, RemoteInvariant, PTL DEF RemoteSpec, Spec
=============================================================================
