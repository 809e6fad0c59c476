------------------------ MODULE TcpConnection_proofs ------------------------
(***************************************************************************)
(* No deadlock between the mutexes of CTcpConnection, for any number of    *)
(* connections and threads.                                                *)
(***************************************************************************)
EXTENDS TcpConnection, SequenceTheorems, TLAPS

CallType == [at : Places, conn : Conns, rest : SUBSET Conns]

\* The places inside a critical section, and those of the calls that begin a thread's work.
Inside == {"reading", "appending", "writing", "notify"}
Outer == {"read", "reading", "callback", "close"}

\* Only the innermost call is in the middle of something; Close calls nothing but Send.
WellNested(s) ==
  \A i, j \in 1..Len(s) : i < j =>
    /\ s[i].at \in {"write", "close", "callback", "notify"}
    /\ s[i].at = "notify" => s[j].at \notin Outer

\* Some call of the stack is inside the critical section of h.
Covers(s, h) == \E i \in 1..Len(s) : s[i].conn = h /\ s[i].at \in Inside

\* The connections whose callbacks run are closed.
Notifies(s, closed) == \A i \in 1..Len(s) : s[i].at = "notify" => closed[s[i].conn] # 0

LockInv ==
  /\ TypeOK
  /\ \A t \in Threads : WellNested(stack[t])
  /\ \A t \in Threads, h \in Conns : mutex[h] = t => Covers(stack[t], h)
  /\ \A t \in Threads : Notifies(stack[t], closedAt)
  /\ \A c \in Conns : closedAt[c] <= closes
  /\ \A t \in Threads, h \in Conns :
       In(t, "append") /\ mutex[h] = t => closedAt[Conn(t)] = 0 \/ closedAt[h] < closedAt[Conn(t)]

-----------------------------------------------------------------------------
(* Stacks *)

LEMMA FrontFacts ==
  ASSUME NEW S, NEW s \in Seq(S), s # <<>>
  PROVE  /\ Front(s) \in Seq(S)
         /\ Len(s) \in Nat \ {0} /\ Len(Front(s)) = Len(s) - 1
         /\ \A i \in 1..(Len(s) - 1) : Front(s)[i] = s[i]
         /\ Last(s) = s[Len(s)] /\ Last(s) \in S
<1>1. Len(s) \in Nat \ {0} /\ s[Len(s)] \in S
  OBVIOUS
<1>2. \A x \in 1..(Len(s) - 1) : s[x] \in S
  BY <1>1
<1>3. /\ SubSeq(s, 1, Len(s) - 1) \in Seq(S)
      /\ Len(SubSeq(s, 1, Len(s) - 1)) = Len(s) - 1
      /\ \A x \in 1..(Len(s) - 1) : SubSeq(s, 1, Len(s) - 1)[x] = s[x]
  <2>1. 1 \in Int /\ Len(s) - 1 \in Int
    BY <1>1
  <2>2. /\ SubSeq(s, 1, Len(s) - 1) \in Seq(S)
        /\ Len(SubSeq(s, 1, Len(s) - 1)) = IF 1 <= Len(s) - 1 THEN (Len(s) - 1) - 1 + 1 ELSE 0
        /\ \A x \in 1..((Len(s) - 1) - 1 + 1) : SubSeq(s, 1, Len(s) - 1)[x] = s[1 + x - 1]
    BY <1>2, <2>1, SubSeqProperties
  <2>3. ASSUME NEW x \in 1..(Len(s) - 1) PROVE SubSeq(s, 1, Len(s) - 1)[x] = s[x]
    <3>1. x \in 1..((Len(s) - 1) - 1 + 1) /\ 1 + x - 1 = x
      BY <1>1
    <3> QED BY <2>2, <3>1
  <2>4. Len(SubSeq(s, 1, Len(s) - 1)) = Len(s) - 1
    <3> DEFINE n == Len(s)
    <3>1. n \in Nat \ {0}
      BY <1>1
    <3>2. Len(SubSeq(s, 1, n - 1)) = IF 1 <= n - 1 THEN (n - 1) - 1 + 1 ELSE 0
      BY <2>2
    <3> HIDE DEF n
    <3>3. Len(SubSeq(s, 1, n - 1)) = n - 1
      BY <3>1, <3>2
    <3> QED BY <3>3 DEF n
  <2> QED BY <2>2, <2>3, <2>4
<1>4. Front(s) = SubSeq(s, 1, Len(s) - 1) /\ Last(s) = s[Len(s)]
  BY DEF Front, Last
<1> QED BY <1>1, <1>3, <1>4

LEMMA PopFacts ==
  ASSUME NEW s \in Seq(CallType), s # <<>>, WellNested(s), NEW closed, Notifies(s, closed)
  PROVE  /\ WellNested(Front(s))
         /\ Notifies(Front(s), closed)
         /\ \A h \in Conns : Covers(s, h) /\ (Last(s).at \notin Inside \/ Last(s).conn # h) => Covers(Front(s), h)
<1>1. /\ Len(s) \in Nat \ {0} /\ Len(Front(s)) = Len(s) - 1
      /\ \A i \in 1..(Len(s) - 1) : Front(s)[i] = s[i]
      /\ Last(s) = s[Len(s)]
  BY FrontFacts
<1> DEFINE p == Front(s)
           n == Len(s)
<1> HIDE DEF p
<1>2. WellNested(p)
  BY <1>1 DEF WellNested, p
<1>3. Notifies(p, closed)
  BY <1>1 DEF Notifies, p
<1>4. ASSUME NEW h \in Conns, Covers(s, h), Last(s).at \notin Inside \/ Last(s).conn # h PROVE Covers(p, h)
  BY <1>1, <1>4 DEF Covers, p
<1> QED BY <1>2, <1>3, <1>4 DEF p

LEMMA PushFacts ==
  ASSUME NEW s \in Seq(CallType), WellNested(s), NEW closed, Notifies(s, closed), NEW f \in CallType,
         s # <<>> => Last(s).at \in {"write", "close", "callback", "notify"},
         \A i \in 1..Len(s) : s[i].at = "notify" => f.at \notin Outer,
         f.at = "notify" => closed[f.conn] # 0
  PROVE  /\ Append(s, f) \in Seq(CallType)
         /\ Append(s, f) # <<>> /\ Last(Append(s, f)) = f
         /\ WellNested(Append(s, f))
         /\ Notifies(Append(s, f), closed)
         /\ \A h \in Conns : Covers(s, h) => Covers(Append(s, f), h)
         /\ f.at \in Inside => Covers(Append(s, f), f.conn)
<1> DEFINE p == Append(s, f)
<1>1. /\ p \in Seq(CallType) /\ Len(p) = Len(s) + 1 /\ p # <<>>
      /\ \A i \in 1..Len(s) : p[i] = s[i]
      /\ p[Len(s) + 1] = f
      /\ Len(s) \in Nat
  <2>1. Len(s) \in Nat
    OBVIOUS
  <2>2. p \in Seq(CallType) /\ Len(p) = Len(s) + 1
    OBVIOUS
  <2>3. \A i \in 1..Len(s) : p[i] = s[i]
    OBVIOUS
  <2>4. p[Len(s) + 1] = f
    OBVIOUS
  <2>5. p # <<>>
    <3> HIDE DEF p
    <3> QED BY <2>1, <2>2
  <2> HIDE DEF p
  <2> QED BY <2>1, <2>2, <2>3, <2>4, <2>5
<1> HIDE DEF p
<1>2. Last(p) = f
  BY <1>1 DEF Last
<1>3. WellNested(p)
  <2> SUFFICES ASSUME NEW i \in 1..Len(p), NEW j \in 1..Len(p), i < j
               PROVE  /\ p[i].at \in {"write", "close", "callback", "notify"}
                      /\ p[i].at = "notify" => p[j].at \notin Outer
    BY DEF WellNested
  <2>1. i \in 1..Len(s) /\ p[i] = s[i]
    BY <1>1
  <2>2. CASE j = Len(s) + 1
    <3>1. s[i].at \in {"write", "close", "callback", "notify"}
      <4>1. CASE i = Len(s)
        BY <2>1, <4>1 DEF Last
      <4>2. CASE i < Len(s)
        BY <2>1, <4>2, <1>1 DEF WellNested
      <4> QED BY <2>1, <4>1, <4>2, <1>1
    <3> QED BY <1>1, <2>1, <2>2, <3>1
  <2>3. CASE j # Len(s) + 1
    <3>1. j \in 1..Len(s) /\ p[j] = s[j]
      BY <1>1, <2>3
    <3> QED BY <2>1, <3>1 DEF WellNested
  <2> QED BY <2>2, <2>3
<1>4. Notifies(p, closed)
  BY <1>1 DEF Notifies
<1>5. ASSUME NEW h \in Conns, Covers(s, h) PROVE Covers(p, h)
  BY <1>1, <1>5 DEF Covers
<1>6. f.at \in Inside => Covers(p, f.conn)
  BY <1>1 DEF Covers
<1> QED BY <1>1, <1>2, <1>3, <1>4, <1>5, <1>6 DEF p

\* What LockInv says of one thread, and what a step that leaves the flags and the mutexes of others
\* alone has to show for it.
Sound(t) ==
  /\ WellNested(stack[t])
  /\ \A h \in Conns : mutex[h] = t => Covers(stack[t], h)
  /\ Notifies(stack[t], closedAt)
  /\ \A h \in Conns :
       In(t, "append") /\ mutex[h] = t => closedAt[Conn(t)] = 0 \/ closedAt[h] < closedAt[Conn(t)]

LEMMA LockInvSound == LockInv <=> /\ TypeOK
                                  /\ \A c \in Conns : closedAt[c] <= closes
                                  /\ \A t \in Threads : Sound(t)
BY DEF LockInv, Sound

\* A thread keeps what it has when another one changes a mutex it does not hold, or closes a
\* connection.
LEMMA OthersSound ==
  ASSUME LockInv, NEW t \in Threads, stack'[t] = stack[t],
         \A h \in Conns : mutex'[h] = t => mutex[h] = t,
         \/ closedAt' = closedAt
         \/ \E c \in Conns : closedAt[c] = 0 /\ closedAt' = [closedAt EXCEPT ![c] = closes + 1]
  PROVE  Sound(t)'
<1>1. Sound(t)
  BY LockInvSound
<1>2. WellNested(stack[t])' /\ \A h \in Conns : mutex'[h] = t => Covers(stack'[t], h)
  BY <1>1 DEF Sound
<1>3. \A c \in Conns : closedAt[c] # 0 => closedAt'[c] = closedAt[c]
  BY DEF LockInv, TypeOK
<1>4. Notifies(stack'[t], closedAt')
  <2> SUFFICES ASSUME NEW i \in 1..Len(stack[t]), stack[t][i].at = "notify"
               PROVE  closedAt'[stack[t][i].conn] # 0
    BY DEF Notifies
  <2>1. stack[t] \in Seq(CallType)
    BY DEF LockInv, TypeOK, CallType
  <2>2. stack[t][i] \in CallType
    BY <2>1
  <2>3. stack[t][i].conn \in Conns
    BY <2>2 DEF CallType
  <2> QED BY <1>1, <1>3, <2>3 DEF Sound, Notifies
<1>5. ASSUME NEW h \in Conns, In(t, "append"), mutex[h] = t
      PROVE  closedAt'[Conn(t)] = 0 \/ closedAt'[h] < closedAt'[Conn(t)]
  <2> DEFINE s == stack[t]
             c == Last(s).conn
  <2>1. s \in Seq(CallType) /\ s # <<>> /\ Last(s).at = "append"
    BY <1>5 DEF In, LockInv, TypeOK, CallType
  <2>2. c \in Conns /\ Last(s) = s[Len(s)] /\ Len(s) \in Nat \ {0}
    <3>1. Last(s) \in CallType /\ Last(s) = s[Len(s)] /\ Len(s) \in Nat \ {0}
      BY <2>1, FrontFacts
    <3> QED BY <3>1 DEF CallType
  <2>3. closedAt[h] # 0
    <3>1. PICK i \in 1..Len(s) : s[i].conn = h /\ s[i].at \in Inside
      BY <1>1, <1>5 DEF Sound, Covers
    <3>2. i # Len(s)
      BY <2>1, <2>2, <3>1 DEF Inside
    <3>3. s[i].at = "notify"
      BY <1>1, <2>2, <3>1, <3>2 DEF Sound, WellNested, Inside
    <3> QED BY <1>1, <3>1, <3>3 DEF Sound, Notifies
  <2>4. closedAt[c] = 0 \/ closedAt[h] < closedAt[c]
    BY <1>1, <1>5 DEF Sound, Conn
  <2>5. closedAt[h] <= closes /\ closes \in Nat /\ closedAt \in [Conns -> Nat]
    BY DEF LockInv, TypeOK
  <2> HIDE DEF c
  <2>6. closedAt'[h] = closedAt[h] /\ (closedAt'[c] = closedAt[c] \/ closedAt'[c] = closes + 1)
    BY <1>3, <2>2, <2>3, <2>5
  <2>7. closedAt'[c] = 0 \/ closedAt'[h] < closedAt'[c]
    BY <2>2, <2>4, <2>5, <2>6
  <2> QED BY <2>7 DEF c, Conn
<1>6. (\A h \in Conns : In(t, "append") /\ mutex[h] = t => closedAt[Conn(t)] = 0 \/ closedAt[h] < closedAt[Conn(t)])'
  BY <1>5 DEF In, Conn
<1> QED BY <1>2, <1>4, <1>6 DEF Sound

-----------------------------------------------------------------------------
(* Steps *)

\* The types of the variables other than closedAt, closes and stack.
BufferTypes ==
  /\ mutex \in [Conns -> Threads \cup {Free}]
  /\ pending \in [Conns -> 0..Capacity]
  /\ writing \in [Conns -> BOOLEAN]
  /\ polled \in [Conns -> BOOLEAN]

\* A step of t that closes nothing, or the connection c.
MayClose(c) ==
  \/ UNCHANGED <<closedAt, closes>>
  \/ closedAt[c] = 0 /\ closedAt' = [closedAt EXCEPT ![c] = closes + 1] /\ closes' = closes + 1

LEMMA StepInv ==
  ASSUME LockInv, NEW t \in Threads, NEW c \in Conns, NEW s \in Seq(CallType), stack' = [stack EXCEPT ![t] = s],
         BufferTypes', MayClose(c),
         \A h \in Conns : mutex'[h] \in {mutex[h], Free, t},
         Sound(t)'
  PROVE  LockInv'
<1>1. closedAt' \in [Conns -> Nat] /\ closes' \in Nat
  BY DEF LockInv, TypeOK, MayClose
<1>2. stack' \in [Threads -> Seq(CallType)]
  BY DEF LockInv, TypeOK, CallType
<1>3. TypeOK'
  BY <1>1, <1>2 DEF TypeOK, BufferTypes, CallType
<1>4. \A x \in Conns : closedAt'[x] <= closes'
  <2>1. closedAt \in [Conns -> Nat] /\ closes \in Nat /\ \A x \in Conns : closedAt[x] <= closes
    BY DEF LockInv, TypeOK
  <2>2. CASE UNCHANGED <<closedAt, closes>>
    BY <2>1, <2>2
  <2>3. CASE closedAt' = [closedAt EXCEPT ![c] = closes + 1] /\ closes' = closes + 1
    <3> SUFFICES ASSUME NEW x \in Conns PROVE closedAt'[x] <= closes'
      OBVIOUS
    <3>1. closedAt'[x] = IF x = c THEN closes + 1 ELSE closedAt[x]
      BY <2>1, <2>3
    <3>2. closedAt[x] \in Nat /\ closedAt[x] <= closes
      BY <2>1
    <3> QED BY <2>1, <2>3, <3>1, <3>2
  <2> QED BY <2>2, <2>3 DEF MayClose
<1>5. ASSUME NEW u \in Threads, u # t PROVE Sound(u)'
  <2>1. stack'[u] = stack[u]
    BY <1>5 DEF LockInv, TypeOK
  <2>2. \A h \in Conns : mutex'[h] = u => mutex[h] = u
    BY <1>5, ThreadsAssumption
  <2>3. closedAt' = closedAt \/ \E x \in Conns : closedAt[x] = 0 /\ closedAt' = [closedAt EXCEPT ![x] = closes + 1]
    BY DEF MayClose
  <2> QED BY <2>1, <2>2, <2>3, OthersSound
<1>6. \A u \in Threads : Sound(u)'
  BY <1>5
<1> QED BY <1>3, <1>4, <1>6, LockInvSound DEF LockInv, Sound

LEMMA TopFacts ==
  ASSUME LockInv, NEW t \in Threads, stack[t] # <<>>
  PROVE  /\ stack[t] \in Seq(CallType) /\ Front(stack[t]) \in Seq(CallType)
         /\ Conn(t) \in Conns /\ Last(stack[t]) \in CallType
<1>1. stack[t] \in Seq(CallType)
  BY DEF LockInv, TypeOK, CallType
<1>2. Front(stack[t]) \in Seq(CallType) /\ Last(stack[t]) \in CallType
  BY <1>1, FrontFacts
<1> QED BY <1>1, <1>2 DEF CallType, Conn

LEMMA ReturnInv ==
  ASSUME LockInv, NEW t \in Threads, stack[t] # <<>>, Return(t),
         UNCHANGED <<closedAt, closes>>, BufferTypes',
         \A h \in Conns : mutex'[h] = mutex[h] \/ mutex'[h] = Free,
         Last(stack[t]).at \in Inside => mutex'[Conn(t)] # t
  PROVE  LockInv'
<1> DEFINE s == stack[t]
           p == Front(s)
<1>1. s \in Seq(CallType) /\ p \in Seq(CallType) /\ Conn(t) \in Conns
  BY TopFacts
<1>2. stack'[t] = p
  BY DEF Return, LockInv, TypeOK
<1>3. WellNested(s) /\ Notifies(s, closedAt) /\ \A h \in Conns : mutex[h] = t => Covers(s, h)
  BY DEF LockInv
<1>4. /\ WellNested(p) /\ Notifies(p, closedAt)
      /\ \A h \in Conns : Covers(s, h) /\ (Last(s).at \notin Inside \/ Last(s).conn # h) => Covers(p, h)
  BY <1>1, <1>3, PopFacts
<1>5. \A h \in Conns : mutex'[h] = t => Covers(p, h)
  BY <1>3, <1>4, ThreadsAssumption DEF Conn
<1>6. p # <<>> => Last(p).at # "append"
  <2> SUFFICES ASSUME p # <<>> PROVE Last(p).at # "append"
    OBVIOUS
  <2>1. /\ Len(s) \in Nat \ {0} /\ Len(p) = Len(s) - 1
        /\ \A i \in 1..(Len(s) - 1) : p[i] = s[i]
    BY <1>1, FrontFacts
  <2>2. Len(p) \in Nat \ {0} /\ Last(p) = p[Len(p)]
    BY <1>1, FrontFacts
  <2> HIDE DEF p
  <2>3. Last(p) = s[Len(s) - 1] /\ Len(s) - 1 \in 1..Len(s) /\ Len(s) \in 1..Len(s) /\ Len(s) - 1 < Len(s)
    BY <2>1, <2>2
  <2> QED BY <1>3, <2>3 DEF WellNested
<1>7. Sound(t)'
  BY <1>2, <1>4, <1>5, <1>6 DEF Sound, In
<1>8. MayClose(Conn(t)) /\ \A h \in Conns : mutex'[h] \in {mutex[h], Free, t}
  BY DEF MayClose
<1>9. stack' = [stack EXCEPT ![t] = p]
  BY DEF Return
<1> HIDE DEF p
<1> QED BY <1>1, <1>7, <1>8, <1>9, StepInv

LEMMA BelowFacts ==
  ASSUME NEW s \in Seq(CallType), s # <<>>, WellNested(s)
  PROVE  /\ \A i \in 1..Len(Front(s)) : Front(s)[i].at = "notify" => Last(s).at \notin Outer
         /\ Front(s) # <<>> => Last(Front(s)).at \in {"write", "close", "callback", "notify"}
<1> DEFINE p == Front(s)
<1>1. /\ Len(s) \in Nat \ {0} /\ Len(p) = Len(s) - 1 /\ Last(s) = s[Len(s)]
      /\ \A i \in 1..(Len(s) - 1) : p[i] = s[i]
      /\ p # <<>> => Len(p) \in Nat \ {0} /\ Last(p) = p[Len(p)]
  BY FrontFacts
<1> HIDE DEF p
<1>2. ASSUME NEW i \in 1..Len(p)
      PROVE  p[i].at \in {"write", "close", "callback", "notify"} /\ (p[i].at = "notify" => Last(s).at \notin Outer)
  <2>1. p[i] = s[i] /\ i \in 1..Len(s) /\ Len(s) \in 1..Len(s) /\ i < Len(s)
    BY <1>1
  <2> QED BY <1>1, <2>1 DEF WellNested
<1>3. p # <<>> => Last(p).at \in {"write", "close", "callback", "notify"}
  BY <1>1, <1>2
<1> QED BY <1>2, <1>3 DEF p

LEMMA GotoInv ==
  ASSUME LockInv, NEW t \in Threads, stack[t] # <<>>, NEW place \in Places, NEW rest \in SUBSET Conns,
         Goto(t, place, rest), MayClose(Conn(t)), BufferTypes',
         place = "notify" => closedAt'[Conn(t)] # 0,
         place = "append" => closedAt'[Conn(t)] = 0,
         place \in Outer => Last(stack[t]).at \in Outer,
         \A h \in Conns : mutex'[h] \in {mutex[h], Free} \/ (h = Conn(t) /\ mutex'[h] = t),
         Last(stack[t]).at \in Inside /\ place \notin Inside => mutex'[Conn(t)] # t,
         mutex[Conn(t)] # t /\ place \notin Inside => mutex'[Conn(t)] # t
  PROVE  LockInv'
<1> DEFINE s == stack[t]
           p == Front(s)
           c == Conn(t)
           f == Call(place, c, rest)
           q == Append(p, f)
<1>1. s \in Seq(CallType) /\ p \in Seq(CallType) /\ c \in Conns /\ Last(s) \in CallType
  BY TopFacts
<1>2. f \in CallType /\ f.at = place /\ f.conn = c
  BY <1>1 DEF Call, CallType
<1>3. stack' = [stack EXCEPT ![t] = q] /\ stack'[t] = q
  BY DEF Goto, LockInv, TypeOK
<1>4. WellNested(s) /\ Notifies(s, closedAt) /\ \A h \in Conns : mutex[h] = t => Covers(s, h)
  BY DEF LockInv
<1>5. /\ WellNested(p) /\ Notifies(p, closedAt)
      /\ \A h \in Conns : Covers(s, h) /\ (Last(s).at \notin Inside \/ Last(s).conn # h) => Covers(p, h)
  BY <1>1, <1>4, PopFacts
<1>6. /\ \A i \in 1..Len(p) : p[i].at = "notify" => Last(s).at \notin Outer
      /\ p # <<>> => Last(p).at \in {"write", "close", "callback", "notify"}
  BY <1>1, <1>4, BelowFacts
<1>9. \A h \in Conns : closedAt[h] # 0 => closedAt'[h] # 0
  BY DEF MayClose, LockInv, TypeOK
<1>10. Notifies(p, closedAt')
  <2> HIDE DEF p
  <2> SUFFICES ASSUME NEW i \in 1..Len(p), p[i].at = "notify" PROVE closedAt'[p[i].conn] # 0
    BY DEF Notifies
  <2>1. p[i] \in CallType
    BY <1>1
  <2>2. p[i].conn \in Conns
    BY <2>1 DEF CallType
  <2> QED BY <1>5, <1>9, <2>2 DEF Notifies
<1> HIDE DEF p, f
<1>11. /\ q \in Seq(CallType)
       /\ q # <<>> /\ Last(q) = f
       /\ WellNested(q)
       /\ Notifies(q, closedAt')
       /\ \A h \in Conns : Covers(p, h) => Covers(q, h)
       /\ f.at \in Inside => Covers(q, f.conn)
  BY <1>1, <1>2, <1>5, <1>6, <1>10, PushFacts
<1>12. ASSUME NEW h \in Conns, mutex'[h] = t PROVE Covers(q, h)
  <2>1. CASE h = c /\ place \in Inside
    BY <1>2, <1>11, <2>1
  <2>2. CASE h = c /\ place \notin Inside
    <3>1. mutex[h] = t /\ Last(s).at \notin Inside
      BY <1>12, <2>2
    <3> QED BY <1>4, <1>5, <1>11, <3>1
  <2>3. CASE h # c
    <3>1. mutex[h] = t /\ Last(s).conn # h
      BY <1>12, <2>3, ThreadsAssumption DEF Conn
    <3> QED BY <1>4, <1>5, <1>11, <3>1
  <2> QED BY <2>1, <2>2, <2>3
<1>13. Sound(t)'
  <2>1. In(t, "append")' => place = "append"
    BY <1>2, <1>3, <1>11 DEF In
  <2>2. Conn(t)' = c
    BY <1>2, <1>3, <1>11 DEF Conn
  <2>3. \A h \in Conns : In(t, "append")' /\ mutex'[h] = t => closedAt'[Conn(t)'] = 0
    BY <2>1, <2>2
  <2> HIDE DEF q, c, s
  <2> QED BY <1>3, <1>11, <1>12, <2>3 DEF Sound
<1>14. \A h \in Conns : mutex'[h] \in {mutex[h], Free, t}
  OBVIOUS
<1> HIDE DEF q
<1> QED BY <1>1, <1>3, <1>11, <1>13, <1>14, StepInv

-----------------------------------------------------------------------------
(* Actions *)

LEMMA InitLockInv == Init => LockInv
<1> SUFFICES ASSUME Init PROVE LockInv
  OBVIOUS
<1>1. TypeOK
  BY CapacityAssumption DEF Init, TypeOK
<1>2. ASSUME NEW t \in Threads PROVE Sound(t)
  <2>1. stack[t] = <<>> /\ \A h \in Conns : mutex[h] # t
    BY ThreadsAssumption DEF Init
  <2> QED BY <2>1 DEF Sound, WellNested, Notifies, In
<1>3. \A c \in Conns : closedAt[c] <= closes
  BY DEF Init
<1> QED BY <1>1, <1>2, <1>3, LockInvSound

LEMMA StutterInv == ASSUME LockInv, UNCHANGED vars PROVE LockInv'
BY DEF LockInv, TypeOK, vars, In, Conn

\* A thread that was idle, and so held no mutex, has calls to make.
LEMMA StartInv ==
  ASSUME LockInv, NEW t \in Threads, NEW c \in Conns, stack[t] = <<>>, NEW s \in Seq(CallType),
         stack' = [stack EXCEPT ![t] = s],
         \A i \in 1..Len(s) : s[i].at \in {"read", "write", "close"},
         \A i \in 1..Len(s) : i < Len(s) => s[i].at # "read",
         UNCHANGED <<closedAt, closes, mutex, pending, writing, polled>>
  PROVE  LockInv'
<1>1. \A h \in Conns : mutex[h] # t
  <2>1. \A h \in Conns : ~Covers(<<>>, h)
    BY DEF Covers
  <2> QED BY <2>1 DEF LockInv
<1>2. stack'[t] = s
  BY DEF LockInv, TypeOK
<1>3. Len(s) \in Nat
  OBVIOUS
<1>4. WellNested(s) /\ Notifies(s, closedAt')
  BY <1>3 DEF WellNested, Notifies, Outer
<1>5. ~In(t, "append")'
  <2> SUFFICES ASSUME s # <<>> PROVE Last(s).at # "append"
    BY <1>2 DEF In
  <2>1. Last(s) = s[Len(s)] /\ Len(s) \in 1..Len(s)
    <3>1. Last(s) = s[Len(s)] /\ Len(s) \in Nat \ {0}
      BY FrontFacts
    <3> QED BY <3>1
  <2>2. s[Len(s)].at \in {"read", "write", "close"}
    BY <2>1
  <2> QED BY <2>1, <2>2
<1>6. Sound(t)'
  BY <1>1, <1>2, <1>4, <1>5 DEF Sound
<1>7. BufferTypes'
  BY DEF LockInv, TypeOK, BufferTypes
<1>8. MayClose(c) /\ \A h \in Conns : mutex'[h] \in {mutex[h], Free, t}
  BY DEF MayClose
<1> QED BY <1>6, <1>7, <1>8, StepInv

LEMMA EventInv ==
  ASSUME LockInv, NEW t \in Threads, NEW c \in Conns, NEW in \in BOOLEAN, NEW out \in BOOLEAN, NEW hup \in BOOLEAN,
         Event(t, c, in, out, hup)
  PROVE  LockInv'
<1> DEFINE h == IF hup THEN <<Call("close", c, {})>> ELSE <<>>
           w == IF out THEN <<Call("write", c, {})>> ELSE <<>>
           r == IF in THEN <<Call("read", c, {})>> ELSE <<>>
           s == h \o w \o r
<1>1. Call("close", c, {}) \in CallType /\ Call("write", c, {}) \in CallType /\ Call("read", c, {}) \in CallType
  BY DEF Call, CallType, Places
<1>2. h \in Seq(CallType) /\ w \in Seq(CallType) /\ r \in Seq(CallType)
  BY <1>1
<1>3. s \in Seq(CallType)
  BY <1>2
<1>4. /\ \A i \in 1..Len(s) : s[i].at \in {"read", "write", "close"}
      /\ \A i \in 1..Len(s) : i < Len(s) => s[i].at # "read"
  <2> DEFINE hw == h \o w
  <2>1. hw \in Seq(CallType) /\ \A i \in 1..Len(hw) : hw[i].at \in {"write", "close"}
    <3>1. Len(h) \in 0..1 /\ \A i \in 1..Len(h) : h[i].at = "close"
      BY DEF Call
    <3>2. Len(w) \in 0..1 /\ \A i \in 1..Len(w) : w[i].at = "write"
      BY DEF Call
    <3> HIDE DEF h, w
    <3> QED BY <1>2, <3>1, <3>2
  <2>2. Len(r) \in 0..1 /\ \A i \in 1..Len(r) : r[i].at = "read"
    BY DEF Call
  <2>3. s = hw \o r
    OBVIOUS
  <2> HIDE DEF hw, r, s
  <2>4. Len(s) = Len(hw) + Len(r) /\ Len(hw) \in Nat /\ \A i \in 1..Len(s) : s[i] = IF i <= Len(hw) THEN hw[i] ELSE r[i - Len(hw)]
    BY <1>2, <2>1, <2>3
  <2>5. ASSUME NEW i \in 1..Len(s) PROVE s[i].at \in {"read", "write", "close"} /\ (i < Len(s) => s[i].at # "read")
    <3>1. CASE i <= Len(hw)
      BY <2>1, <2>4, <3>1
    <3>2. CASE ~(i <= Len(hw))
      <4>1. i - Len(hw) \in 1..Len(r) /\ s[i] = r[i - Len(hw)] /\ i = Len(s)
        BY <2>2, <2>4, <3>2
      <4> QED BY <2>2, <4>1
    <3> QED BY <3>1, <3>2
  <2> QED BY <2>5
<1>5. /\ stack[t] = <<>> /\ stack' = [stack EXCEPT ![t] = s]
      /\ UNCHANGED <<closedAt, closes, mutex, pending, writing, polled>>
  BY DEF Event
<1> HIDE DEF s
<1> QED BY <1>3, <1>4, <1>5, StartInv

LEMMA DisconnectInv ==
  ASSUME LockInv, NEW t \in Threads, NEW c \in Conns, Disconnect(t, c)
  PROVE  LockInv'
<1> DEFINE s == <<Call("close", c, {})>>
<1>1. Call("close", c, {}) \in CallType /\ Call("close", c, {}).at = "close"
  BY DEF Call, CallType, Places
<1>2. s \in Seq(CallType) /\ Len(s) = 1 /\ s[1].at = "close"
  BY <1>1
<1>3. /\ stack[t] = <<>> /\ stack' = [stack EXCEPT ![t] = s]
      /\ UNCHANGED <<closedAt, closes, mutex, pending, writing, polled>>
  BY DEF Disconnect
<1> HIDE DEF s
<1>4. /\ \A i \in 1..Len(s) : s[i].at \in {"read", "write", "close"}
      /\ \A i \in 1..Len(s) : i < Len(s) => s[i].at # "read"
  BY <1>2
<1> QED BY <1>2, <1>3, <1>4, StartInv

\* What TypeOK says of the variables other than closedAt, closes and stack.
LEMMA Buffers == ASSUME LockInv PROVE BufferTypes
BY DEF LockInv, TypeOK, BufferTypes

LEMMA ReadInv ==
  ASSUME LockInv, NEW t \in Threads, ReadLock(t) \/ ReadFails(t) \/ ReadDone(t)
  PROVE  LockInv'
<1> DEFINE s == stack[t]
<1>1. s # <<>> /\ Last(s).at \in {"read", "reading"} /\ Conn(t) \in Conns
  <2>1. s # <<>> /\ Last(s).at \in {"read", "reading"}
    BY DEF ReadLock, ReadFails, ReadDone, In
  <2> QED BY <2>1, TopFacts
<1>2. BufferTypes
  BY Buffers
<1>3. CASE ReadLock(t) /\ Return(t) /\ UNCHANGED mutex
  <2>1. Last(s).at = "read"
    BY <1>3 DEF ReadLock, In
  <2>2. BufferTypes' /\ UNCHANGED <<closedAt, closes, mutex>>
    BY <1>2, <1>3 DEF BufferTypes, ReadLock
  <2> QED BY <1>1, <1>3, <2>1, <2>2, ReturnInv DEF Inside
<1>4. CASE ReadLock(t) /\ Lock(t) /\ Goto(t, "reading", {})
  <2>1. Last(s).at = "read" /\ UNCHANGED <<closedAt, closes>>
    BY <1>4 DEF ReadLock, In
  <2>2. BufferTypes' /\ \A h \in Conns : h # Conn(t) => mutex'[h] = mutex[h]
    BY <1>1, <1>2, <1>4 DEF BufferTypes, ReadLock, Lock
  <2>3. mutex'[Conn(t)] = t /\ mutex[Conn(t)] = Free
    BY <1>1, <1>2, <1>4 DEF BufferTypes, Lock
  <2>4. MayClose(Conn(t))
    BY <2>1 DEF MayClose
  <2> QED BY <1>1, <1>4, <2>1, <2>2, <2>3, <2>4, GotoInv, ThreadsAssumption DEF Inside, Outer, Places
<1>5. CASE ReadFails(t)
  <2>1. PICK rest \in SUBSET SendsTo[t] : Goto(t, "notify", rest)
    BY <1>5 DEF ReadFails, Close
  <2>2. rest \in SUBSET Conns
    BY SendsAssumption
  <2>3. /\ Last(s).at = "reading" /\ UNCHANGED mutex
        /\ closedAt[Conn(t)] = 0 /\ closedAt' = [closedAt EXCEPT ![Conn(t)] = closes + 1] /\ closes' = closes + 1
    BY <1>5 DEF ReadFails, Close, Closed, In
  <2>4. BufferTypes'
    BY <1>2, <1>5 DEF BufferTypes, ReadFails, Close
  <2>5. MayClose(Conn(t)) /\ closedAt'[Conn(t)] # 0
    BY <1>1, <2>3 DEF MayClose, LockInv, TypeOK
  <2> QED BY <1>1, <2>1, <2>2, <2>3, <2>4, <2>5, GotoInv DEF Inside, Outer, Places
<1>6. CASE ReadDone(t)
  <2>1. PICK rest \in SUBSET SendsTo[t] : Goto(t, "callback", rest)
    BY <1>6 DEF ReadDone
  <2>2. rest \in SUBSET Conns
    BY SendsAssumption
  <2>3. Last(s).at = "reading" /\ UNCHANGED <<closedAt, closes>>
    BY <1>6 DEF ReadDone, In
  <2>4. BufferTypes' /\ mutex'[Conn(t)] = Free /\ \A h \in Conns : mutex'[h] \in {mutex[h], Free}
    BY <1>1, <1>2, <1>6 DEF BufferTypes, ReadDone, Unlock
  <2>5. MayClose(Conn(t))
    BY <2>3 DEF MayClose
  <2> QED BY <1>1, <2>1, <2>2, <2>3, <2>4, <2>5, GotoInv, ThreadsAssumption DEF Inside, Outer, Places
<1> QED BY <1>3, <1>4, <1>5, <1>6 DEF ReadLock

LEMMA CloseInv ==
  ASSUME LockInv, NEW t \in Threads, CallbackDone(t) \/ CloseLock(t) \/ NotifyDone(t)
  PROVE  LockInv'
<1> DEFINE s == stack[t]
<1>1. s # <<>> /\ Conn(t) \in Conns
  <2>1. s # <<>>
    BY DEF CallbackDone, CloseLock, NotifyDone, In
  <2> QED BY <2>1, TopFacts
<1>2. BufferTypes
  BY Buffers
<1>3. CASE CallbackDone(t)
  <2>1. /\ Last(s).at = "callback" /\ UNCHANGED <<closedAt, closes, mutex>>
        /\ Return(t) \/ Goto(t, "close", {})
    BY <1>3 DEF CallbackDone, In
  <2>2. BufferTypes' /\ MayClose(Conn(t))
    BY <1>2, <1>3, <2>1 DEF BufferTypes, CallbackDone, MayClose
  <2>3. CASE Return(t)
    BY <1>1, <2>1, <2>2, <2>3, ReturnInv DEF Inside
  <2>4. CASE Goto(t, "close", {})
    BY <1>1, <2>1, <2>2, <2>4, GotoInv DEF Inside, Outer, Places
  <2> QED BY <2>1, <2>3, <2>4
<1>4. CASE CloseLock(t) /\ Return(t) /\ UNCHANGED <<closedAt, closes, mutex, pending, writing, polled>>
  <2>1. Last(s).at = "close"
    BY <1>4 DEF CloseLock, In
  <2>2. BufferTypes' /\ UNCHANGED <<closedAt, closes, mutex>>
    BY <1>2, <1>4 DEF BufferTypes
  <2> QED BY <1>1, <1>4, <2>1, <2>2, ReturnInv DEF Inside
<1>5. CASE CloseLock(t) /\ Lock(t) /\ Close(t)
  <2>1. PICK rest \in SUBSET SendsTo[t] : Goto(t, "notify", rest)
    BY <1>5 DEF Close
  <2>2. rest \in SUBSET Conns
    BY SendsAssumption
  <2>3. /\ Last(s).at = "close"
        /\ closedAt[Conn(t)] = 0 /\ closedAt' = [closedAt EXCEPT ![Conn(t)] = closes + 1] /\ closes' = closes + 1
    BY <1>5 DEF CloseLock, Close, Closed, In
  <2>4. BufferTypes'
    BY <1>2, <1>5 DEF BufferTypes, Close, Lock
  <2>5. /\ mutex'[Conn(t)] = t /\ mutex[Conn(t)] = Free
        /\ \A h \in Conns : h # Conn(t) => mutex'[h] = mutex[h]
    BY <1>1, <1>2, <1>5 DEF BufferTypes, Lock
  <2>6. MayClose(Conn(t)) /\ closedAt'[Conn(t)] # 0
    BY <1>1, <2>3 DEF MayClose, LockInv, TypeOK
  <2> QED BY <1>1, <2>1, <2>2, <2>3, <2>4, <2>5, <2>6, GotoInv DEF Inside, Outer, Places
<1>6. CASE NotifyDone(t)
  <2>1. UNCHANGED <<closedAt, closes>> /\ Return(t)
    BY <1>6 DEF NotifyDone
  <2>2. BufferTypes' /\ mutex'[Conn(t)] = Free /\ \A h \in Conns : mutex'[h] = mutex[h] \/ mutex'[h] = Free
    BY <1>1, <1>2, <1>6 DEF BufferTypes, NotifyDone, Unlock
  <2> QED BY <1>1, <2>1, <2>2, ReturnInv, ThreadsAssumption
<1> QED BY <1>3, <1>4, <1>5, <1>6 DEF CloseLock

LEMMA SendInv ==
  ASSUME LockInv, NEW t \in Threads, SendCheck(t) \/ SendLock(t) \/ SendAppend(t)
  PROVE  LockInv'
<1> DEFINE s == stack[t]
<1>1. s # <<>> /\ Conn(t) \in Conns
  <2>1. s # <<>>
    BY DEF SendCheck, SendLock, SendAppend, In
  <2> QED BY <2>1, TopFacts
<1>2. BufferTypes /\ MayClose(Conn(t)) /\ UNCHANGED <<closedAt, closes>>
  BY Buffers DEF MayClose, SendCheck, SendLock, SendAppend
<1>3. CASE SendCheck(t)
  <2>1. /\ Last(s).at = "send" /\ UNCHANGED mutex
        /\ Return(t) \/ (closedAt[Conn(t)] = 0 /\ Goto(t, "append", {}))
    BY <1>3 DEF SendCheck, Closed, In
  <2>2. BufferTypes'
    BY <1>2, <1>3 DEF BufferTypes, SendCheck
  <2>3. CASE Return(t)
    BY <1>1, <1>2, <2>1, <2>2, <2>3, ReturnInv DEF Inside
  <2>4. CASE closedAt[Conn(t)] = 0 /\ Goto(t, "append", {})
    BY <1>1, <1>2, <2>1, <2>2, <2>4, GotoInv DEF Inside, Outer, Places
  <2> QED BY <2>1, <2>3, <2>4
<1>4. CASE SendLock(t)
  <2>1. Last(s).at = "append" /\ Goto(t, "appending", {})
    BY <1>4 DEF SendLock, In
  <2>2. /\ BufferTypes' /\ mutex'[Conn(t)] = t /\ mutex[Conn(t)] = Free
        /\ \A h \in Conns : h # Conn(t) => mutex'[h] = mutex[h]
    BY <1>1, <1>2, <1>4 DEF BufferTypes, SendLock, Lock
  <2> QED BY <1>1, <1>2, <2>1, <2>2, GotoInv DEF Inside, Outer, Places
<1>5. CASE SendAppend(t)
  <2>1. Last(s).at = "appending" /\ Goto(t, "write", {})
    BY <1>5 DEF SendAppend, In
  <2>2. /\ mutex' \in [Conns -> Threads \cup {Free}] /\ mutex'[Conn(t)] = Free
        /\ \A h \in Conns : mutex'[h] \in {mutex[h], Free}
    BY <1>1, <1>2, <1>5 DEF BufferTypes, SendAppend, Unlock
  <2>3. pending' \in [Conns -> 0..Capacity]
    BY <1>1, <1>2, <1>5, CapacityAssumption DEF BufferTypes, SendAppend
  <2>4. BufferTypes'
    BY <1>2, <1>5, <2>2, <2>3 DEF BufferTypes, SendAppend
  <2> QED BY <1>1, <1>2, <2>1, <2>2, <2>4, GotoInv, ThreadsAssumption DEF Inside, Outer, Places
<1> QED BY <1>3, <1>4, <1>5

LEMMA WriteInv ==
  ASSUME LockInv, NEW t \in Threads, WriteCheck(t) \/ WriteTry(t) \/ WriteFails(t) \/ WriteDone(t)
  PROVE  LockInv'
<1> DEFINE s == stack[t]
<1>1. s # <<>> /\ Conn(t) \in Conns
  <2>1. s # <<>>
    BY DEF WriteCheck, WriteTry, WriteFails, WriteDone, In
  <2> QED BY <2>1, TopFacts
<1>2. BufferTypes
  BY Buffers
<1>3. CASE WriteCheck(t)
  <2>1. /\ Last(s).at = "write" /\ UNCHANGED <<closedAt, closes, mutex>>
        /\ Return(t) \/ Goto(t, "try", {})
    BY <1>3 DEF WriteCheck, In
  <2>2. BufferTypes' /\ MayClose(Conn(t))
    BY <1>2, <1>3, <2>1 DEF BufferTypes, WriteCheck, MayClose
  <2>3. CASE Return(t)
    BY <1>1, <2>1, <2>2, <2>3, ReturnInv DEF Inside
  <2>4. CASE Goto(t, "try", {})
    BY <1>1, <2>1, <2>2, <2>4, GotoInv DEF Inside, Outer, Places
  <2> QED BY <2>1, <2>3, <2>4
<1>4. CASE WriteTry(t)
  <2>1. Last(s).at = "try" /\ UNCHANGED <<closedAt, closes>>
    BY <1>4 DEF WriteTry, In
  <2>2. MayClose(Conn(t)) /\ (UNCHANGED mutex => BufferTypes')
    BY <1>2, <1>4, <2>1 DEF MayClose, BufferTypes, WriteTry
  <2>3. CASE Return(t) /\ UNCHANGED mutex
    BY <1>1, <2>1, <2>2, <2>3, ReturnInv DEF Inside
  <2>4. CASE Lock(t) /\ Goto(t, "writing", {})
    <3>1. /\ BufferTypes' /\ mutex'[Conn(t)] = t /\ mutex[Conn(t)] = Free
          /\ \A h \in Conns : h # Conn(t) => mutex'[h] = mutex[h]
      BY <1>1, <1>2, <1>4, <2>4 DEF BufferTypes, WriteTry, Lock
    <3> QED BY <1>1, <2>1, <2>2, <2>4, <3>1, GotoInv DEF Inside, Outer, Places
  <2> QED BY <1>4, <2>3, <2>4 DEF WriteTry
<1>5. CASE WriteFails(t) /\ Close(t) /\ UNCHANGED mutex
  <2>1. PICK rest \in SUBSET SendsTo[t] : Goto(t, "notify", rest)
    BY <1>5 DEF Close
  <2>2. rest \in SUBSET Conns
    BY SendsAssumption
  <2>3. /\ Last(s).at = "writing" /\ UNCHANGED mutex
        /\ closedAt[Conn(t)] = 0 /\ closedAt' = [closedAt EXCEPT ![Conn(t)] = closes + 1] /\ closes' = closes + 1
    BY <1>5 DEF WriteFails, Close, Closed, In
  <2>4. BufferTypes'
    BY <1>2, <1>5 DEF BufferTypes, Close
  <2>5. MayClose(Conn(t)) /\ closedAt'[Conn(t)] # 0
    BY <1>1, <2>3 DEF MayClose, LockInv, TypeOK
  <2> QED BY <1>1, <2>1, <2>2, <2>3, <2>4, <2>5, GotoInv DEF Inside, Outer, Places
<1>6. CASE WriteFails(t) /\ Unlock(t) /\ Return(t) /\ UNCHANGED <<closedAt, closes, pending, writing, polled>>
  <2>1. BufferTypes' /\ mutex'[Conn(t)] = Free /\ \A h \in Conns : mutex'[h] = mutex[h] \/ mutex'[h] = Free
    BY <1>1, <1>2, <1>6 DEF BufferTypes, Unlock
  <2> QED BY <1>1, <1>6, <2>1, ReturnInv, ThreadsAssumption
<1>7. CASE WriteDone(t)
  <2>1. UNCHANGED <<closedAt, closes>> /\ Return(t) /\ Unlock(t)
    BY <1>7 DEF WriteDone
  <2>2. /\ mutex' \in [Conns -> Threads \cup {Free}] /\ mutex'[Conn(t)] = Free
        /\ \A h \in Conns : mutex'[h] = mutex[h] \/ mutex'[h] = Free
    BY <1>1, <1>2, <2>1 DEF BufferTypes, Unlock
  <2>3. PICK left \in 0..pending[Conn(t)] :
          /\ pending' = [pending EXCEPT ![Conn(t)] = left]
          /\ writing' = [writing EXCEPT ![Conn(t)] = left > 0]
          /\ polled' = [polled EXCEPT ![Conn(t)] = IF writing'[Conn(t)] = writing[Conn(t)] THEN @ ELSE TRUE]
    BY <1>7 DEF WriteDone
  <2>4. left \in 0..Capacity /\ (left > 0) \in BOOLEAN
    BY <1>1, <1>2, CapacityAssumption DEF BufferTypes
  <2>5. pending' \in [Conns -> 0..Capacity]
    BY <1>1, <1>2, <2>3, <2>4 DEF BufferTypes
  <2>6. writing' \in [Conns -> BOOLEAN]
    <3> DEFINE some == left > 0
    <3>1. some \in BOOLEAN /\ writing' = [writing EXCEPT ![Conn(t)] = some]
      BY <2>3, <2>4
    <3> HIDE DEF some
    <3> QED BY <1>1, <1>2, <3>1 DEF BufferTypes
  <2>7. polled' \in [Conns -> BOOLEAN]
    <3> DEFINE same == writing'[Conn(t)] = writing[Conn(t)]
    <3>1. polled' = [polled EXCEPT ![Conn(t)] = IF same THEN @ ELSE TRUE]
      BY <2>3
    <3> HIDE DEF same
    <3> QED BY <1>1, <1>2, <3>1 DEF BufferTypes
  <2>8. BufferTypes'
    BY <2>2, <2>5, <2>6, <2>7 DEF BufferTypes
  <2> QED BY <1>1, <2>1, <2>2, <2>8, ReturnInv, ThreadsAssumption
<1> QED BY <1>3, <1>4, <1>5, <1>6, <1>7 DEF WriteFails

LEMMA CallSendInv ==
  ASSUME LockInv, NEW t \in Threads, NEW x \in Conns, CallSend(t, x)
  PROVE  LockInv'
<1> DEFINE s == stack[t]
           p == Front(s)
           f == Last(s)
           g == Call(f.at, f.conn, f.rest \ {x})
           e == Call("send", x, {})
           q == Append(p, g)
           r == Append(q, e)
<1>1. s # <<>> /\ f.at \in {"callback", "notify"}
  BY DEF CallSend, In
<1>2. s \in Seq(CallType) /\ p \in Seq(CallType) /\ f \in CallType
  BY <1>1, TopFacts
<1>3. /\ g \in CallType /\ g.at = f.at /\ g.conn = f.conn
      /\ e \in CallType /\ e.at = "send"
  BY <1>2 DEF Call, CallType, Places
<1>4. WellNested(s) /\ Notifies(s, closedAt) /\ \A h \in Conns : mutex[h] = t => Covers(s, h)
  BY DEF LockInv
<1>5. /\ WellNested(p) /\ Notifies(p, closedAt)
      /\ \A h \in Conns : Covers(s, h) /\ (f.at \notin Inside \/ f.conn # h) => Covers(p, h)
  BY <1>1, <1>2, <1>4, PopFacts
<1>6. /\ \A i \in 1..Len(p) : p[i].at = "notify" => f.at \notin Outer
      /\ p # <<>> => Last(p).at \in {"write", "close", "callback", "notify"}
  BY <1>1, <1>2, <1>4, BelowFacts
<1>7. f.at = "notify" => closedAt[f.conn] # 0
  <2>1. f = s[Len(s)] /\ Len(s) \in Nat \ {0}
    BY <1>1, <1>2, FrontFacts
  <2> QED BY <1>4, <2>1 DEF Notifies
<1>8. stack' = [stack EXCEPT ![t] = p \o <<g, e>>]
  BY DEF CallSend
<1> HIDE DEF p, f, g, e
<1>9. r = p \o <<g, e>>
  <2>1. Len(p) \in Nat /\ Len(q) = Len(p) + 1 /\ Len(r) = Len(p) + 2
    BY <1>2, <1>3
  <2> QED BY <1>2, <1>3, <2>1
<1>10. /\ q \in Seq(CallType) /\ q # <<>> /\ Last(q) = g
       /\ WellNested(q) /\ Notifies(q, closedAt)
       /\ \A h \in Conns : Covers(p, h) => Covers(q, h)
       /\ g.at \in Inside => Covers(q, g.conn)
  BY <1>2, <1>3, <1>5, <1>6, <1>7, PushFacts
<1> HIDE DEF q
<1>11. /\ r \in Seq(CallType) /\ r # <<>> /\ Last(r) = e
       /\ WellNested(r) /\ Notifies(r, closedAt)
       /\ \A h \in Conns : Covers(q, h) => Covers(r, h)
  <2>1. Last(q).at \in {"write", "close", "callback", "notify"} /\ e.at \notin Outer /\ e.at # "notify"
    BY <1>1, <1>3, <1>10 DEF Outer
  <2> QED BY <1>3, <1>10, <2>1, PushFacts
<1> HIDE DEF r
<1>12. \A h \in Conns : mutex[h] = t => Covers(r, h)
  BY <1>3, <1>4, <1>5, <1>10, <1>11
<1>13. stack' = [stack EXCEPT ![t] = r] /\ stack'[t] = r
  BY <1>8, <1>9 DEF LockInv, TypeOK
<1>14. ~In(t, "append")'
  BY <1>3, <1>11, <1>13 DEF In
<1>15. UNCHANGED <<closedAt, closes, mutex, pending, writing, polled>>
  BY DEF CallSend
<1>16. BufferTypes' /\ MayClose(x) /\ \A h \in Conns : mutex'[h] \in {mutex[h], Free, t}
  BY <1>15, Buffers DEF BufferTypes, MayClose
<1>17. Sound(t)'
  BY <1>11, <1>12, <1>13, <1>14, <1>15 DEF Sound
<1> QED BY <1>11, <1>13, <1>16, <1>17, StepInv

LEMMA NextInv == LockInv /\ [Next]_vars => LockInv'
<1> SUFFICES ASSUME LockInv, [Next]_vars PROVE LockInv'
  OBVIOUS
<1>1. ASSUME NEW t \in Threads, NEW c \in Conns, NEW in \in BOOLEAN, NEW out \in BOOLEAN, NEW hup \in BOOLEAN,
             Event(t, c, in, out, hup)
      PROVE  LockInv'
  BY <1>1, EventInv
<1>2. ASSUME NEW t \in Threads, NEW c \in Conns, Disconnect(t, c) \/ CallSend(t, c) PROVE LockInv'
  BY <1>2, DisconnectInv, CallSendInv
<1>3. ASSUME NEW t \in Threads, ReadLock(t) \/ ReadFails(t) \/ ReadDone(t) PROVE LockInv'
  BY <1>3, ReadInv
<1>4. ASSUME NEW t \in Threads, CallbackDone(t) \/ CloseLock(t) \/ NotifyDone(t) PROVE LockInv'
  BY <1>4, CloseInv
<1>5. ASSUME NEW t \in Threads, SendCheck(t) \/ SendLock(t) \/ SendAppend(t) PROVE LockInv'
  BY <1>5, SendInv
<1>6. ASSUME NEW t \in Threads, WriteCheck(t) \/ WriteTry(t) \/ WriteFails(t) \/ WriteDone(t) PROVE LockInv'
  BY <1>6, WriteInv
<1>7. CASE UNCHANGED vars
  BY <1>7, StutterInv
<1> QED BY <1>1, <1>2, <1>3, <1>4, <1>5, <1>6, <1>7 DEF Next

-----------------------------------------------------------------------------
(* No deadlock *)

\* A thread that waits is in the middle of no critical section but those of connections whose
\* callbacks it runs, and then it waits in a Send.
LEMMA WaiterHolds ==
  ASSUME LockInv, NEW t \in Threads, Blocked(t), NEW h \in Conns, mutex[h] = t
  PROVE  closedAt[h] # 0 /\ In(t, "append")
<1> DEFINE s == stack[t]
<1>1. s # <<>> /\ Last(s).at \in {"read", "close", "append"}
  BY DEF Blocked, Waits, In
<1>2. s \in Seq(CallType)
  BY <1>1, TopFacts
<1>3. Last(s) = s[Len(s)] /\ Len(s) \in Nat \ {0}
  BY <1>1, <1>2, FrontFacts
<1>4. WellNested(s) /\ Notifies(s, closedAt) /\ Covers(s, h)
  BY DEF LockInv
<1>5. PICK i \in 1..Len(s) : s[i].conn = h /\ s[i].at \in Inside
  BY <1>4 DEF Covers
<1>6. i # Len(s)
  BY <1>1, <1>3, <1>5 DEF Inside
<1>7. i < Len(s) /\ Len(s) \in 1..Len(s)
  BY <1>3, <1>6
<1>8. s[i].at = "notify" /\ s[Len(s)].at \notin Outer
  BY <1>4, <1>5, <1>7 DEF WellNested, Inside
<1>9. closedAt[h] # 0
  BY <1>4, <1>5, <1>8 DEF Notifies
<1>10. Last(s).at = "append"
  BY <1>1, <1>3, <1>8 DEF Outer
<1> QED BY <1>1, <1>9, <1>10 DEF In

LEMMA LockInvWaits == LockInv => WaitsUpward
<1> SUFFICES ASSUME LockInv, NEW t \in Threads, NEW u \in Threads, NEW c \in Conns, NEW h \in Conns,
                    Waits(t, c), mutex[c] = u, Blocked(u), mutex[h] = t
             PROVE  closedAt[h] < closedAt[c]
  BY DEF WaitsUpward
<1>1. Blocked(t)
  BY DEF Blocked
<1>2. In(t, "append") /\ Conn(t) = c
  BY <1>1, WaiterHolds DEF Waits
<1>3. closedAt[c] # 0
  BY WaiterHolds
<1>4. closedAt[Conn(t)] = 0 \/ closedAt[h] < closedAt[Conn(t)]
  BY <1>2 DEF LockInv
<1> QED BY <1>2, <1>3, <1>4

\* The inductive invariant: how the calls of a thread nest, which of them hold a mutex, and in which
\* order the connections were closed whose mutexes a thread holds and waits for.
THEOREM LockInvariant == Spec => []LockInv
<1> QED BY InitLockInv, NextInv, PTL DEF Spec

\* CTcpConnection and its buffers keep their types: no write buffer grows beyond its capacity.
THEOREM TypeCorrect == Spec => []TypeOK
<1>1. LockInv => TypeOK
  BY DEF LockInv
<1> QED BY <1>1, LockInvariant, PTL

\* CTcpConnection::Close calls out with its mutex held, and still the mutexes of any number of
\* connections and threads never wait for each other in a circle: along a chain of waiting threads
\* the connections they hold were closed later and later.
THEOREM NoDeadlock == Spec => []WaitsUpward
BY LockInvariant, LockInvWaits, PTL

-----------------------------------------------------------------------------
(* What is left in a write buffer is awaited *)

\* Which thread gets to make a call: reads and read callbacks are made by the connection's reactor, Sends by
\* handlers that know the connection.
Proper(f, t) ==
  /\ f.rest \subseteq SendsTo[t]
  /\ f.at \in {"send", "append", "appending"} => f.conn \in SendsTo[t]
  /\ f.at \in {"read", "reading", "callback"} => ReactorOf[f.conn] = t
  /\ f.at \in {"write", "try", "writing"} => f.conn \in SendsTo[t] \/ ReactorOf[f.conn] = t

Allowed(s, t) == \A i \in 1..Len(s) : Proper(s[i], t)

\* The places of a Send whose packet is in the buffer, or of a HandleWrite: it will look at the buffer.
Writes == {"appending", "write", "try", "writing"}

AtIt(s, c) == \E i \in 1..Len(s) : s[i].conn = c /\ s[i].at \in Writes

OpenArePolled == \A c \in Conns : closedAt[c] # 0 \/ polled[c]

AwaitInv ==
  /\ LockInv
  /\ \A t \in Threads : Allowed(stack[t], t)
  /\ OpenArePolled
  /\ PrivateLeftIsAwaited

LEMMA LeftFacts ==
  ASSUME LockInv, NEW c \in Conns
  PROVE  Left(c) <=> pending[c] > 0 /\ closedAt[c] = 0 /\ \A t \in Threads : ~AtIt(stack[t], c)
<1>1. \A t \in Threads : stack[t] \in Seq(CallType)
  BY DEF LockInv, TypeOK, CallType
<1>2. \A t \in Threads : DOMAIN stack[t] = 1..Len(stack[t])
  BY <1>1
<1> QED BY <1>2 DEF Left, AtIt, Writes, Closed

\* The innermost call is the last; the others stay when it returns.
LEMMA FrontStays ==
  ASSUME NEW s \in Seq(CallType), s # <<>>, NEW t, Allowed(s, t)
  PROVE  /\ Allowed(Front(s), t) /\ Proper(Last(s), t)
         /\ \A c \in Conns : AtIt(s, c) => AtIt(Front(s), c) \/ (Last(s).conn = c /\ Last(s).at \in Writes)
         /\ \A c \in Conns : Last(s).conn = c /\ Last(s).at \in Writes => AtIt(s, c)
<1> DEFINE p == Front(s)
<1>1. /\ Len(s) \in Nat \ {0} /\ Len(p) = Len(s) - 1 /\ Last(s) = s[Len(s)]
      /\ \A i \in 1..(Len(s) - 1) : p[i] = s[i]
  BY FrontFacts
<1> HIDE DEF p
<1>2. \A i \in 1..Len(p) : i \in 1..Len(s) /\ p[i] = s[i]
  BY <1>1
<1>3. \A i \in 1..Len(s) : i = Len(s) \/ i \in 1..Len(p)
  BY <1>1
<1>4. Len(s) \in 1..Len(s)
  BY <1>1
<1>5. Allowed(p, t) /\ Proper(Last(s), t)
  BY <1>1, <1>2, <1>4 DEF Allowed
<1>6. \A c \in Conns : AtIt(s, c) => AtIt(p, c) \/ (Last(s).conn = c /\ Last(s).at \in Writes)
  BY <1>1, <1>2, <1>3 DEF AtIt
<1>7. \A c \in Conns : Last(s).conn = c /\ Last(s).at \in Writes => AtIt(s, c)
  BY <1>1, <1>4 DEF AtIt
<1> QED BY <1>5, <1>6, <1>7 DEF p

LEMMA AppendStays ==
  ASSUME NEW s \in Seq(CallType), NEW f \in CallType, NEW t, Allowed(s, t), Proper(f, t)
  PROVE  /\ Append(s, f) \in Seq(CallType) /\ Allowed(Append(s, f), t)
         /\ \A c \in Conns : AtIt(s, c) => AtIt(Append(s, f), c)
         /\ \A c \in Conns : f.conn = c /\ f.at \in Writes => AtIt(Append(s, f), c)
<1> DEFINE q == Append(s, f)
<1>1. /\ q \in Seq(CallType) /\ Len(q) = Len(s) + 1 /\ q[Len(s) + 1] = f /\ Len(s) \in Nat
      /\ \A i \in 1..Len(s) : q[i] = s[i]
  OBVIOUS
<1> HIDE DEF q
<1>2. /\ \A i \in 1..Len(q) : i \in 1..Len(s) \/ i = Len(s) + 1
      /\ Len(s) + 1 \in 1..Len(q)
      /\ \A i \in 1..Len(s) : i \in 1..Len(q)
  BY <1>1
<1>3. Allowed(q, t)
  BY <1>1, <1>2 DEF Allowed
<1>4. \A c \in Conns : AtIt(s, c) \/ (f.conn = c /\ f.at \in Writes) => AtIt(q, c)
  BY <1>1, <1>2 DEF AtIt
<1> QED BY <1>1, <1>3, <1>4 DEF q

\* What becomes of the calls of t when its innermost call returns, and when it goes on.
LEMMA ReturnStays ==
  ASSUME AwaitInv, NEW t \in Threads, stack[t] # <<>>, Return(t)
  PROVE  /\ \A u \in Threads : Allowed(stack'[u], u)
         /\ \A u \in Threads, c \in Conns :
              AtIt(stack[u], c) => AtIt(stack'[u], c) \/ (u = t /\ Conn(t) = c /\ Last(stack[t]).at \in Writes)
<1>1. stack[t] \in Seq(CallType) /\ Allowed(stack[t], t)
  BY TopFacts DEF AwaitInv
<1>2. \A u \in Threads : stack'[u] = IF u = t THEN Front(stack[t]) ELSE stack[u]
  BY DEF Return, AwaitInv, LockInv, TypeOK
<1> QED BY <1>1, <1>2, FrontStays DEF AwaitInv, Conn

LEMMA GotoStays ==
  ASSUME AwaitInv, NEW t \in Threads, stack[t] # <<>>, NEW place \in Places, NEW rest \in SUBSET Conns,
         Goto(t, place, rest), Proper(Call(place, Conn(t), rest), t)
  PROVE  /\ \A u \in Threads : Allowed(stack'[u], u)
         /\ \A u \in Threads, c \in Conns :
              AtIt(stack[u], c) =>
                \/ AtIt(stack'[u], c)
                \/ u = t /\ Conn(t) = c /\ Last(stack[t]).at \in Writes /\ place \notin Writes
         /\ place \in Writes => AtIt(stack'[t], Conn(t))
<1> DEFINE f == Call(place, Conn(t), rest)
           p == Front(stack[t])
<1>1. stack[t] \in Seq(CallType) /\ Allowed(stack[t], t) /\ p \in Seq(CallType) /\ Conn(t) \in Conns
  BY TopFacts DEF AwaitInv
<1>2. f \in CallType /\ f.at = place /\ f.conn = Conn(t)
  BY <1>1 DEF Call, CallType
<1>3. \A u \in Threads : stack'[u] = IF u = t THEN Append(p, f) ELSE stack[u]
  BY DEF Goto, AwaitInv, LockInv, TypeOK
<1>4. /\ Allowed(p, t)
      /\ \A c \in Conns : AtIt(stack[t], c) => AtIt(p, c) \/ (Conn(t) = c /\ Last(stack[t]).at \in Writes)
  BY <1>1, FrontStays DEF Conn
<1> HIDE DEF f, p
<1>5. Proper(f, t)
  BY DEF f
<1>6. /\ Allowed(Append(p, f), t)
      /\ \A c \in Conns : AtIt(p, c) => AtIt(Append(p, f), c)
      /\ place \in Writes => AtIt(Append(p, f), Conn(t))
  BY <1>1, <1>2, <1>4, <1>5, AppendStays
<1> QED BY <1>1, <1>2, <1>3, <1>4, <1>6 DEF AwaitInv

\* The connection that t is about: reads and reactions are its reactor's, and t knows what it sends to.
LEMMA TopProper ==
  ASSUME AwaitInv, NEW t \in Threads, stack[t] # <<>>
  PROVE  Proper(Last(stack[t]), t)
BY TopFacts, FrontStays DEF AwaitInv

\* A step that changes no buffer, and takes no thread off a private connection that stays open.
LEMMA QuietAwait ==
  ASSUME AwaitInv, LockInv', UNCHANGED <<pending, writing>>,
         \A c \in Conns : closedAt[c] # 0 => closedAt'[c] # 0,
         \A c \in Conns : closedAt'[c] = 0 => polled'[c] = polled[c],
         \A u \in Threads : Allowed(stack'[u], u),
         \A u \in Threads, c \in Conns :
           Private(c) /\ closedAt'[c] = 0 /\ AtIt(stack[u], c) => AtIt(stack'[u], c)
  PROVE  AwaitInv'
<1>1. OpenArePolled'
  BY DEF AwaitInv, OpenArePolled
<1>2. ASSUME NEW c \in Conns, Private(c), Left(c)' PROVE writing'[c] /\ polled'[c]
  <2>1. pending'[c] > 0 /\ closedAt'[c] = 0 /\ \A t \in Threads : ~AtIt(stack'[t], c)
    BY <1>2, LeftFacts DEF Left, AtIt, Closed, Writes, LockInv, TypeOK, CallType
  <2>2. Left(c)
    BY <1>2, <2>1, LeftFacts DEF AwaitInv
  <2> QED BY <1>2, <2>1, <2>2 DEF AwaitInv, PrivateLeftIsAwaited
<1>3. PrivateLeftIsAwaited'
  BY <1>2 DEF PrivateLeftIsAwaited, Private
<1> QED BY <1>1, <1>3 DEF AwaitInv

\* The thread that begins its work is a reactor with events of its own connection, or stops the server.
LEMMA StartStays ==
  ASSUME AwaitInv, NEW t \in Threads, NEW s, stack[t] = <<>>, stack' = [stack EXCEPT ![t] = s], Allowed(s, t)
  PROVE  /\ \A u \in Threads : Allowed(stack'[u], u)
         /\ \A u \in Threads, c \in Conns : AtIt(stack[u], c) => AtIt(stack'[u], c)
<1>1. \A u \in Threads : stack'[u] = IF u = t THEN s ELSE stack[u]
  BY DEF AwaitInv, LockInv, TypeOK
<1>2. \A c \in Conns : ~AtIt(<<>>, c)
  BY DEF AtIt
<1> QED BY <1>1, <1>2 DEF AwaitInv

LEMMA EventAwait ==
  ASSUME AwaitInv, LockInv', NEW t \in Threads, NEW c \in Conns, NEW in \in BOOLEAN, NEW out \in BOOLEAN,
         NEW hup \in BOOLEAN, Event(t, c, in, out, hup)
  PROVE  AwaitInv'
<1> DEFINE h == IF hup THEN <<Call("close", c, {})>> ELSE <<>>
           w == IF out THEN <<Call("write", c, {})>> ELSE <<>>
           r == IF in THEN <<Call("read", c, {})>> ELSE <<>>
           s == h \o w \o r
<1>1. ReactorOf[c] = t /\ stack[t] = <<>> /\ stack' = [stack EXCEPT ![t] = s]
      /\ UNCHANGED <<closedAt, pending, writing, polled>>
  BY DEF Event
<1>2. /\ Call("close", c, {}) \in CallType /\ Call("write", c, {}) \in CallType /\ Call("read", c, {}) \in CallType
      /\ Proper(Call("close", c, {}), t) /\ Proper(Call("write", c, {}), t) /\ Proper(Call("read", c, {}), t)
  BY <1>1 DEF Call, CallType, Places, Proper
<1>3. ASSUME NEW x \in Seq(CallType), NEW y \in Seq(CallType), Allowed(x, t), Allowed(y, t)
      PROVE  x \o y \in Seq(CallType) /\ Allowed(x \o y, t)
  <2>1. /\ x \o y \in Seq(CallType) /\ Len(x \o y) = Len(x) + Len(y) /\ Len(x) \in Nat /\ Len(y) \in Nat
        /\ \A i \in 1..Len(x \o y) : (x \o y)[i] = IF i <= Len(x) THEN x[i] ELSE y[i - Len(x)]
    OBVIOUS
  <2>2. \A i \in 1..Len(x \o y) : i \in 1..Len(x) \/ (~(i <= Len(x)) /\ i - Len(x) \in 1..Len(y))
    BY <2>1
  <2>3. \A i \in 1..Len(x) : i <= Len(x)
    OBVIOUS
  <2> QED BY <1>3, <2>1, <2>2, <2>3 DEF Allowed
<1>4. ASSUME NEW f \in CallType, Proper(f, t) PROVE <<f>> \in Seq(CallType) /\ Allowed(<<f>>, t)
  BY <1>4 DEF Allowed
<1>5. <<>> \in Seq(CallType) /\ Allowed(<<>>, t)
  BY DEF Allowed
<1>6. /\ h \in Seq(CallType) /\ Allowed(h, t) /\ w \in Seq(CallType) /\ Allowed(w, t)
      /\ r \in Seq(CallType) /\ Allowed(r, t)
  BY <1>2, <1>4, <1>5
<1> HIDE DEF h, w, r
<1>7. Allowed(s, t)
  <2>1. h \o w \in Seq(CallType) /\ Allowed(h \o w, t)
    BY <1>3, <1>6
  <2> QED BY <1>3, <1>6, <2>1
<1> HIDE DEF s
<1> QED BY <1>1, <1>7, StartStays, QuietAwait

LEMMA DisconnectAwait ==
  ASSUME AwaitInv, LockInv', NEW t \in Threads, NEW c \in Conns, Disconnect(t, c)
  PROVE  AwaitInv'
<1> DEFINE s == <<Call("close", c, {})>>
<1>1. stack[t] = <<>> /\ stack' = [stack EXCEPT ![t] = s] /\ UNCHANGED <<closedAt, pending, writing, polled>>
  BY DEF Disconnect
<1>2. Allowed(s, t)
  BY DEF Allowed, Proper, Call
<1> HIDE DEF s
<1> QED BY <1>1, <1>2, StartStays, QuietAwait

LEMMA CallSendAwait ==
  ASSUME AwaitInv, LockInv', NEW t \in Threads, NEW x \in Conns, CallSend(t, x)
  PROVE  AwaitInv'
<1> DEFINE p == Front(stack[t])
           f == Last(stack[t])
           g == Call(f.at, f.conn, f.rest \ {x})
           e == Call("send", x, {})
<1>1. stack[t] # <<>> /\ f.at \in {"callback", "notify"} /\ x \in f.rest
      /\ UNCHANGED <<closedAt, pending, writing, polled>>
  BY DEF CallSend, In
<1>2. stack[t] \in Seq(CallType) /\ p \in Seq(CallType) /\ f \in CallType /\ Allowed(stack[t], t)
  BY <1>1, TopFacts DEF AwaitInv
<1>3. /\ Allowed(p, t) /\ Proper(f, t)
      /\ \A c \in Conns : AtIt(stack[t], c) => AtIt(p, c)
  BY <1>1, <1>2, FrontStays DEF Writes
<1>4. /\ g \in CallType /\ Proper(g, t) /\ e \in CallType /\ Proper(e, t)
  BY <1>1, <1>2, <1>3 DEF Call, CallType, Places, Proper
<1>5. stack' = [stack EXCEPT ![t] = p \o <<g, e>>]
  BY DEF CallSend
<1> HIDE DEF p, f, g, e
<1>6. /\ Append(p, g) \in Seq(CallType) /\ Allowed(Append(p, g), t)
      /\ \A c \in Conns : AtIt(p, c) => AtIt(Append(p, g), c)
  BY <1>2, <1>3, <1>4, AppendStays
<1> DEFINE q == Append(p, g)
<1>7. Append(q, e) = p \o <<g, e>>
  BY <1>2, <1>4
<1> HIDE DEF q
<1>8. /\ Allowed(Append(q, e), t)
      /\ \A c \in Conns : AtIt(q, c) => AtIt(Append(q, e), c)
  BY <1>4, <1>6, AppendStays DEF q
<1>9. \A u \in Threads : stack'[u] = IF u = t THEN Append(q, e) ELSE stack[u]
  BY <1>5, <1>7 DEF AwaitInv, LockInv, TypeOK
<1>10. \A c \in Conns : AtIt(stack[t], c) => AtIt(Append(q, e), c)
  BY <1>3, <1>6, <1>8 DEF q
<1>11. /\ \A u \in Threads : Allowed(stack'[u], u)
       /\ \A u \in Threads, c \in Conns : AtIt(stack[u], c) => AtIt(stack'[u], c)
  BY <1>8, <1>9, <1>10 DEF AwaitInv
<1> QED BY <1>1, <1>11, QuietAwait

\* Close marks the connection and takes its channel out of the reactor in one go.
LEMMA CloseAwait ==
  ASSUME AwaitInv, LockInv', NEW t \in Threads, stack[t] # <<>>, Close(t)
  PROVE  AwaitInv'
<1>1. PICK rest \in SUBSET SendsTo[t] : Goto(t, "notify", rest)
  BY DEF Close
<1>2. rest \in SUBSET Conns /\ Proper(Call("notify", Conn(t), rest), t) /\ "notify" \in Places
  BY SendsAssumption DEF Proper, Call, Places
<1>3. /\ \A u \in Threads : Allowed(stack'[u], u)
      /\ \A u \in Threads, c \in Conns : AtIt(stack[u], c) => AtIt(stack'[u], c) \/ Conn(t) = c
  BY <1>1, <1>2, GotoStays
<1>4. /\ closedAt' = [closedAt EXCEPT ![Conn(t)] = closes + 1]
      /\ polled' = [polled EXCEPT ![Conn(t)] = FALSE] /\ UNCHANGED <<pending, writing>>
  BY DEF Close
<1>5. Conn(t) \in Conns /\ closedAt \in [Conns -> Nat] /\ closes \in Nat /\ polled \in [Conns -> BOOLEAN]
  BY TopFacts DEF AwaitInv, LockInv, TypeOK
<1>6. /\ closedAt'[Conn(t)] # 0
      /\ \A c \in Conns : closedAt[c] # 0 => closedAt'[c] # 0
      /\ \A c \in Conns : closedAt'[c] = 0 => polled'[c] = polled[c]
  <2> DEFINE turn == closes + 1
  <2>1. turn # 0 /\ closedAt' = [closedAt EXCEPT ![Conn(t)] = turn]
    BY <1>4, <1>5
  <2> HIDE DEF turn
  <2>2. \A c \in Conns : closedAt'[c] = IF c = Conn(t) THEN turn ELSE closedAt[c]
    BY <1>5, <2>1
  <2>3. \A c \in Conns : c # Conn(t) => polled'[c] = polled[c]
    BY <1>4, <1>5
  <2> QED BY <1>5, <2>1, <2>2, <2>3
<1> QED BY <1>3, <1>4, <1>6, QuietAwait

LEMMA ReadAwait ==
  ASSUME AwaitInv, LockInv', NEW t \in Threads,
         ReadLock(t) \/ ReadDone(t) \/ CallbackDone(t) \/ NotifyDone(t)
         \/ (CloseLock(t) /\ ~Close(t)) \/ SendCheck(t) \/ SendLock(t)
  PROVE  AwaitInv'
<1> DEFINE at == Last(stack[t]).at
<1>1. /\ stack[t] # <<>> /\ at \in {"read", "reading", "callback", "notify", "close", "send", "append"}
      /\ UNCHANGED <<closedAt, pending, writing, polled>>
  BY DEF ReadLock, ReadDone, CallbackDone, NotifyDone, CloseLock, SendCheck, SendLock, In
<1>2. Proper(Last(stack[t]), t) /\ Conn(t) \in Conns
  BY <1>1, TopProper, TopFacts DEF AwaitInv
<1>3. CASE Return(t)
  BY <1>1, <1>3, ReturnStays, QuietAwait DEF Writes
<1>4. ASSUME NEW place \in Places, NEW rest \in SUBSET SendsTo[t], Goto(t, place, rest),
             Proper(Call(place, Conn(t), rest), t)
      PROVE  AwaitInv'
  <2>1. rest \in SUBSET Conns
    BY SendsAssumption
  <2> QED BY <1>1, <1>4, <2>1, GotoStays, QuietAwait DEF Writes
<1>5. CASE ReadLock(t) /\ Goto(t, "reading", {})
  <2>1. Proper(Call("reading", Conn(t), {}), t)
    BY <1>2, <1>5 DEF ReadLock, In, Proper, Call, Conn
  <2> QED BY <1>4, <1>5, <2>1 DEF Places
<1>6. CASE ReadDone(t)
  <2>1. PICK rest \in SUBSET SendsTo[t] : Goto(t, "callback", rest)
    BY <1>6 DEF ReadDone
  <2>2. Proper(Call("callback", Conn(t), rest), t)
    BY <1>2, <1>6 DEF ReadDone, In, Proper, Call, Conn
  <2> QED BY <1>4, <2>1, <2>2 DEF Places
<1>7. CASE CallbackDone(t) /\ Goto(t, "close", {})
  <2>1. Proper(Call("close", Conn(t), {}), t)
    BY DEF Proper, Call
  <2> QED BY <1>4, <1>7, <2>1 DEF Places
<1>8. CASE SendCheck(t) /\ Goto(t, "append", {})
  <2>1. Proper(Call("append", Conn(t), {}), t)
    BY <1>2, <1>8 DEF SendCheck, In, Proper, Call, Conn
  <2> QED BY <1>4, <1>8, <2>1 DEF Places
<1>9. CASE SendLock(t)
  <2>1. Proper(Call("appending", Conn(t), {}), t) /\ Goto(t, "appending", {})
    BY <1>2, <1>9 DEF SendLock, In, Proper, Call, Conn
  <2> QED BY <1>4, <2>1 DEF Places
<1> QED BY <1>3, <1>5, <1>6, <1>7, <1>8, <1>9 DEF ReadLock, CallbackDone, NotifyDone, CloseLock, SendCheck

\* Whoever holds the mutex of a private connection that is open is its reactor, in its innermost call: a
\* HandleWrite of the connection finds the mutex free.
LEMMA TryFindsFree ==
  ASSUME AwaitInv, NEW t \in Threads, In(t, "try"), Private(Conn(t)), closedAt[Conn(t)] = 0
  PROVE  mutex[Conn(t)] = Free
<1> DEFINE c == Conn(t)
           u == mutex[c]
           s == stack[u]
<1>1. stack[t] # <<>> /\ Last(stack[t]).at = "try" /\ c \in Conns
  BY TopFacts DEF In, AwaitInv
<1>2. ReactorOf[c] = t
  BY <1>1, TopProper DEF Proper, Private, Conn
<1> SUFFICES ASSUME u # Free PROVE FALSE
  OBVIOUS
<1>3. u \in Threads
  BY <1>1 DEF AwaitInv, LockInv, TypeOK
<1>4. s \in Seq(CallType) /\ WellNested(s) /\ Notifies(s, closedAt) /\ Covers(s, c) /\ Allowed(s, u)
  BY <1>1, <1>3 DEF AwaitInv, LockInv, TypeOK, CallType
<1>5. PICK i \in 1..Len(s) : s[i].conn = c /\ s[i].at \in Inside
  BY <1>4 DEF Covers
<1>6. s[i].at # "notify"
  BY <1>4, <1>5 DEF Notifies
<1>7. Proper(s[i], u)
  BY <1>4, <1>5 DEF Allowed
<1>8. u = t
  BY <1>2, <1>3, <1>5, <1>6, <1>7 DEF Proper, Private, Inside
<1>9. Len(s) \in Nat \ {0} /\ Last(s) = s[Len(s)]
  BY <1>1, <1>4, <1>8, FrontFacts
<1>10. ~(i < Len(s))
  <2> SUFFICES ASSUME i < Len(s) PROVE FALSE
    OBVIOUS
  <2>1. Len(s) \in 1..Len(s)
    BY <1>9
  <2> QED BY <1>4, <1>5, <1>6, <2>1 DEF WellNested, Inside
<1>11. i = Len(s)
  BY <1>9, <1>10
<1> QED BY <1>1, <1>5, <1>8, <1>9, <1>11 DEF Inside

LEMMA WriteAwait ==
  ASSUME AwaitInv, LockInv', NEW t \in Threads, WriteCheck(t) \/ WriteTry(t) \/ (WriteFails(t) /\ ~Close(t))
  PROVE  AwaitInv'
<1> DEFINE at == Last(stack[t]).at
<1>1. stack[t] # <<>> /\ at \in {"write", "try", "writing"} /\ UNCHANGED <<closedAt, pending, writing, polled>>
  BY DEF WriteCheck, WriteTry, WriteFails, In
<1>2. Proper(Last(stack[t]), t) /\ Conn(t) \in Conns
  BY <1>1, TopProper, TopFacts DEF AwaitInv
<1>3. CASE /\ Return(t)
           /\ \A c \in Conns : Private(c) /\ c = Conn(t) => closedAt[c] # 0
  BY <1>1, <1>3, ReturnStays, QuietAwait
<1>4. ASSUME NEW place \in {"try", "writing"}, Goto(t, place, {}) PROVE AwaitInv'
  <2>1. Proper(Call(place, Conn(t), {}), t) /\ place \in Places /\ place \in Writes /\ {} \in SUBSET Conns
    BY <1>1, <1>2 DEF Proper, Call, Conn, Places, Writes
  <2> QED BY <1>1, <1>4, <2>1, GotoStays, QuietAwait
<1>5. CASE WriteCheck(t)
  BY <1>3, <1>4, <1>5 DEF WriteCheck, Closed
<1>6. CASE WriteTry(t)
  <2>1. In(t, "try") /\ ((mutex[Conn(t)] # Free /\ Return(t)) \/ Goto(t, "writing", {}))
    BY <1>6 DEF WriteTry
  <2> QED BY <1>3, <1>4, <2>1, TryFindsFree
<1>7. CASE WriteFails(t) /\ ~Close(t)
  BY <1>3, <1>7 DEF WriteFails, Closed
<1> QED BY <1>5, <1>6, <1>7

\* The two steps that change a buffer: Send goes on to HandleWrite, and HandleWrite asks for the event.
LEMMA AppendAwait ==
  ASSUME AwaitInv, LockInv', NEW t \in Threads, SendAppend(t)
  PROVE  AwaitInv'
<1>1. stack[t] # <<>> /\ Last(stack[t]).at = "appending" /\ Goto(t, "write", {})
      /\ UNCHANGED <<closedAt, writing, polled>>
      /\ pending' = [pending EXCEPT ![Conn(t)] = IF @ < Capacity THEN @ + 1 ELSE @]
  BY DEF SendAppend, In
<1>2. Proper(Last(stack[t]), t) /\ Conn(t) \in Conns
  BY <1>1, TopProper, TopFacts DEF AwaitInv
<1>3. Proper(Call("write", Conn(t), {}), t) /\ "write" \in Places /\ "write" \in Writes /\ {} \in SUBSET Conns
  BY <1>1, <1>2 DEF Proper, Call, Conn, Places, Writes
<1>4. /\ \A u \in Threads : Allowed(stack'[u], u)
      /\ \A u \in Threads, c \in Conns : AtIt(stack[u], c) => AtIt(stack'[u], c)
      /\ AtIt(stack'[t], Conn(t))
  BY <1>1, <1>3, GotoStays
<1>5. ASSUME NEW c \in Conns, Private(c), Left(c)' PROVE writing'[c] /\ polled'[c]
  <2>1. pending'[c] > 0 /\ closedAt'[c] = 0 /\ \A u \in Threads : ~AtIt(stack'[u], c)
    BY <1>5, LeftFacts DEF Left, AtIt, Closed, Writes, LockInv, TypeOK, CallType
  <2>2. c # Conn(t)
    BY <1>4, <2>1
  <2>3. pending'[c] = pending[c]
    BY <1>1, <2>2 DEF AwaitInv, LockInv, TypeOK
  <2>4. Left(c)
    BY <1>1, <1>4, <2>1, <2>3, LeftFacts DEF AwaitInv
  <2> QED BY <1>1, <1>5, <2>4 DEF AwaitInv, PrivateLeftIsAwaited
<1>6. PrivateLeftIsAwaited' /\ OpenArePolled'
  BY <1>1, <1>5 DEF PrivateLeftIsAwaited, Private, AwaitInv, OpenArePolled
<1> QED BY <1>4, <1>6 DEF AwaitInv

LEMMA DoneAwait ==
  ASSUME AwaitInv, LockInv', NEW t \in Threads, WriteDone(t)
  PROVE  AwaitInv'
<1> DEFINE x == Conn(t)
<1>1. stack[t] # <<>> /\ Last(stack[t]).at = "writing" /\ Return(t) /\ UNCHANGED closedAt
  BY DEF WriteDone, In
<1>2. x \in Conns
  BY <1>1, TopFacts DEF AwaitInv
<1>3. PICK left \in 0..pending[x] :
        /\ pending' = [pending EXCEPT ![x] = left]
        /\ writing' = [writing EXCEPT ![x] = left > 0]
        /\ polled' = [polled EXCEPT ![x] = IF writing'[x] = writing[x] THEN @ ELSE TRUE]
  BY DEF WriteDone
<1>4. /\ \A u \in Threads : Allowed(stack'[u], u)
      /\ \A u \in Threads, c \in Conns : AtIt(stack[u], c) => AtIt(stack'[u], c) \/ c = x
  BY <1>1, ReturnStays
<1> HIDE DEF x
<1>5. \A c \in Conns : c # x => pending'[c] = pending[c] /\ writing'[c] = writing[c] /\ polled'[c] = polled[c]
  BY <1>3 DEF AwaitInv, LockInv, TypeOK
<1>6. polled'[x] = (IF writing'[x] = writing[x] THEN polled[x] ELSE TRUE)
  BY <1>2, <1>3 DEF AwaitInv, LockInv, TypeOK
<1>7. OpenArePolled'
  BY <1>1, <1>2, <1>5, <1>6 DEF AwaitInv, OpenArePolled
<1>8. pending'[x] > 0 => writing'[x]
  <2>1. pending'[x] = left
    BY <1>2, <1>3 DEF AwaitInv, LockInv, TypeOK
  <2>2. writing'[x] = (left > 0)
    <3> DEFINE some == left > 0
    <3>1. writing' = [writing EXCEPT ![x] = some]
      BY <1>3
    <3> HIDE DEF some
    <3>2. writing'[x] = some
      BY <1>2, <3>1 DEF AwaitInv, LockInv, TypeOK
    <3> QED BY <3>2 DEF some
  <2> QED BY <2>1, <2>2
<1>9. ASSUME NEW c \in Conns, Private(c), Left(c)' PROVE writing'[c] /\ polled'[c]
  <2>1. pending'[c] > 0 /\ closedAt'[c] = 0 /\ \A u \in Threads : ~AtIt(stack'[u], c)
    BY <1>9, LeftFacts DEF Left, AtIt, Closed, Writes, LockInv, TypeOK, CallType
  <2>2. CASE c = x
    BY <1>2, <1>7, <1>8, <2>1, <2>2 DEF OpenArePolled
  <2>3. CASE c # x
    <3>1. Left(c)
      BY <1>1, <1>4, <1>5, <2>1, <2>3, LeftFacts DEF AwaitInv
    <3> QED BY <1>5, <1>9, <2>3, <3>1 DEF AwaitInv, PrivateLeftIsAwaited
  <2> QED BY <2>2, <2>3
<1>10. PrivateLeftIsAwaited'
  BY <1>9 DEF PrivateLeftIsAwaited, Private
<1> QED BY <1>4, <1>7, <1>10 DEF AwaitInv

LEMMA NextAwait == ASSUME AwaitInv, [Next]_vars PROVE AwaitInv'
<1>1. LockInv'
  BY NextInv DEF AwaitInv
<1>2. CASE UNCHANGED vars
  BY <1>1, <1>2, QuietAwait DEF vars, AwaitInv
<1>3. ASSUME NEW t \in Threads, Close(t), In(t, "reading") \/ In(t, "close") \/ In(t, "writing") PROVE AwaitInv'
  BY <1>1, <1>3, CloseAwait DEF In
<1>4. ASSUME NEW t \in Threads,
             \/ ReadLock(t) \/ ReadFails(t) \/ ReadDone(t) \/ CallbackDone(t) \/ CloseLock(t) \/ NotifyDone(t)
             \/ SendCheck(t) \/ SendLock(t) \/ SendAppend(t)
             \/ WriteCheck(t) \/ WriteTry(t) \/ WriteFails(t) \/ WriteDone(t)
      PROVE  AwaitInv'
  <2>1. ReadFails(t) \/ CloseLock(t) \/ WriteFails(t) => In(t, "reading") \/ In(t, "close") \/ In(t, "writing")
    BY DEF ReadFails, CloseLock, WriteFails
  <2>2. ReadFails(t) => Close(t)
    BY DEF ReadFails
  <2> QED BY <1>1, <1>3, <1>4, <2>1, <2>2, ReadAwait, WriteAwait, AppendAwait, DoneAwait
<1> QED BY <1>1, <1>2, <1>4, EventAwait, DisconnectAwait, CallSendAwait DEF Next

\* Data that is left in the write buffer of a connection that only its own reactor's handlers send to waits
\* for a write event: a HandleWrite that gives up because its try_lock fails never leaves such data behind.
THEOREM LeftoversAreAwaited == Spec => []PrivateLeftIsAwaited
<1>1. Init => AwaitInv
  <2> SUFFICES ASSUME Init PROVE AwaitInv
    OBVIOUS
  <2>1. LockInv
    BY InitLockInv
  <2>2. \A t \in Threads : Allowed(stack[t], t)
    BY DEF Init, Allowed
  <2>3. OpenArePolled /\ PrivateLeftIsAwaited
    BY DEF Init, OpenArePolled, PrivateLeftIsAwaited, Left
  <2> QED BY <2>1, <2>2, <2>3 DEF AwaitInv
<1>2. AwaitInv /\ [Next]_vars => AwaitInv'
  BY NextAwait
<1>3. AwaitInv => PrivateLeftIsAwaited
  BY DEF AwaitInv
<1> QED BY <1>1, <1>2, <1>3, PTL DEF Spec
=============================================================================
