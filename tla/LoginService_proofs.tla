-------------------------- MODULE LoginService_proofs --------------------------
(***************************************************************************)
(* The login servers, together, are one registry of accounts, for any      *)
(* number of servers, clients and codes.                                   *)
(***************************************************************************)
EXTENDS LoginService, SequenceTheorems, TLAPS

Queries == [op : {"Login", "Register"}, code : Codes]

AccountTypes ==
  /\ rows \in [Codes -> Nat]
  /\ query \in [Peers -> Queries \cup {None}]

LoadTypes ==
  /\ table \in [Servers -> Loads \cup {None}]
  /\ spent \in [Servers -> BOOLEAN] /\ crashed \in BOOLEAN

PeerTypes ==
  /\ site \in [Peers -> Servers \cup {Balancer, None}]
  /\ wire \in [Peers -> Seq(Requests)] /\ left \in [Peers -> Seq(Requests)]
  /\ mail \in [Peers -> Seq(Replies)]
  /\ sent \in [Peers -> Nat]
  /\ answered \in [Clients -> BOOLEAN] /\ eager \subseteq Clients

LEMMA Types == TypeOK <=> AccountTypes /\ LoadTypes /\ PeerTypes
BY DEF TypeOK, AccountTypes, LoadTypes, PeerTypes, Queries

LEMMA TypesNext == AccountTypes' /\ LoadTypes' /\ PeerTypes' => TypeOK'
BY DEF TypeOK, AccountTypes, LoadTypes, PeerTypes, Queries

-----------------------------------------------------------------------------
(* Types *)

LEMMA LoginIsRequest ==
  ASSUME NEW k \in Codes, NEW skew \in Skews
  PROVE  Logins(k, skew) \in Requests
BY DEF Requests, UserLogin

LEMMA RequestCmds ==
  ASSUME NEW m \in Requests
  PROVE  m.cmd \in {"Register", "Login", "Destory"} /\ m.code \in Codes
BY DEF Requests, UserLogin, UserRegister, UserDestory, Logins

LEMMA SendKeepsMail ==
  ASSUME mail \in [Peers -> Seq(Replies)], NEW p, NEW result, NEW server,
         [result |-> result, server |-> server] \in Replies, Send(p, result, server)
  PROVE  mail' \in [Peers -> Seq(Replies)]
<1> DEFINE m == [result |-> result, server |-> server]
<1>1. mail' = [mail EXCEPT ![p] = Append(mail[p], m)] /\ m \in Replies
  BY DEF Send
<1> HIDE DEF m
<1>2. p \in Peers => Append(mail[p], m) \in Seq(Replies)
  BY <1>1
<1> QED BY <1>1, <1>2

LEMMA ResultIsReply ==
  ASSUME NEW result \in ResultCode
  PROVE  [result |-> result, server |-> None] \in Replies
BY DEF Replies, LoginResult

LEMMA AnswerIsReply ==
  /\ [result |-> "ERROR", server |-> None] \in Replies
  /\ \A s \in Servers : [result |-> "S_OK", server |-> s] \in Replies
BY DEF Replies, LoginReply

LEMMA UpdateMonitorType ==
  ASSUME TypeOK, NEW s \in Servers, UpdateMonitor(s)
  PROVE  TypeOK'
<1>1. LoadTypes'
  BY Types DEF UpdateMonitor, GetMemUsage, LoadTypes, Loads
<1>2. AccountTypes' /\ PeerTypes'
  BY Types DEF UpdateMonitor, AccountTypes, PeerTypes, accountVars, peerVars
<1> QED BY <1>1, <1>2, TypesNext

LEMMA AddRequest ==
  ASSUME PeerTypes, NEW p \in Peers, NEW m \in Requests,
         wire' = [wire EXCEPT ![p] = Append(@, m)], sent' = [sent EXCEPT ![p] = @ + 1],
         UNCHANGED <<site, left, mail>>,
         answered' \in [Clients -> BOOLEAN], eager' \subseteq Clients
  PROVE  PeerTypes'
<1>1. Append(wire[p], m) \in Seq(Requests)
  BY DEF PeerTypes
<1>2. sent[p] + 1 \in Nat
  BY DEF PeerTypes
<1> QED BY <1>1, <1>2 DEF PeerTypes

LEMMA AskType ==
  ASSUME TypeOK, NEW p \in Peers, \/ p \in Clients /\ Click(p)
                                  \/ Ask(p)
  PROVE  TypeOK'
<1>1. PeerTypes'
  <2>1. CASE p \in Clients /\ Click(p)
    <3>1. PICK skew \in Skews :
            wire' = [wire EXCEPT ![p] = Append(@, Logins(IF site[p] = Balancer THEN OwnCode ELSE Garbled, skew))]
      BY <2>1 DEF Click
    <3>2. Logins(IF site[p] = Balancer THEN OwnCode ELSE Garbled, skew) \in Requests
      BY LoginIsRequest, CodeAssumption
    <3>3. answered' \in [Clients -> BOOLEAN] /\ eager' \subseteq Clients
      BY <2>1, Types DEF Click, PeerTypes
    <3> QED BY <2>1, <3>1, <3>2, <3>3, AddRequest, Types DEF Click
  <2>2. CASE Ask(p)
    BY <2>2, AddRequest, Types DEF Ask, PeerTypes
  <2> QED BY <2>1, <2>2
<1>2. AccountTypes' /\ LoadTypes'
  BY Types DEF Click, Ask, AccountTypes, LoadTypes, accountVars, loadVars
<1> QED BY <1>1, <1>2, TypesNext

LEMMA ConcatNotEmpty ==
  ASSUME NEW S, NEW a \in Seq(S), NEW b \in Seq(S), b # <<>>
  PROVE  a \o b \in Seq(S) /\ a \o b # <<>>
<1> DEFINE s == a \o b
          k == Len(a)
          n == Len(b)
<1>1. s \in Seq(S) /\ Len(s) = k + n /\ k \in Nat /\ n \in Nat /\ n # 0
  OBVIOUS
<1> HIDE DEF k, n
<1>2. k + n # 0
  BY <1>1
<1> QED BY <1>1, <1>2

LEMMA ReadsType ==
  ASSUME PeerTypes, NEW p \in Peers, NEW m, Reads(p, m)
  PROVE  /\ left' \in [Peers -> Seq(Requests)] /\ wire' \in [Peers -> Seq(Requests)]
<1> DEFINE s == left[p] \o wire[p]
<1>1. s \in Seq(Requests) /\ s # <<>>
  BY ConcatNotEmpty DEF PeerTypes, Reads
<1>2. left' = [left EXCEPT ![p] = Tail(s)] /\ wire' = [wire EXCEPT ![p] = <<>>]
  BY DEF Reads
<1> HIDE DEF s
<1>3. Tail(s) \in Seq(Requests) /\ <<>> \in Seq(Requests)
  BY <1>1
<1> QED BY <1>2, <1>3 DEF PeerTypes

\* A request changes the accounts or sends a reply.
LEMMA HandledType ==
  ASSUME TypeOK, NEW p \in Peers, NEW m \in Requests,
         IF site[p] = Balancer THEN BalancerLogin(p, m) ELSE ServerHandles(p, m)
  PROVE  AccountTypes' /\ LoadTypes' /\ mail' \in [Peers -> Seq(Replies)]
<1>1. AccountTypes /\ LoadTypes /\ mail \in [Peers -> Seq(Replies)] /\ m.code \in Codes
  BY Types DEF PeerTypes, Requests, UserLogin, UserRegister, UserDestory, Logins
<1>2. CASE BalancerLogin(p, m)
  <2>1. AccountTypes' /\ LoadTypes'
    BY <1>1, <1>2 DEF BalancerLogin, accountVars, AccountTypes, LoadTypes
  <2>2. Send(p, "ERROR", None) \/ UNCHANGED mail \/ \E s \in Servers : Send(p, "S_OK", s)
    BY <1>2 DEF BalancerLogin, BestServers
  <2> QED BY <1>1, <2>1, <2>2, AnswerIsReply, SendKeepsMail
<1>3. CASE ServerHandles(p, m)
  <2>0. LoadTypes'
    BY <1>1, <1>3 DEF ServerHandles, LoadTypes, loadVars
  <2>1. ASSUME UNCHANGED <<rows, query>>, NEW result \in ResultCode, Send(p, result, None)
        PROVE  AccountTypes' /\ mail' \in [Peers -> Seq(Replies)]
    BY <1>1, <2>1, ResultIsReply, SendKeepsMail DEF AccountTypes
  <2>2. ASSUME NEW op \in {"Login", "Register"}, Inserting(p, op, m.code)
        PROVE  AccountTypes' /\ mail' \in [Peers -> Seq(Replies)]
    <3>1. [op |-> op, code |-> m.code] \in Queries
      BY <1>1, <2>2 DEF Queries
    <3> QED BY <1>1, <2>2, <3>1 DEF Inserting, AccountTypes
  <2>3. CASE TooOld(p, m)
    BY <2>0, <2>1, <2>3 DEF TooOld, accountVars, ResultCode
  <2>4. CASE Register(p, m)
    BY <2>0, <2>1, <2>2, <2>4 DEF Register, Reply, ResultCode
  <2>5. CASE Login(p, m)
    BY <2>0, <2>1, <2>2, <2>5 DEF Login, Reply, ResultCode
  <2>6. CASE Destory(m)
    BY <1>1, <2>0, <2>6 DEF Destory, AccountTypes
  <2>7. TooOld(p, m) \/ Register(p, m) \/ Login(p, m) \/ Destory(m)
    BY <1>3, RequestCmds DEF ServerHandles
  <2> QED BY <2>3, <2>4, <2>5, <2>6, <2>7
<1> QED BY <1>2, <1>3

LEMMA HandleType ==
  ASSUME TypeOK, NEW p \in Peers, NEW m \in Requests, HandleMessage(p, m)
  PROVE  TypeOK'
<1>1. left' \in [Peers -> Seq(Requests)] /\ wire' \in [Peers -> Seq(Requests)]
  BY ReadsType, Types DEF HandleMessage
<1>2. AccountTypes' /\ LoadTypes' /\ mail' \in [Peers -> Seq(Replies)]
  BY HandledType DEF HandleMessage
<1>3. PeerTypes'
  BY <1>1, <1>2, Types DEF HandleMessage, PeerTypes
<1> QED BY <1>2, <1>3, TypesNext

LEMMA InsertType ==
  ASSUME TypeOK, NEW p \in Peers, InsertClient(p)
  PROVE  TypeOK'
<1> DEFINE q == query[p]
<1>1. q \in Queries /\ AccountTypes /\ PeerTypes /\ LoadTypes
  BY Types DEF InsertClient, AccountTypes
<1>2. PICK k \in Codes : rows' = [rows EXCEPT ![k] = @ + 1]
  BY <1>1 DEF InsertClient, Queries
<1>3. /\ Send(p, "S_OK", None)
      /\ query' = [query EXCEPT ![p] = None]
      /\ UNCHANGED <<site, wire, left, sent, answered, eager, loadVars>>
  BY DEF InsertClient, Reply
<1> HIDE DEF q
<1>4. AccountTypes'
  BY <1>1, <1>2, <1>3 DEF AccountTypes
<1>5. mail' \in [Peers -> Seq(Replies)]
  BY <1>1, <1>3, ResultIsReply, SendKeepsMail DEF PeerTypes, ResultCode
<1>6. PeerTypes' /\ LoadTypes'
  BY <1>1, <1>3, <1>5 DEF PeerTypes, LoadTypes, loadVars
<1> QED BY <1>4, <1>6, TypesNext

LEMMA ReadDataType ==
  ASSUME TypeOK, NEW c \in Clients, ReadData(c)
  PROVE  TypeOK'
<1>1. AccountTypes' /\ LoadTypes'
  BY Types DEF ReadData, accountVars, loadVars, AccountTypes, LoadTypes
<1>2. c \in Peers /\ PeerTypes /\ mail[c] \in Seq(Replies) /\ mail[c] # <<>>
  BY Types DEF Peers, PeerTypes, ReadData
<1> DEFINE reply == Head(mail[c])
<1>3. reply \in Replies
  BY <1>2
<1>4. reply.server \in Servers \cup {None}
  BY <1>3 DEF Replies, LoginResult, LoginReply
<1>5. /\ mail' = [mail EXCEPT ![c] = <<>>] /\ UNCHANGED <<sent, eager>>
      /\ \/ /\ reply.server # None
            /\ left' = [left EXCEPT ![c] = <<>>]
            /\ \/ /\ site' = [site EXCEPT ![c] = reply.server]
                  /\ \E skew \in Skews : wire' = [wire EXCEPT ![c] = <<Logins(OwnCode, skew)>>]
               \/ site' = [site EXCEPT ![c] = None] /\ wire' = [wire EXCEPT ![c] = <<>>]
            /\ UNCHANGED answered
         \/ answered' = [answered EXCEPT ![c] = TRUE] /\ UNCHANGED <<site, wire, left>>
  BY DEF ReadData
<1> HIDE DEF reply
<1>6. <<>> \in Seq(Requests) /\ <<>> \in Seq(Replies)
      /\ \A skew \in Skews : <<Logins(OwnCode, skew)>> \in Seq(Requests)
  BY LoginIsRequest, CodeAssumption
<1>7. PeerTypes'
  <2>1. wire' \in [Peers -> Seq(Requests)] /\ left' \in [Peers -> Seq(Requests)] /\ mail' \in [Peers -> Seq(Replies)]
    BY <1>2, <1>5, <1>6 DEF PeerTypes
  <2>2. site' \in [Peers -> Servers \cup {Balancer, None}]
    BY <1>2, <1>4, <1>5 DEF PeerTypes
  <2>3. answered' \in [Clients -> BOOLEAN]
    BY <1>2, <1>5 DEF PeerTypes
  <2> QED BY <1>2, <1>5, <2>1, <2>2, <2>3 DEF PeerTypes
<1> QED BY <1>1, <1>7, TypesNext

LEMMA NextType == ASSUME TypeOK, [Next]_vars PROVE TypeOK'
<1>1. CASE UNCHANGED vars
  BY <1>1 DEF vars, accountVars, loadVars, peerVars, TypeOK
<1>2. ASSUME NEW p \in Peers, Handle(p) PROVE TypeOK'
  BY <1>2, HandleType DEF Handle
<1>3. Clients \subseteq Peers /\ Admins \subseteq Peers
  BY DEF Peers
<1> QED BY <1>1, <1>2, <1>3, UpdateMonitorType, InsertType, AskType, ReadDataType DEF Next

LEMMA InitType == Init => TypeOK
<1> SUFFICES ASSUME Init PROVE TypeOK
  OBVIOUS
<1>1. <<>> \in Seq(Requests) /\ <<>> \in Seq(Replies) 
  OBVIOUS
<1>2. /\ wire \in [Peers -> Seq(Requests)] /\ left \in [Peers -> Seq(Requests)]
      /\ mail \in [Peers -> Seq(Replies)] /\ sent \in [Peers -> Nat]
  BY <1>1 DEF Init
<1>3. site \in [Peers -> Servers \cup {Balancer, None}]
  BY SiteAssumption DEF Init, Peers
<1> QED BY <1>1, <1>2, <1>3 DEF Init, TypeOK

\* The site's state keeps its types: no reply, request or row of a form the code does not know.
THEOREM TypeCorrect == Spec => []TypeOK
BY InitType, NextType, PTL DEF Spec

-----------------------------------------------------------------------------
(* The registry *)

Accounts == {k \in Codes : rows[k] > 0}

RegistryStep == registry!Next \/ UNCHANGED <<Accounts, query, answer>>

LEMMA RestIsStutter ==
  ASSUME UNCHANGED accountVars
  PROVE  RegistryStep
BY DEF RegistryStep, Accounts, accountVars

\* A row is added: its code is an account, and the others are as they were.
LEMMA RowAdded ==
  ASSUME TypeOK, NEW k \in Codes, rows' = [rows EXCEPT ![k] = @ + 1]
  PROVE  Accounts' = Accounts \cup {k}
<1>1. rows'[k] = rows[k] + 1 /\ rows[k] \in Nat /\ \A x \in Codes \ {k} : rows'[x] = rows[x]
  BY DEF TypeOK
<1>2. rows'[k] > 0
  BY <1>1
<1> QED BY <1>1, <1>2 DEF Accounts

\* A server's handler refuses as the registry would, or grants what it will carry out.
LEMMA HandledStep ==
  ASSUME TypeOK, NEW p \in Peers, NEW m \in Requests, query[p] = None, ServerHandles(p, m)
  PROVE  RegistryStep
<1>1. m.code \in Codes
  BY RequestCmds
<1>2. Selects(m.code) <=> m.code \in Accounts
  BY <1>1 DEF Selects, Accounts
<1>3. ASSUME NEW result, NEW op, UNCHANGED <<rows, query>>, Reply(p, op, m.code, result),
             \/ op = "Register" /\ m.code \in Accounts /\ result = "ALREADY_REGISTERED"
             \/ op = "Login" /\ m.code \in Accounts /\ result = "ALREADY_LOGIN"
             \/ op = "Login" /\ m.code \notin Accounts /\ result = "SERVER_ERROR"
      PROVE  RegistryStep
  <2>1. UNCHANGED <<Accounts, query>> /\ answer' = [op |-> op, code |-> m.code, result |-> result]
    BY <1>3 DEF Accounts, Reply
  <2>2. registry!Refuse(m.code)
    BY <1>3, <2>1 DEF registry!Refuse, registry!Answer, Accounts
  <2> QED BY <1>1, <2>2 DEF registry!Next, RegistryStep
<1>4. ASSUME NEW op \in {"Register", "Login"}, Inserting(p, op, m.code), op = "Login" <=> m.code \in Accounts
      PROVE  RegistryStep
  <2>1. UNCHANGED <<Accounts, answer>> /\ query' = [query EXCEPT ![p] = [op |-> op, code |-> m.code]]
    BY <1>4 DEF Inserting, Accounts
  <2>2. registry!Grant(p, m.code)
    BY <1>4, <2>1 DEF registry!Grant, Accounts
  <2> QED BY <1>1, <2>2 DEF registry!Next, RegistryStep
<1>5. CASE TooOld(p, m)
  BY <1>5, RestIsStutter DEF TooOld
<1>6. CASE Register(p, m)
  BY <1>2, <1>3, <1>4, <1>6 DEF Register
<1>7. CASE Login(p, m)
  BY <1>2, <1>3, <1>4, <1>7 DEF Login
<1>8. CASE Destory(m)
  <2>1. rows'[m.code] = 0 /\ \A x \in Codes \ {m.code} : rows'[x] = rows[x]
    BY <1>1, <1>8 DEF Destory, TypeOK
  <2>2. Accounts' = Accounts \ {m.code} /\ UNCHANGED <<query, answer>>
    BY <1>8, <2>1 DEF Accounts, Destory
  <2>3. registry!Destory(m.code)
    BY <2>2 DEF registry!Destory, Accounts
  <2> QED BY <1>1, <2>3 DEF registry!Next, RegistryStep
<1>9. TooOld(p, m) \/ Register(p, m) \/ Login(p, m) \/ Destory(m)
  BY RequestCmds DEF ServerHandles
<1> QED BY <1>5, <1>6, <1>7, <1>8, <1>9

LEMMA HandleStep ==
  ASSUME TypeOK, NEW p \in Peers, Handle(p)
  PROVE  RegistryStep
<1>1. PICK m \in Requests : HandleMessage(p, m)
  BY DEF Handle
<1>2. CASE site[p] = Balancer
  BY <1>1, <1>2, RestIsStutter DEF HandleMessage, BalancerLogin
<1>3. CASE site[p] # Balancer
  BY <1>1, <1>3, HandledStep DEF HandleMessage
<1> QED BY <1>2, <1>3

\* Whatever other handlers did since it was granted, a request is carried out as the registry allows.
LEMMA InsertStep ==
  ASSUME TypeOK, NEW p \in Peers, InsertClient(p)
  PROVE  RegistryStep
<1>1. query[p] \in Queries
  BY DEF InsertClient, TypeOK, Queries
<1>2. PICK k \in Codes : (query[p].op = "Register" => k = query[p].code) /\ rows' = [rows EXCEPT ![k] = @ + 1]
  BY <1>1 DEF InsertClient, Queries
<1>3. Accounts' = Accounts \cup {k}
  BY <1>2, RowAdded
<1>4. /\ query[p] # None /\ query' = [query EXCEPT ![p] = None]
      /\ answer' = [op |-> query[p].op, code |-> query[p].code, result |-> "S_OK"]
  BY DEF InsertClient, Reply
<1>5. registry!CarryOut(p)
  BY <1>2, <1>3, <1>4 DEF registry!CarryOut, registry!Answer, Accounts
<1> QED BY <1>5 DEF registry!Next, RegistryStep

LEMMA EveryStep ==
  ASSUME TypeOK, [Next]_vars
  PROVE  RegistryStep
<1>1. CASE UNCHANGED vars
  BY <1>1, RestIsStutter DEF vars
<1>2. CASE Next
  <2>1. ASSUME NEW s \in Servers, UpdateMonitor(s) PROVE RegistryStep
    BY <2>1, RestIsStutter DEF UpdateMonitor
  <2>2. ASSUME NEW c, Click(c) \/ ReadData(c) \/ Ask(c) PROVE RegistryStep
    BY <2>2, RestIsStutter DEF Click, ReadData, Ask
  <2> QED BY <1>2, <2>1, <2>2, HandleStep, InsertStep DEF Next
<1> QED BY <1>1, <1>2

\* The login servers, however many, with rows for every login and handlers that overlap between their
\* two queries, are one registry: every refusal is right when it is given, and what is granted was free
\* to register, or was an account to log in to, when it was looked up.
THEOREM RegistryIsImplemented == Spec => ImplementsRegistry
<1>1. Init => registry!Init
  BY DEF Init, registry!Init
<1>2. TypeOK /\ [Next]_vars => [registry!Next]_<<Accounts, query, answer>>
  BY EveryStep DEF RegistryStep
<1> QED BY <1>1, <1>2, TypeCorrect, PTL DEF Spec, ImplementsRegistry, registry!Spec, Accounts
=============================================================================
