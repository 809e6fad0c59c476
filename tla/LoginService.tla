---------------------------- MODULE LoginService ----------------------------
(***************************************************************************)
(* How a client logs in.  CLoginWidget asks the load balancer, which       *)
(* answers with the login server of the smallest load; the client connects *)
(* there and sends its login.  Login servers tell the balancer their load  *)
(* every second and keep the accounts in one MySQL table, a row for every  *)
(* registration and a row for every login, each request in up to two       *)
(* queries with nothing held between them: handlers of all connections     *)
(* overlap.                                                                *)
(*                                                                         *)
(* A server's connection handles one message for each event, however many  *)
(* have come; what is left waits in its buffer for the next event.         *)
(* Queries do not fail, and two threads of a server do not use its one     *)
(* MYSQL handle at the same instant, which is undefined.                   *)
(***************************************************************************)
EXTENDS Integers, Sequences, FiniteSets

CONSTANTS
  Clients,   \* login widgets
  Admins,    \* connections that register and delete accounts
  Servers,   \* login servers
  Uses,      \* the login server each admin is connected to
  Codes,     \* account codes
  OwnCode,   \* the code every widget logs in with
  Garbled,   \* what a login server reads from a message made for the balancer
  Balancer, None,
  Skews,     \* bound: how far a client's clock is ahead, in seconds
  FreeMems,  \* bound: loads in per cent that /proc/meminfo may show
  MaxClicks, \* bound: clicks of a client
  MaxAsks    \* bound: messages an admin sends

ASSUME SiteAssumption == Balancer \notin Servers /\ Clients \cap Admins = {} /\ Uses \in [Admins -> Servers]
ASSUME CodeAssumption == OwnCode \in Codes /\ Garbled \in Codes
ASSUME BoundAssumption == MaxClicks \in Nat /\ MaxAsks \in Nat

VARIABLES
  rows,    \* the table clients: how many rows a code has
  query,   \* the handler of a peer's connection that has selected and is to insert
  answer,  \* the last answer about an account (a history variable)
  table,   \* m_mapMonitorInfos: a server's load, or None
  spent,   \* m_file of the server's CTcpClient is behind MemAvailable
  crashed, \* the balancer took the first of no servers
  site,    \* what a peer is connected to
  wire, left, mail,  \* messages to it: under way, and in its buffer; and its replies
  sent,    \* messages sent so far
  answered, \* a client has read an answer since it asked last, whatever it makes of it (a history variable)
  eager    \* clients that asked again before they were answered (a history variable)

accountVars == <<rows, query, answer>>
loadVars == <<table, spent, crashed>>
peerVars == <<site, wire, left, mail, sent, answered, eager>>
vars == <<accountVars, loadVars, peerVars>>

Peers == Clients \cup Admins
Logins(code, skew) == [cmd |-> "Login", code |-> code, skew |-> skew]
UserLogin == {Logins(code, skew) : code \in Codes, skew \in Skews}
UserRegister == [cmd : {"Register"}, code : Codes, skew : Skews]
UserDestory == [cmd : {"Destory"}, code : Codes, skew : {0}]
Requests == UserLogin \cup UserRegister \cup UserDestory
ResultCode == {"SERVER_ERROR", "REQUEST_TIMEOUT", "ALREADY_REGISTERED", "ALREADY_LOGIN", "S_OK"}
LoginResult == [result : ResultCode, server : {None}]
LoginReply == [result : {"S_OK"}, server : Servers] \cup [result : {"ERROR"}, server : {None}]
Replies == LoginResult \cup LoginReply
Loads == FreeMems \cup {100}

TypeOK ==
  /\ rows \in [Codes -> Nat]
  /\ query \in [Peers -> [op : {"Login", "Register"}, code : Codes] \cup {None}]
  /\ table \in [Servers -> Loads \cup {None}]
  /\ spent \in [Servers -> BOOLEAN] /\ crashed \in BOOLEAN
  /\ site \in [Peers -> Servers \cup {Balancer, None}]
  /\ wire \in [Peers -> Seq(Requests)] /\ left \in [Peers -> Seq(Requests)]
  /\ mail \in [Peers -> Seq(Replies)]
  /\ sent \in [Peers -> Nat] /\ answered \in [Clients -> BOOLEAN] /\ eager \subseteq Clients

Init ==
  /\ rows = [k \in Codes |-> 0]
  /\ query = [p \in Peers |-> None]
  /\ answer = [op |-> "none"]
  /\ table = [s \in Servers |-> None]
  /\ spent = [s \in Servers |-> FALSE] /\ crashed = FALSE
  /\ site = [p \in Peers |-> IF p \in Clients THEN Balancer ELSE Uses[p]]
  /\ wire = [p \in Peers |-> <<>>] /\ left = wire /\ mail = wire
  /\ sent = [p \in Peers |-> 0]
  /\ answered = [c \in Clients |-> FALSE] /\ eager = {}

-----------------------------------------------------------------------------
(* Heartbeats *)

\* Mutant: the share of memory that is free.
GetMemFree(s) == IF spent[s] THEN {0} ELSE {100 - m : m \in FreeMems}

\* GetMemUsage reads on from where it stopped: only the first time does it find MemAvailable, later it
\* sees no free memory.
GetMemUsage(s) == IF spent[s] THEN {100} ELSE FreeMems

\* What the server's heartbeats say when the balancer next looks at them.  Its entry is a pointer into
\* the connection's buffer, which shows the last heartbeat or an earlier one that waits there.
UpdateMonitor(s) ==
  /\ ~crashed
  /\ \E load \in GetMemUsage(s) \cup ({table[s]} \ {None}) : table' = [table EXCEPT ![s] = load]
  /\ spent' = [spent EXCEPT ![s] = TRUE]
  /\ UNCHANGED <<crashed, accountVars, peerVars>>

-----------------------------------------------------------------------------
(* Requests *)

\* bIsTimeout: the difference is unsigned, here of 16 bits, so that a clock that is ahead is far behind.
TIMEOUT == 60
IsTimeout(skew) == (0 - skew) % 65536 > TIMEOUT

\* A click sends Login_Info, whatever the widget is connected to.
Click(c) ==
  /\ site[c] # None
  /\ sent[c] < MaxClicks
  /\ \E skew \in Skews :
       wire' = [wire EXCEPT ![c] = Append(@, Logins(IF site[c] = Balancer THEN OwnCode ELSE Garbled, skew))]
  /\ sent' = [sent EXCEPT ![c] = @ + 1]
  /\ answered' = [answered EXCEPT ![c] = FALSE]
  /\ eager' = IF sent[c] > 0 /\ ~answered[c] THEN eager \cup {c} ELSE eager
  /\ UNCHANGED <<site, left, mail, accountVars, loadVars>>

Ask(a) ==
  /\ sent[a] < MaxAsks
  /\ \E m \in Requests : m.cmd # "Login" /\ wire' = [wire EXCEPT ![a] = Append(@, m)]
  /\ sent' = [sent EXCEPT ![a] = @ + 1]
  /\ UNCHANGED <<site, left, mail, answered, eager, accountVars, loadVars>>

\* bOnRead: what is under way is read (what comes late is sent late), and one message, m, is handled.
Reads(p, m) ==
  /\ wire[p] # <<>>
  /\ m = Head(left[p] \o wire[p])
  /\ left' = [left EXCEPT ![p] = Tail(@ \o wire[p])]
  /\ wire' = [wire EXCEPT ![p] = <<>>]

Send(p, result, server) ==
  mail' = [mail EXCEPT ![p] = Append(@, [result |-> result, server |-> server])]

\* The balancer's GetMonitorInfo: the first of the entries in the order of their loads.
BestServers == {s \in Servers : table[s] # None /\ \A x \in Servers : table[x] = None \/ table[s] <= table[x]}

\* Mutant: a request that is too old is not answered.
BalancerLoginDropped(p, m) ==
  /\ IF IsTimeout(m.skew) THEN UNCHANGED mail ELSE \E s \in BestServers : Send(p, "S_OK", s)
  /\ UNCHANGED <<accountVars, loadVars>>

\* The balancer's HandleLogin.  When no server has told its load there is no first.
BalancerLogin(p, m) ==
  /\ \/ IsTimeout(m.skew) /\ Send(p, "ERROR", None) /\ UNCHANGED crashed
     \/ ~IsTimeout(m.skew) /\ \E s \in BestServers : Send(p, "S_OK", s) /\ UNCHANGED crashed
     \/ ~IsTimeout(m.skew) /\ BestServers = {} /\ crashed' = TRUE /\ UNCHANGED mail
  /\ UNCHANGED <<table, spent, accountVars>>

Reply(p, op, code, result) ==
  /\ Send(p, result, None)
  /\ answer' = [op |-> op, code |-> code, result |-> result]

TooOld(p, m) ==
  /\ IsTimeout(m.skew)
  /\ Send(p, "REQUEST_TIMEOUT", None)
  /\ UNCHANGED accountVars

\* UserLogin, that is selectClientByUsercode, gives a row or NULL.
Selects(code) == rows[code] > 0

\* The handler goes on to insert a row.
Inserting(p, op, code) ==
  /\ query' = [query EXCEPT ![p] = [op |-> op, code |-> code]]
  /\ UNCHANGED <<rows, answer, mail>>

\* Mutant: the first row is not looked for before a new one is inserted.
RegisterAnyway(p, m) == ~IsTimeout(m.skew) /\ Inserting(p, "Register", m.code)

Register(p, m) ==
  /\ ~IsTimeout(m.skew)
  /\ IF Selects(m.code) THEN Reply(p, "Register", m.code, "ALREADY_REGISTERED") /\ UNCHANGED <<rows, query>>
     ELSE Inserting(p, "Register", m.code)

\* The row was freed before it is read: it may say that the account is online or not, whatever it is.
Login(p, m) ==
  /\ ~IsTimeout(m.skew)
  /\ \/ ~Selects(m.code) /\ Reply(p, "Login", m.code, "SERVER_ERROR") /\ UNCHANGED <<rows, query>>
     \/ Selects(m.code) /\ Reply(p, "Login", m.code, "ALREADY_LOGIN") /\ UNCHANGED <<rows, query>>
     \/ Selects(m.code) /\ Inserting(p, "Login", m.code)

Destory(m) ==
  /\ rows' = [rows EXCEPT ![m.code] = 0]
  /\ UNCHANGED <<query, answer, mail>>

\* HandleMessage of a connection of a login server.
ServerHandles(p, m) ==
  /\ CASE m.cmd = "Register" -> TooOld(p, m) \/ Register(p, m)
       [] m.cmd = "Login" -> TooOld(p, m) \/ Login(p, m)
       [] m.cmd = "Destory" -> Destory(m)
  /\ UNCHANGED loadVars

HandleMessage(p, m) ==
  /\ query[p] = None
  /\ Reads(p, m)
  /\ IF site[p] = Balancer THEN ~crashed /\ BalancerLogin(p, m) ELSE ServerHandles(p, m)
  /\ UNCHANGED <<site, sent, answered, eager>>

\* insertClient, and the reply.  A login inserts the fields of the freed row, whose code may be any.
InsertClient(p) ==
  /\ query[p] # None
  /\ LET q == query[p]
     IN  /\ \E k \in IF q.op = "Register" THEN {q.code} ELSE Codes : rows' = [rows EXCEPT ![k] = @ + 1]
         /\ Reply(p, q.op, q.code, "S_OK")
  /\ query' = [query EXCEPT ![p] = None]
  /\ UNCHANGED <<site, wire, left, sent, answered, eager, loadVars>>

\* The widget reads all replies that have come, and looks at the first.  The balancer's sends it on to
\* a login server; when that does not answer in a second the button is dead.  Of a login server's
\* results it looks at S_OK only, and does nothing that could be seen for the others.
ReadData(c) ==
  /\ mail[c] # <<>>
  /\ mail' = [mail EXCEPT ![c] = <<>>]
  /\ LET reply == Head(mail[c])
     IN  IF reply.server # None
           THEN /\ left' = [left EXCEPT ![c] = <<>>]
                /\ \/ /\ site' = [site EXCEPT ![c] = reply.server]
                      /\ \E skew \in Skews : wire' = [wire EXCEPT ![c] = <<Logins(OwnCode, skew)>>]
                   \/ /\ site' = [site EXCEPT ![c] = None]
                      /\ wire' = [wire EXCEPT ![c] = <<>>]
                /\ UNCHANGED answered
           ELSE answered' = [answered EXCEPT ![c] = TRUE] /\ UNCHANGED <<site, wire, left>>
  /\ UNCHANGED <<sent, eager, accountVars, loadVars>>

-----------------------------------------------------------------------------

Handle(p) == \E m \in Requests : HandleMessage(p, m)

Next ==
  \/ \E s \in Servers : UpdateMonitor(s)
  \/ \E c \in Clients : Click(c) \/ ReadData(c)
  \/ \E a \in Admins : Ask(a)
  \/ \E p \in Peers : Handle(p) \/ InsertClient(p)

\* Every connection has a thread that waits for its events, and so has a widget; queries return.
Spec ==
  /\ Init /\ [][Next]_vars
  /\ \A p \in Peers : WF_vars(Handle(p)) /\ WF_vars(InsertClient(p))
  /\ \A c \in Clients : WF_vars(ReadData(c))

-----------------------------------------------------------------------------
(* Properties *)

\* The login servers are one registry whose requests overlap: what a request is answered was so when it
\* was looked up, and a code is registered twice only by requests that overlap, or after it was deleted.
registry == INSTANCE Registry WITH accounts <- {k \in Codes : rows[k] > 0}, decided <- query
ImplementsRegistry == registry!Spec

\* A client that asks only when its last request was answered is answered every time, or finds that the
\* server it was sent to is not there, unless the balancer is gone.  One that asks earlier may wait for
\* ever: its request stays in the buffer behind the one that it came with.
AskedIsAnswered ==
  \A c \in Clients :
    sent[c] > 0 /\ ~answered[c] ~> answered[c] \/ site[c] = None \/ crashed \/ c \in eager
=============================================================================
